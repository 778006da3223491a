-------------------------- MODULE BootHandoverProofs --------------------------
(***************************************************************************)
(* The hand-over of an image to the boot loader (BootTrailer), proved for  *)
(* any number of downloads, of calls of the application and of failures of *)
(* the power: the partition stays readable, the magic of a swap is its     *)
(* last mark, a request is not lost, an unfinished swap is its own, an     *)
(* image on trial is taken back and a confirmed one stays.                 *)
(*                                                                         *)
(* The argument is that of a sequential program with crashes.  What the    *)
(* flash says is a number of marks; FlashInv relates them to the history   *)
(* and has to hold after each access, since the power may fail there; the  *)
(* stages say, for each point of the functions, what is known besides.     *)
(***************************************************************************)
EXTENDS BootTrailerProofs, SequenceTheorems

(* The marks of the flash *)

PMagic == Field(Primary, "magic") # Erased
PInfo  == Field(Primary, "swap_info") # Erased
PSize  == Field(Primary, "swap_size") # Erased
PDone  == Field(Primary, "copy_done") # Erased
POk    == Field(Primary, "image_ok") # Erased
SMagic == Field(Secondary, "magic") # Erased
SOk    == Field(Secondary, "image_ok") # Erased

SlotGood == slot[Secondary].magic = "good"
SlotOk   == slot[Primary].image_ok
Whole    == image[Secondary] # NoImage
Request  == SMagic \/ SlotGood
Unfinished == PMagic /\ ~PDone

---------------------------------------------------------------------------
(* What the flash says at any time, if no erase of an area was cut *)

\* The trailer of the primary slot fits the request that it serves.
Fits ==
  /\ asked = "PERM" => POk
  /\ ~harm.stale => asked # "none" /\ (asked = "TEST" => ~POk)

\* The trailer of the secondary slot, and its end, hold the request.
Requested ==
  /\ asked # "none" => Request
  /\ asked = "PERM" => SOk
  /\ ~harm.stale => (Request => asked # "none") /\ (asked = "TEST" => ~SOk)

\* The next boot takes the image back.
Revertible == PDone /\ ~POk /\ ~SlotOk

\* A newer image is about to take its place.
Replaced == Whole /\ Request /\ mode # "app" /\ ~(mode = "boot" /\ todo = <<>>)

FlashInv ==
  /\ PDone => PMagic
  /\ SOk => SMagic
  /\ Unfinished /\ Exchanged =>
       asked = "none" /\ (confirmed => POk) /\ (trial /\ ~harm.stale => ~POk)
  /\ Unfinished /\ ~Exchanged => Whole /\ Fits
  /\ ~Unfinished /\ Whole => Requested
  /\ confirmed /\ PDone => POk \/ SlotOk
  /\ trial /\ ~harm.stale /\ ~Unfinished => Revertible \/ Replaced

---------------------------------------------------------------------------
(* The points of the functions: what is left of them *)

RevertItem == StatusUpdate(Trailer(Primary), "image_ok", "set", "revert")
ConfirmItem == StatusUpdate(Trailer(Primary), "image_ok", "set", "confirm")
KeepOk     == StatusUpdate(Trailer(Primary), "image_ok", "set", "-")
KeepMagic  == StatusUpdate(Trailer(Secondary), "magic", "set", "-")
EraseSlot  == Access("erase_slot", Secondary, "-", "-", "-")
FillSlot   == Access("fill_slot", Secondary, "-", "-", "-")
CopyItem   == Access("copy_trailer", Primary, "-", "-", "-")
DoneItem   == StatusUpdate(Trailer(Primary), "copy_done", "set", "-")
ExchangeItem == StatusUpdate(SwapRow, "status", "set", "exchange")
MagicItem  == StatusUpdate(Trailer(Primary), "magic", "set", "-")
SizeItem   == StatusUpdate(Trailer(Primary), "swap_size", "set", "-")
InfoItem(type) == StatusUpdate(Trailer(Primary), "swap_info", type, "-")
AskItem    == StatusUpdate(Trailer(Secondary), "magic", "set", "TEST")
AskPerm    == StatusUpdate(Trailer(Secondary), "image_ok", "set", "PERM")
AskInfo(type) == StatusUpdate(Trailer(Secondary), "swap_info", type, "-")

\* The end of every swap ...
Finish1 == <<DoneItem>>
Finish2 == <<CopyItem, DoneItem>>
Finish3 == <<EraseTrailer(Primary), CopyItem, DoneItem>>
Finish4 == <<EraseTrailer(Secondary), EraseTrailer(Primary), CopyItem, DoneItem>>
Finish5 == <<EraseStatus(Secondary), EraseTrailer(Secondary), EraseTrailer(Primary), CopyItem, DoneItem>>
Finish6 == <<ExchangeItem, EraseStatus(Secondary), EraseTrailer(Secondary), EraseTrailer(Primary),
             CopyItem, DoneItem>>
\* ... and its start.
Start1 == <<MagicItem>> \o Finish6
Start2 == <<SizeItem>> \o Start1
Start3 == <<KeepOk>> \o Start2
Start4(type, ok) == <<InfoItem(type)>> \o (IF ok THEN Start3 ELSE Start2)
Start5(type, ok) == <<EraseTrailer(Primary)>> \o Start4(type, ok)
Start6(type, ok) == <<EraseStatus(Primary)>> \o Start5(type, ok)

Remove1 == <<EraseTrailer(Secondary)>>
Remove2 == <<EraseStatus(Secondary), EraseTrailer(Secondary)>>

\* s is x, and then t.
Is(s, x, t) == s # <<>> /\ Head(s) = x /\ Tail(s) = t

\* What is left of reading the state of the secondary slot before t ...
ReadingSecondary(s, t) ==
  \/ s = t
  \/ Is(s, EraseTrailer(Secondary), t) /\ (SlotGood => SMagic)
  \/ s # <<>> /\ Head(s) = KeepMagic /\ SlotGood /\ Is(Tail(s), EraseTrailer(Secondary), t)

\* ... and of reading both.
Reading(t) ==
  \/ ReadingSecondary(todo, t)
  \/ todo # <<>> /\ Head(todo) = KeepOk /\ SlotOk /\ ReadingSecondary(Tail(todo), t)

\* What is known as long as no erase of an area was cut.
Known(F) == ~harm.area => F

\* The request agrees with the image_ok that the trailer gets.
FitsType(ok) == IF ok THEN ~harm.stale => asked # "TEST" ELSE asked # "PERM"
\* The trailer of the primary slot was erased for the new swap.
Fresh == ~PMagic /\ ~PDone /\ ~Exchanged /\ Whole /\ Request

Finishing ==
  \/ todo = Finish6 /\ Known(Unfinished /\ ~Exchanged)
  \/ todo = Finish5 /\ Known(Unfinished /\ Exchanged)
  \/ todo = Finish4 /\ Known(Unfinished /\ Exchanged /\ ~SMagic)
  \/ todo = Finish3 /\ Known(Unfinished /\ Exchanged /\ ~Request)
  \/ todo = Finish2 /\ Known(Unfinished /\ Exchanged /\ ~Request)
  \/ todo = Finish1 /\ Known(Unfinished /\ Exchanged /\ ~Request /\ (SlotOk <=> POk))

Starting ==
  \/ todo = Start1 /\ PInfo /\ PSize /\ Known(Fresh /\ Fits)
  \/ todo = Start2 /\ PInfo /\ Known(Fresh /\ Fits)
  \/ todo = Start3 /\ PInfo /\ Known(Fresh /\ FitsType(TRUE))
  \/ \E type \in {"TEST", "PERM"}, ok \in BOOLEAN :
       \/ todo = Start4(type, ok) /\ Known(Fresh /\ ~POk /\ FitsType(ok))
       \/ todo = Start5(type, ok) /\ Known(Fresh /\ ~POk /\ FitsType(ok))
       \/ Reading(Start6(type, ok)) /\ Known(~Unfinished /\ Whole /\ Request /\ FitsType(ok))

OtherBoot ==
  \/ todo = Remove1 /\ Known(~Unfinished /\ ~Whole)
  \/ Reading(Remove2) /\ Known(~Unfinished /\ ~Whole)
  \/ todo = <<RevertItem>> /\ Known(~Unfinished /\ asked = "none" /\ ~Request)
  \/ Reading(<<>>) /\ Known(~Unfinished /\ (trial /\ ~harm.stale => Revertible))

Calling ==
  \/ /\ \/ todo = <<EraseSlot, FillSlot, SlotWrite(Secondary, "magic", "TEST")>>
        \/ /\ \/ todo = <<FillSlot, SlotWrite(Secondary, "magic", "TEST")>>
              \/ todo = <<SlotWrite(Secondary, "magic", "TEST")>>
           /\ Known(~SlotGood /\ asked = "none")
     /\ Known(~harm.stale => ~SMagic)
  \/ todo = <<SlotWrite(Primary, "magic", "-"), SlotWrite(Primary, "image_ok", "confirm")>>
  \/ todo = <<SlotWrite(Primary, "image_ok", "confirm")>>
  \/ todo = <<AskItem, AskInfo("TEST")>> /\ Known(~SMagic)
  \/ todo = <<AskItem, AskPerm, AskInfo("PERM")>> /\ Known(~SMagic)
  \/ todo = <<AskPerm, AskInfo("PERM")>> /\ Known(SMagic)
  \/ \E type \in {"TEST", "PERM"} : todo = <<AskInfo(type)>>
  \/ Reading(<<EraseSlot>>)
  \/ todo = <<ConfirmItem>>
  \/ Reading(<<>>)

Stage ==
  \/ todo = <<>> /\ (mode \in {"boot", "app"} => Known(~Unfinished))
  \/ mode = "boot" /\ (Finishing \/ Starting \/ OtherBoot)
  \/ mode = "app" /\ Calling /\ Known(~Unfinished)

---------------------------------------------------------------------------
(* The inductive invariant *)

\* The rows of the partition are valid, erased or torn.
RowsInv ==
  \A r \in Records, i \in Copies :
    Valid(copies[r], i) \/ copies[r][i] \in {ErasedRow, TornRow}

\* The row that is being written is that of the access which runs.
WritingInv ==
  writing # NoRow =>
    /\ mode \in {"boot", "app"} /\ todo # <<>> /\ Head(todo).op = "status"
    /\ writing.record = Head(todo).at
    /\ writing.row.payload[Head(todo).cell] = Head(todo).value
    /\ \A a \in Areas : Trailer(a) = writing.record =>
         writing.row.payload = [ReadPayload(writing.record) EXCEPT ![Head(todo).cell] = Head(todo).value]

\* Every copy of the trailer of the primary slot has its magic last.
LastOk(payload) ==
  payload["magic"] # Erased => payload["swap_info"] # Erased /\ payload["swap_size"] # Erased
LastInv ==
  /\ \A i \in Copies : LastOk(copies[Trailer(Primary)][i].payload)
  /\ writing # NoRow /\ writing.record = Trailer(Primary) => LastOk(writing.row.payload)

\* A record that was never torn in its first write can be read.
ReadableInv ==
  harm.first = {} /\ ~harm.area => mode # "panic" /\ \A r \in Records : HasValid(r) \/ Blank(r)

\* The points of the functions and what is known there.
PointInv ==
  /\ ~slot[Secondary].image_ok
  /\ mode \in {"reset", "panic"} => todo = <<>>
  /\ Stage
  /\ Known(FlashInv)

HandoverInv == Inv /\ RowsInv /\ WritingInv /\ LastInv /\ ReadableInv /\ PointInv

---------------------------------------------------------------------------
(* What an access does to the marks *)

\* The marks after a step.
MarksAre(pm, pi, ps, pd, po, sm, so, ex) ==
  /\ (PMagic' <=> pm) /\ (PInfo' <=> pi) /\ (PSize' <=> ps) /\ (PDone' <=> pd) /\ (POk' <=> po)
  /\ (SMagic' <=> sm) /\ (SOk' <=> so) /\ (Exchanged' <=> ex)
MarksStay == MarksAre(PMagic, PInfo, PSize, PDone, POk, SMagic, SOk, Exchanged)

\* A trailer that cannot be read is not one of the first record: it reads as erased.
LEMMA FieldHeld ==
  \A a \in Areas : ReadPayload(Trailer(a)) = Held(copies[Trailer(a)])
<1> SUFFICES ASSUME NEW a \in Areas
             PROVE  ReadPayload(Trailer(a)) = Held(copies[Trailer(a)])
  OBVIOUS
<1>1. Trailer(a) \in Records /\ Trailer(a) # First
  BY Names, LayoutAssumption DEF Trailer, SwapRow
<1>2. (IF HasValid(Trailer(a)) THEN ReadPayload(Trailer(a)) ELSE ErasedPayload)
        = Held(copies[Trailer(a)])
  BY <1>1, HeldIsContent
<1>3. ~HasValid(Trailer(a)) => ReadPayload(Trailer(a)) = ErasedPayload
  BY <1>1 DEF ReadPayload
<1> QED BY <1>2, <1>3

LEMMA FieldHeldNext ==
  \A a \in Areas : ReadPayload(Trailer(a))' = Held(copies'[Trailer(a)])
<1>1. (\A a \in Areas : ReadPayload(Trailer(a)) = Held(copies[Trailer(a)]))'
  BY FieldHeld, PTL
<1> QED BY <1>1

\* The status byte is set in a valid row or not at all.
LEMMA ExchangedHeld ==
  RowsInv => (Exchanged <=> Held(copies[SwapRow])["status"] = "set")
<1> SUFFICES ASSUME RowsInv PROVE Exchanged <=> Held(copies[SwapRow])["status"] = "set"
  OBVIOUS
<1>1. (IF HasValid(SwapRow) THEN ReadPayload(SwapRow) ELSE ErasedPayload) = Held(copies[SwapRow])
  BY Names, HeldIsContent
<1>2. ErasedPayload["status"] # "set" /\ TornRow.payload["status"] # "set"
      /\ ErasedRow.payload = ErasedPayload
  BY Names, TrailerAssumption, LayoutAssumption DEF ErasedPayload, TornRow, ErasedRow
<1>3. ~HasValid(SwapRow) => ReadPayload(SwapRow)["status"] # "set"
  <2>1. ~HasValid(SwapRow) => copies[SwapRow][0] \in {ErasedRow, TornRow}
    BY Names, CopiesAre DEF RowsInv, HasValid
  <2>2. First = SwapRow
    BY LayoutAssumption
  <2> QED BY <1>2, <2>1, <2>2 DEF ReadPayload
<1> QED BY <1>1, <1>2, <1>3 DEF Exchanged

LEMMA ExchangedHeldNext ==
  RowsInv' => (Exchanged' <=> Held(copies'[SwapRow])["status"] = "set")
<1>1. (RowsInv => (Exchanged <=> Held(copies[SwapRow])["status"] = "set"))'
  BY ExchangedHeld, PTL
<1> QED BY <1>1

\* The marks, as what the records hold.
LEMMA MarksHeld ==
  ASSUME RowsInv
  PROVE  LET p == Held(copies[Trailer(Primary)])
             s == Held(copies[Trailer(Secondary)])
         IN  /\ PMagic <=> p["magic"] # Erased
             /\ PInfo <=> p["swap_info"] # Erased
             /\ PSize <=> p["swap_size"] # Erased
             /\ PDone <=> p["copy_done"] # Erased
             /\ POk <=> p["image_ok"] # Erased
             /\ SMagic <=> s["magic"] # Erased
             /\ SOk <=> s["image_ok"] # Erased
             /\ Exchanged <=> Held(copies[SwapRow])["status"] = "set"
  BY FieldHeld, ExchangedHeld, Names DEF PMagic, PInfo, PSize, PDone, POk, SMagic, SOk, Field

LEMMA MarksHeldNext ==
  ASSUME RowsInv'
  PROVE  LET p == Held(copies'[Trailer(Primary)])
             s == Held(copies'[Trailer(Secondary)])
         IN  /\ PMagic' <=> p["magic"] # Erased
             /\ PInfo' <=> p["swap_info"] # Erased
             /\ PSize' <=> p["swap_size"] # Erased
             /\ PDone' <=> p["copy_done"] # Erased
             /\ POk' <=> p["image_ok"] # Erased
             /\ SMagic' <=> s["magic"] # Erased
             /\ SOk' <=> s["image_ok"] # Erased
             /\ Exchanged' <=> Held(copies'[SwapRow])["status"] = "set"
  BY FieldHeldNext, ExchangedHeldNext, Names DEF PMagic, PInfo, PSize, PDone, POk, SMagic, SOk, Field

\* A step after which the records hold what they held.
LEMMA HeldMarksStay ==
  ASSUME RowsInv, RowsInv', \A r \in Records : Held(copies'[r]) = Held(copies[r])
  PROVE  MarksStay
<1>1. /\ Held(copies'[Trailer(Primary)]) = Held(copies[Trailer(Primary)])
      /\ Held(copies'[Trailer(Secondary)]) = Held(copies[Trailer(Secondary)])
      /\ Held(copies'[SwapRow]) = Held(copies[SwapRow])
  BY Names
<1> QED BY <1>1, MarksHeld, MarksHeldNext DEF MarksStay, MarksAre

---------------------------------------------------------------------------
(* The rows stay valid, erased or torn *)

LEMMA RowsStep ==
  ASSUME StatusInv, RowsInv, [StatusNext]_statusVars
  PROVE  RowsInv'
<1>0. copies \in [Records -> [Copies -> Rows]]
  BY DEF StatusInv, StatusTypeOK
<1>1. ASSUME NEW r \in Records, NEW cell \in Cells, NEW value \in Values, BeginUpdate(r, cell, value)
      PROVE  RowsInv'
  BY <1>0, <1>1 DEF BeginUpdate, RowsInv, Valid
<1>2. CASE EndUpdate
  <2>1. writing.row.magic /\ writing.row.crc
    BY <1>2 DEF EndUpdate, StatusInv, WritesObsoleteCopy
  <2> QED BY <1>0, <1>2, <2>1, PendingType DEF EndUpdate, RowsInv, Valid
<1>3. ASSUME NEW a \in Areas, EraseArea(a) PROVE RowsInv'
  BY <1>0, <1>3 DEF EraseArea, RowsInv, Valid
<1>4. CASE CutBetween
  BY <1>4 DEF CutBetween, RowsInv
<1>5. ASSUME NEW r \in Records, CutErase(r) PROVE RowsInv'
  <2>1. \A s \in Records, i \in Copies : copies'[s][i] \in {copies[s][i], ErasedRow, TornRow}
    BY <1>0, <1>5 DEF CutErase, ErasedInPart
  <2> QED BY <2>1 DEF RowsInv, Valid
<1>6. CASE CutWrite
  <2>1. \A s \in Records, i \in Copies : copies'[s][i] \in {copies[s][i], ErasedRow, TornRow}
    BY <1>0, <1>6, PendingType DEF CutWrite
  <2> QED BY <2>1 DEF RowsInv, Valid
<1>7. ASSUME NEW a \in Areas, CutArea(a) PROVE RowsInv'
  <2>1. PICK r \in Records, i \in Copies : \E row \in {ErasedRow, ErasedInPart(copies[r][i])} :
          CutAreaAt(r, i, row)
    BY <1>7 DEF CutArea
  <2>2. PICK row \in {ErasedRow, TornRow} : CutAreaAt(r, i, row)
    BY <2>1 DEF ErasedInPart
  <2>3. \A s \in Records, j \in Copies : copies'[s][j] \in {copies[s][j], ErasedRow, TornRow}
    BY <1>0, <2>2 DEF CutAreaAt
  <2> QED BY <2>3 DEF RowsInv, Valid
<1>8. CASE UNCHANGED statusVars
  BY <1>8 DEF statusVars, RowsInv
<1> QED BY <1>1, <1>2, <1>3, <1>4, <1>5, <1>6, <1>7, <1>8 DEF StatusNext

---------------------------------------------------------------------------
(* The accesses to the partition *)

\* An update that begins changes no mark, nor does a loss of power in it.
LEMMA BeginStays ==
  ASSUME StatusInv, RowsInv, RowsInv',
         NEW r \in Records, NEW cell \in Cells, NEW value \in Values, BeginUpdate(r, cell, value)
  PROVE  MarksStay /\ \A s \in Records : /\ HasValid(s)' <=> HasValid(s)
                                         /\ Held(copies'[s]) = Held(copies[s])
  BY BeginHolds, HeldMarksStay, ErasedIsRow DEF BeginUpdate, StatusInv

LEMMA CutStays ==
  ASSUME StatusInv, RowsInv, RowsInv',
         CutBetween \/ CutWrite \/ \E r \in Records : CutErase(r)
  PROVE  MarksStay /\ \A s \in Records : /\ HasValid(s)' <=> HasValid(s)
                                         /\ Held(copies'[s]) = Held(copies[s])
<1>1. \A s \in Records : (HasValid(s)' <=> HasValid(s)) /\ Held(copies'[s]) = Held(copies[s])
  <2>1. CASE CutBetween
    BY <2>1 DEF CutBetween, HasValid
  <2> QED BY <2>1, CutWriteHolds, CutEraseHolds
<1> QED BY <1>1, HeldMarksStay

\* What the end of an update makes of the records.
LEMMA EndHeld ==
  ASSUME StatusInv, RowsInv, WritingInv, EndUpdate, todo # <<>>
  PROVE  LET x == Head(todo)
         IN  /\ x.at \in Records
             /\ \A a \in Areas : x.at = Trailer(a) =>
                  Held(copies'[x.at]) = [Held(copies[x.at]) EXCEPT ![x.cell] = x.value]
             /\ Held(copies'[x.at])[x.cell] = x.value
             /\ \A s \in Records \ {x.at} : Held(copies'[s]) = Held(copies[s])
<1>1. writing # NoRow /\ writing.record = Head(todo).at /\ writing.record \in Records
  BY PendingType DEF EndUpdate, WritingInv
<1>2. Held(copies'[Head(todo).at]) = writing.row.payload
      /\ \A s \in Records \ {Head(todo).at} : copies'[s] = copies[s]
  BY <1>1, EndHolds
<1>3. writing.row.payload[Head(todo).cell] = Head(todo).value
  BY <1>1 DEF WritingInv
<1>4. ASSUME NEW a \in Areas, Head(todo).at = Trailer(a)
      PROVE  writing.row.payload = [Held(copies[Trailer(a)]) EXCEPT ![Head(todo).cell] = Head(todo).value]
  BY <1>1, <1>4, FieldHeld DEF WritingInv
<1> QED BY <1>1, <1>2, <1>3, <1>4

\* An update of the trailer of the primary slot sets one mark,
LEMMA PrimaryMark ==
  ASSUME StatusInv, RowsInv, RowsInv', WritingInv, EndUpdate, todo # <<>>,
         NEW cell \in Cells, Head(todo).cell = cell,
         Head(todo).at = Trailer(Primary), Head(todo).value # Erased
  PROVE  MarksAre(PMagic \/ cell = "magic", PInfo \/ cell = "swap_info", PSize \/ cell = "swap_size",
                  PDone \/ cell = "copy_done", POk \/ cell = "image_ok", SMagic, SOk, Exchanged)
<1> DEFINE p == Held(copies[Trailer(Primary)])
           q == Held(copies'[Trailer(Primary)])
<1>1. Trailer(Primary) # Trailer(Secondary) /\ Trailer(Primary) # SwapRow
  BY DEF Trailer, SwapRow, Primary, Secondary
<1>2. /\ q = [p EXCEPT ![cell] = Head(todo).value]
      /\ Held(copies'[Trailer(Secondary)]) = Held(copies[Trailer(Secondary)])
      /\ Held(copies'[SwapRow]) = Held(copies[SwapRow])
  BY <1>1, EndHeld, Names
<1>3. p \in [Cells -> Values]
  BY HeldType, Names DEF StatusInv, StatusTypeOK, Payloads
<1>4. \A c \in Cells : q[c] # Erased <=> p[c] # Erased \/ c = cell
  <2> HIDE DEF p, q
  <2> QED BY <1>2, <1>3
<1>5. /\ q["magic"] # Erased <=> p["magic"] # Erased \/ cell = "magic"
      /\ q["swap_info"] # Erased <=> p["swap_info"] # Erased \/ cell = "swap_info"
      /\ q["swap_size"] # Erased <=> p["swap_size"] # Erased \/ cell = "swap_size"
      /\ q["copy_done"] # Erased <=> p["copy_done"] # Erased \/ cell = "copy_done"
      /\ q["image_ok"] # Erased <=> p["image_ok"] # Erased \/ cell = "image_ok"
  BY <1>4, Names
<1> QED BY <1>2, <1>5, MarksHeld, MarksHeldNext DEF MarksAre

\* so does one of the trailer of the secondary slot,
LEMMA SecondaryMark ==
  ASSUME StatusInv, RowsInv, RowsInv', WritingInv, EndUpdate, todo # <<>>,
         NEW cell \in Cells, Head(todo).cell = cell,
         Head(todo).at = Trailer(Secondary), Head(todo).value # Erased
  PROVE  MarksAre(PMagic, PInfo, PSize, PDone, POk,
                  SMagic \/ cell = "magic", SOk \/ cell = "image_ok", Exchanged)
<1> DEFINE p == Held(copies[Trailer(Secondary)])
           q == Held(copies'[Trailer(Secondary)])
<1>1. Trailer(Primary) # Trailer(Secondary) /\ Trailer(Secondary) # SwapRow
  BY DEF Trailer, SwapRow, Primary, Secondary
<1>2. /\ q = [p EXCEPT ![cell] = Head(todo).value]
      /\ Held(copies'[Trailer(Primary)]) = Held(copies[Trailer(Primary)])
      /\ Held(copies'[SwapRow]) = Held(copies[SwapRow])
  BY <1>1, EndHeld, Names
<1>3. p \in [Cells -> Values]
  BY HeldType, Names DEF StatusInv, StatusTypeOK, Payloads
<1>4. \A c \in Cells : q[c] # Erased <=> p[c] # Erased \/ c = cell
  <2> HIDE DEF p, q
  <2> QED BY <1>2, <1>3
<1>5. /\ q["magic"] # Erased <=> p["magic"] # Erased \/ cell = "magic"
      /\ q["image_ok"] # Erased <=> p["image_ok"] # Erased \/ cell = "image_ok"
  BY <1>4, Names
<1> QED BY <1>2, <1>5, MarksHeld, MarksHeldNext DEF MarksAre

\* and the status byte says that the images were exchanged.
LEMMA ExchangeMark ==
  ASSUME StatusInv, RowsInv, RowsInv', WritingInv, EndUpdate, todo # <<>>,
         Head(todo).cell = "status", Head(todo).at = SwapRow, Head(todo).value = "set"
  PROVE  MarksAre(PMagic, PInfo, PSize, PDone, POk, SMagic, SOk, TRUE)
<1>1. Trailer(Primary) # SwapRow /\ Trailer(Secondary) # SwapRow
  BY DEF Trailer, SwapRow, Primary, Secondary
<1>2. /\ Held(copies'[SwapRow])["status"] = "set"
      /\ Held(copies'[Trailer(Primary)]) = Held(copies[Trailer(Primary)])
      /\ Held(copies'[Trailer(Secondary)]) = Held(copies[Trailer(Secondary)])
  BY <1>1, EndHeld, Names
<1> QED BY <1>2, MarksHeld, MarksHeldNext DEF MarksAre

\* The erase of an area removes the marks of its slot.
LEMMA EraseMarks ==
  ASSUME StatusInv, RowsInv, RowsInv', NEW a \in Areas, EraseArea(a)
  PROVE  /\ a = Primary => MarksAre(FALSE, FALSE, FALSE, FALSE, FALSE, SMagic, SOk, FALSE)
         /\ a = Secondary => MarksAre(PMagic, PInfo, PSize, PDone, POk, FALSE, FALSE, Exchanged)
         /\ \A s \in Records : copies'[s] = copies[s] \/ Blank(s)'
<1>1. \A s \in Records : AreaOf[s] = a => copies'[s] = [i \in Copies |-> ErasedRow]
  BY DEF EraseArea
<1>2. \A s \in Records : AreaOf[s] # a => copies'[s] = copies[s]
  BY DEF EraseArea
<1>3. Held([i \in Copies |-> ErasedRow]) = ErasedPayload
  BY ErasedIsRow DEF Held, Valid
<1>4. \A c \in Cells : ErasedPayload[c] = Erased
  BY DEF ErasedPayload
<1>5. Erased # "set"
  BY TrailerAssumption
<1>6. AreaOf[Trailer(Primary)] = Primary /\ AreaOf[Trailer(Secondary)] = Secondary
      /\ AreaOf[SwapRow] = Primary
  BY Names, LayoutAssumption
<1>7. a = Primary => MarksAre(FALSE, FALSE, FALSE, FALSE, FALSE, SMagic, SOk, FALSE)
  <2> SUFFICES ASSUME a = Primary
               PROVE  MarksAre(FALSE, FALSE, FALSE, FALSE, FALSE, SMagic, SOk, FALSE)
    OBVIOUS
  <2>1. /\ Held(copies'[Trailer(Primary)]) = ErasedPayload
        /\ Held(copies'[SwapRow]) = ErasedPayload
        /\ Held(copies'[Trailer(Secondary)]) = Held(copies[Trailer(Secondary)])
    BY <1>1, <1>2, <1>3, <1>6, Names
  <2> QED BY <1>4, <1>5, <2>1, Names, MarksHeld, MarksHeldNext DEF MarksAre
<1>8. a = Secondary => MarksAre(PMagic, PInfo, PSize, PDone, POk, FALSE, FALSE, Exchanged)
  <2> SUFFICES ASSUME a = Secondary
               PROVE  MarksAre(PMagic, PInfo, PSize, PDone, POk, FALSE, FALSE, Exchanged)
    OBVIOUS
  <2>1. /\ Held(copies'[Trailer(Secondary)]) = ErasedPayload
        /\ Held(copies'[SwapRow]) = Held(copies[SwapRow])
        /\ Held(copies'[Trailer(Primary)]) = Held(copies[Trailer(Primary)])
    BY <1>1, <1>2, <1>3, <1>6, Names
  <2> QED BY <1>4, <2>1, Names, MarksHeld, MarksHeldNext DEF MarksAre
<1>9. \A s \in Records : copies'[s] = copies[s] \/ Blank(s)'
  BY <1>1, <1>2, ErasedIsRow DEF Blank
<1> QED BY <1>7, <1>8, <1>9

---------------------------------------------------------------------------
(* The outcomes of an access *)

\* The update of a row began.
Same == MarksStay /\ UNCHANGED <<flash, todo, mode, history>>

\* The record could not be read: the function gave up.
Failed ==
  /\ MarksStay
  /\ UNCHANGED <<flash, history>>
  /\ todo' = <<>>
  /\ mode' = IF mode = "boot" THEN "panic" ELSE mode

\* The access was made; t is left.
Made(t) == todo' = t /\ mode' = mode

LEMMA StatusItem ==
  ASSUME Inv, RowsInv, RowsInv', WritingInv, Accesses,
         NEW x, todo # <<>>, Head(todo) = x, x.op = "status"
  PROVE  \/ Same \/ Failed
         \/ EndUpdate /\ Made(Tail(todo)) /\ slot' = slot /\ Completed(x.completes)
<1>1. StatusInv
  BY DEF Inv, TypeOK, StatusInv
<1>2. CASE UpdateBegins
  <2>1. Running("status") /\ BeginUpdate(x.at, x.cell, x.value)
    BY <1>1, <1>2 DEF UpdateBegins
  <2>2. x.at \in Records /\ x.cell \in Cells /\ x.value \in Values
    BY <1>1, <2>1, RunningTyped DEF Inv
  <2>3. MarksStay
    BY <1>1, <2>1, <2>2, BeginStays
  <2> QED BY <1>2, <2>3 DEF UpdateBegins, Same
<1>3. CASE UpdateEnds
  BY <1>1, <1>3 DEF UpdateEnds, Made
<1>4. CASE UpdateFails
  <2>1. MarksStay
    BY <1>4, HeldMarksStay DEF UpdateFails
  <2> QED BY <1>4, <2>1 DEF UpdateFails, Failed
<1>5. UpdateBegins \/ UpdateEnds \/ UpdateFails
  BY <1>1 DEF Accesses, AreaErased, SlotWritten, TrailerErased, TrailerCopied, SlotErased, SlotFilled,
              Running
<1> QED BY <1>2, <1>3, <1>4, <1>5

LEMMA PrimaryItem ==
  ASSUME Inv, RowsInv, RowsInv', WritingInv, Accesses,
         NEW cell \in Cells, NEW value, NEW c, NEW t, value # Erased,
         Is(todo, StatusUpdate(Trailer(Primary), cell, value, c), t)
  PROVE  \/ Same \/ Failed
         \/ /\ Made(t) /\ slot' = slot /\ Completed(c)
            /\ MarksAre(PMagic \/ cell = "magic", PInfo \/ cell = "swap_info",
                        PSize \/ cell = "swap_size", PDone \/ cell = "copy_done",
                        POk \/ cell = "image_ok", SMagic, SOk, Exchanged)
<1> DEFINE x == StatusUpdate(Trailer(Primary), cell, value, c)
<1>1. x.op = "status" /\ x.completes = c /\ x.cell = cell /\ x.value = value /\ x.at = Trailer(Primary)
  BY DEF StatusUpdate, Access
<1>2. todo # <<>> /\ Head(todo) = x /\ Tail(todo) = t /\ StatusInv
  BY DEF Is, Inv, TypeOK, StatusInv
<1> HIDE DEF x
<1>3. Same \/ Failed \/ (EndUpdate /\ Made(t) /\ slot' = slot /\ Completed(c))
  BY <1>1, <1>2, StatusItem
<1>4. EndUpdate =>
        MarksAre(PMagic \/ cell = "magic", PInfo \/ cell = "swap_info",
                 PSize \/ cell = "swap_size", PDone \/ cell = "copy_done",
                 POk \/ cell = "image_ok", SMagic, SOk, Exchanged)
  BY <1>1, <1>2, PrimaryMark
<1> QED BY <1>3, <1>4

LEMMA SecondaryItem ==
  ASSUME Inv, RowsInv, RowsInv', WritingInv, Accesses,
         NEW cell \in Cells, NEW value, NEW c, NEW t, value # Erased,
         Is(todo, StatusUpdate(Trailer(Secondary), cell, value, c), t)
  PROVE  \/ Same \/ Failed
         \/ /\ Made(t) /\ slot' = slot /\ Completed(c)
            /\ MarksAre(PMagic, PInfo, PSize, PDone, POk,
                        SMagic \/ cell = "magic", SOk \/ cell = "image_ok", Exchanged)
<1> DEFINE x == StatusUpdate(Trailer(Secondary), cell, value, c)
<1>1. x.op = "status" /\ x.completes = c /\ x.cell = cell /\ x.value = value /\ x.at = Trailer(Secondary)
  BY DEF StatusUpdate, Access
<1>2. todo # <<>> /\ Head(todo) = x /\ Tail(todo) = t /\ StatusInv
  BY DEF Is, Inv, TypeOK, StatusInv
<1> HIDE DEF x
<1>3. Same \/ Failed \/ (EndUpdate /\ Made(t) /\ slot' = slot /\ Completed(c))
  BY <1>1, <1>2, StatusItem
<1>4. EndUpdate =>
        MarksAre(PMagic, PInfo, PSize, PDone, POk,
                 SMagic \/ cell = "magic", SOk \/ cell = "image_ok", Exchanged)
  BY <1>1, <1>2, SecondaryMark
<1> QED BY <1>3, <1>4

LEMMA ExchangeStep ==
  ASSUME Inv, RowsInv, RowsInv', WritingInv, Accesses, NEW t, Is(todo, ExchangeItem, t)
  PROVE  \/ Same \/ Failed
         \/ /\ Made(t) /\ slot' = slot /\ Completed("exchange")
            /\ MarksAre(PMagic, PInfo, PSize, PDone, POk, SMagic, SOk, TRUE)
<1> DEFINE x == ExchangeItem
<1>1. x.op = "status" /\ x.completes = "exchange" /\ x.cell = "status" /\ x.value = "set" /\ x.at = SwapRow
  BY DEF ExchangeItem, StatusUpdate, Access
<1>2. todo # <<>> /\ Head(todo) = x /\ Tail(todo) = t /\ StatusInv
  BY DEF Is, Inv, TypeOK, StatusInv
<1> HIDE DEF x
<1>3. Same \/ Failed \/ (EndUpdate /\ Made(t) /\ slot' = slot /\ Completed("exchange"))
  BY <1>1, <1>2, StatusItem
<1>4. EndUpdate => MarksAre(PMagic, PInfo, PSize, PDone, POk, SMagic, SOk, TRUE)
  BY <1>1, <1>2, ExchangeMark
<1> QED BY <1>3, <1>4

LEMMA EraseStep ==
  ASSUME Inv, RowsInv, RowsInv', Accesses, NEW a \in Areas, NEW t, Is(todo, EraseStatus(a), t)
  PROVE  /\ Made(t) /\ UNCHANGED <<flash, history>>
         /\ a = Primary => MarksAre(FALSE, FALSE, FALSE, FALSE, FALSE, SMagic, SOk, FALSE)
         /\ a = Secondary => MarksAre(PMagic, PInfo, PSize, PDone, POk, FALSE, FALSE, Exchanged)
<1>1. StatusInv /\ Head(todo).op = "erase_area" /\ Head(todo).at = a /\ Tail(todo) = t
  BY DEF Is, Inv, TypeOK, StatusInv, EraseStatus, Access
<1>2. AreaErased
  BY <1>1 DEF Accesses, UpdateBegins, UpdateEnds, UpdateFails, SlotWritten, TrailerErased, TrailerCopied,
              SlotErased, SlotFilled, Running
<1>3. EraseArea(a) /\ Made(t) /\ UNCHANGED <<flash, history>>
  BY <1>1, <1>2 DEF AreaErased, Made
<1> QED BY <1>1, <1>3, EraseMarks

\* An access to a slot leaves the partition alone.
LEMMA SlotStep ==
  ASSUME Inv, RowsInv, RowsInv', Accesses, NEW x, NEW t, Is(todo, x, t),
         x.op \in {"slot", "erase_trailer", "copy_trailer", "erase_slot", "fill_slot"}
  PROVE  /\ Made(t) /\ MarksStay
         /\ \E trailer : SlotTrailer(trailer)
         /\ x.op = "slot" => SlotWritten
         /\ x.op = "erase_trailer" => TrailerErased
         /\ x.op = "copy_trailer" => TrailerCopied
         /\ x.op = "erase_slot" => SlotErased
         /\ x.op = "fill_slot" => SlotFilled
<1>1. Head(todo) = x /\ Tail(todo) = t
  BY DEF Is
<1>2. /\ x.op = "slot" => SlotWritten
      /\ x.op = "erase_trailer" => TrailerErased
      /\ x.op = "copy_trailer" => TrailerCopied
      /\ x.op = "erase_slot" => SlotErased
      /\ x.op = "fill_slot" => SlotFilled
  BY <1>1 DEF Accesses, UpdateBegins, UpdateEnds, UpdateFails, AreaErased, SlotWritten, TrailerErased,
              TrailerCopied, SlotErased, SlotFilled, Running
<1>3. \E trailer : SlotTrailer(trailer)
  BY <1>2 DEF SlotWritten, TrailerErased, TrailerCopied, SlotErased, SlotFilled
<1>4. copies' = copies /\ Made(t)
  BY <1>1, <1>3 DEF SlotTrailer, Made
<1>5. MarksStay
  BY <1>4, HeldMarksStay
<1> QED BY <1>2, <1>3, <1>4, <1>5

---------------------------------------------------------------------------
(* The points follow each other *)

LEMMA FirstOf ==
  ASSUME NEW x \in AnAccess, NEW t \in Seq(AnAccess)
  PROVE  Is(<<x>> \o t, x, t) /\ <<x>> \o t \in Seq(AnAccess)
  BY DEF Is

LEMMA ItemsTyped ==
  /\ {RevertItem, ConfirmItem, KeepOk, KeepMagic, EraseSlot, FillSlot, CopyItem, DoneItem, ExchangeItem,
      MagicItem, SizeItem, AskItem, AskPerm} \subseteq AnAccess
  /\ \A type \in {"TEST", "PERM"} : InfoItem(type) \in AnAccess /\ AskInfo(type) \in AnAccess
  /\ \A a \in Areas : EraseTrailer(a) \in AnAccess /\ EraseStatus(a) \in AnAccess
<1>1. {RevertItem, ConfirmItem, KeepOk, KeepMagic, DoneItem, ExchangeItem, MagicItem, SizeItem, AskItem,
       AskPerm} \subseteq AnAccess
  BY Names, UpdateTyped DEF RevertItem, ConfirmItem, KeepOk, KeepMagic, DoneItem, ExchangeItem, MagicItem,
     SizeItem, AskItem, AskPerm, Completions
<1>2. {EraseSlot, FillSlot, CopyItem} \subseteq AnAccess
  BY Names, SlotTyped DEF EraseSlot, FillSlot, CopyItem, Completions
<1>3. \A type \in {"TEST", "PERM"} : InfoItem(type) \in AnAccess /\ AskInfo(type) \in AnAccess
  BY Names, UpdateTyped DEF InfoItem, AskInfo, Completions
<1>4. \A a \in Areas : EraseTrailer(a) \in AnAccess /\ EraseStatus(a) \in AnAccess
  BY SlotTyped DEF EraseTrailer, EraseStatus, Completions
<1> QED BY <1>1, <1>2, <1>3, <1>4

LEMMA FinishPoints ==
  /\ Is(Finish6, ExchangeItem, Finish5)
  /\ Is(Finish5, EraseStatus(Secondary), Finish4)
  /\ Is(Finish4, EraseTrailer(Secondary), Finish3)
  /\ Is(Finish3, EraseTrailer(Primary), Finish2)
  /\ Is(Finish2, CopyItem, Finish1)
  /\ Is(Finish1, DoneItem, <<>>)
  /\ Finish6 \in Seq(AnAccess)
<1>1. /\ Is(Finish6, ExchangeItem, Finish5)
      /\ Is(Finish5, EraseStatus(Secondary), Finish4)
      /\ Is(Finish4, EraseTrailer(Secondary), Finish3)
      /\ Is(Finish3, EraseTrailer(Primary), Finish2)
      /\ Is(Finish2, CopyItem, Finish1)
      /\ Is(Finish1, DoneItem, <<>>)
  BY DEF Is, Finish6, Finish5, Finish4, Finish3, Finish2, Finish1
<1>2. Finish6 \in Seq(AnAccess)
  BY ItemsTyped, Names DEF Finish6
<1> QED BY <1>1, <1>2

LEMMA StartPoints ==
  ASSUME NEW type \in {"TEST", "PERM"}, NEW ok \in BOOLEAN
  PROVE  /\ Is(Start1, MagicItem, Finish6)
         /\ Is(Start2, SizeItem, Start1)
         /\ Is(Start3, KeepOk, Start2)
         /\ Is(Start4(type, ok), InfoItem(type), IF ok THEN Start3 ELSE Start2)
         /\ Is(Start5(type, ok), EraseTrailer(Primary), Start4(type, ok))
         /\ Is(Start6(type, ok), EraseStatus(Primary), Start5(type, ok))
         /\ Start6(type, ok) \in Seq(AnAccess)
<1>1. Is(Start1, MagicItem, Finish6) /\ Start1 \in Seq(AnAccess)
  BY ItemsTyped, FinishPoints, FirstOf DEF Start1
<1>2. Is(Start2, SizeItem, Start1) /\ Start2 \in Seq(AnAccess)
  BY <1>1, ItemsTyped, FirstOf DEF Start2
<1>3. Is(Start3, KeepOk, Start2) /\ Start3 \in Seq(AnAccess)
  BY <1>2, ItemsTyped, FirstOf DEF Start3
<1>4. Is(Start4(type, ok), InfoItem(type), IF ok THEN Start3 ELSE Start2)
      /\ Start4(type, ok) \in Seq(AnAccess)
  BY <1>2, <1>3, ItemsTyped, FirstOf DEF Start4
<1>5. Is(Start5(type, ok), EraseTrailer(Primary), Start4(type, ok)) /\ Start5(type, ok) \in Seq(AnAccess)
  BY <1>4, ItemsTyped, Names, FirstOf DEF Start5
<1>6. Is(Start6(type, ok), EraseStatus(Primary), Start5(type, ok)) /\ Start6(type, ok) \in Seq(AnAccess)
  BY <1>5, ItemsTyped, Names, FirstOf DEF Start6
<1> QED BY <1>1, <1>2, <1>3, <1>4, <1>5, <1>6

LEMMA OtherPoints ==
  /\ Is(Remove2, EraseStatus(Secondary), Remove1)
  /\ Is(Remove1, EraseTrailer(Secondary), <<>>)
  /\ \A x : Is(<<x>>, x, <<>>)
  /\ \A x, y : Is(<<x, y>>, x, <<y>>)
  /\ \A x, y, z : Is(<<x, y, z>>, x, <<y, z>>)
  BY DEF Is, Remove2, Remove1

---------------------------------------------------------------------------
(* A step that changes no mark *)

LEMMA MarksKnown ==
  ASSUME MarksStay
  PROVE  /\ (PMagic' <=> PMagic) /\ (PInfo' <=> PInfo) /\ (PSize' <=> PSize) /\ (PDone' <=> PDone)
         /\ (POk' <=> POk) /\ (SMagic' <=> SMagic) /\ (SOk' <=> SOk) /\ (Exchanged' <=> Exchanged)
         /\ (Unfinished' <=> Unfinished)
  BY DEF MarksStay, MarksAre, Unfinished

\* If the slots, the images and the history stay as well, so does what the
\* flash says.
LEMMA FlashStays ==
  ASSUME MarksStay, UNCHANGED <<flash, history>>
  PROVE  /\ (SlotGood' <=> SlotGood) /\ (SlotOk' <=> SlotOk) /\ (Whole' <=> Whole)
         /\ (Request' <=> Request) /\ (Fits' <=> Fits) /\ (Requested' <=> Requested)
         /\ (Revertible' <=> Revertible) /\ (Fresh' <=> Fresh)
         /\ \A ok : FitsType(ok)' <=> FitsType(ok)
<1>1. /\ (SlotGood' <=> SlotGood) /\ (SlotOk' <=> SlotOk) /\ (Whole' <=> Whole)
      /\ asked' = asked /\ harm' = harm
  BY DEF flash, history, SlotGood, SlotOk, Whole
<1>2. Request' <=> Request
  BY <1>1, MarksKnown DEF Request
<1>3. (Fits' <=> Fits) /\ (Requested' <=> Requested)
  BY <1>1, <1>2, MarksKnown DEF Fits, Requested
<1>4. (Revertible' <=> Revertible) /\ (Fresh' <=> Fresh)
  BY <1>1, <1>2, MarksKnown DEF Revertible, Fresh
<1>5. \A ok : FitsType(ok)' <=> FitsType(ok)
  BY <1>1 DEF FitsType
<1> QED BY <1>1, <1>2, <1>3, <1>4, <1>5

LEMMA FlashInvStays ==
  ASSUME FlashInv, MarksStay, UNCHANGED <<flash, history>>,
         Replaced => mode' # "app" /\ ~(mode' = "boot" /\ todo' = <<>>)
  PROVE  FlashInv'
<1>1. asked' = asked /\ harm' = harm /\ trial' = trial /\ confirmed' = confirmed
  BY DEF history
<1>2. Replaced => Replaced'
  BY FlashStays DEF Replaced
<1> QED BY <1>1, <1>2, FlashStays, MarksKnown DEF FlashInv

LEMMA SameKeeps ==
  ASSUME PointInv, Same
  PROVE  PointInv'
<1>1. MarksStay /\ UNCHANGED <<flash, history>> /\ todo' = todo /\ mode' = mode
      /\ slot' = slot /\ asked' = asked /\ harm' = harm /\ trial' = trial
  BY DEF Same, flash, history
<1>2. Known(FlashInv)'
  BY <1>1, FlashInvStays DEF Known, PointInv, Replaced
<1> DEFINE marks ==
  /\ (PMagic' <=> PMagic) /\ (PInfo' <=> PInfo) /\ (PSize' <=> PSize) /\ (PDone' <=> PDone)
  /\ (POk' <=> POk) /\ (SMagic' <=> SMagic) /\ (SOk' <=> SOk) /\ (Exchanged' <=> Exchanged)
  /\ (Unfinished' <=> Unfinished)
  /\ (SlotGood' <=> SlotGood) /\ (SlotOk' <=> SlotOk) /\ (Whole' <=> Whole)
  /\ (Request' <=> Request) /\ (Fits' <=> Fits)
  /\ (Revertible' <=> Revertible) /\ (Fresh' <=> Fresh)
  /\ \A ok : FitsType(ok)' <=> FitsType(ok)
<1>3. marks
  BY <1>1, MarksKnown, FlashStays
<1>4. Finishing => Finishing'
  BY <1>1, <1>3 DEF Finishing, Known
<1>5. \A t : Reading(t) => Reading(t)'
  BY <1>1, <1>3 DEF Reading, ReadingSecondary
<1>6. Starting => Starting'
  BY <1>1, <1>3, <1>5 DEF Starting, Known
<1>7. OtherBoot => OtherBoot'
  BY <1>1, <1>3, <1>5 DEF OtherBoot, Known
<1>8. Calling => Calling'
  BY <1>1, <1>3, <1>5 DEF Calling, Known
<1>9. Stage'
  BY <1>1, <1>3, <1>4, <1>6, <1>7, <1>8 DEF Stage, Known, PointInv
<1> QED BY <1>1, <1>2, <1>9 DEF PointInv

\* A function that gives up leaves nothing to do: in the application no swap is
\* unfinished, and the loader stops.
LEMMA FailedKeeps ==
  ASSUME PointInv, Failed, mode \in {"boot", "app"}, todo # <<>>
  PROVE  PointInv'
<1>1. MarksStay /\ UNCHANGED <<flash, history>> /\ todo' = <<>> /\ slot' = slot /\ harm' = harm
      /\ mode' = IF mode = "boot" THEN "panic" ELSE mode
  BY DEF Failed, flash, history
<1>2. Known(FlashInv)'
  BY <1>1, FlashInvStays DEF Known, PointInv, Replaced
<1>3. mode' = "app" => Known(~Unfinished)'
  BY <1>1, MarksKnown DEF PointInv, Stage, Known
<1>4. Stage'
  BY <1>1, <1>3 DEF Stage, Known
<1> QED BY <1>1, <1>2, <1>4 DEF PointInv

---------------------------------------------------------------------------
(* The accesses of the loader *)

\* What an access needs to know.
AtAccess == Inv /\ RowsInv /\ RowsInv' /\ WritingInv /\ PointInv /\ Accesses

\* The next point of the loader, and what the flash says there.
LEMMA LoaderPoint ==
  ASSUME mode' = "boot", ~slot'[Secondary].image_ok,
         Finishing' \/ Starting' \/ OtherBoot', Known(FlashInv)'
  PROVE  PointInv'
  BY DEF PointInv, Stage

\* The end of the function.
LEMMA EndPoint ==
  ASSUME todo' = <<>>, ~slot'[Secondary].image_ok, Known(~Unfinished)', Known(FlashInv)'
  PROVE  PointInv'
<1>1. Stage'
  BY DEF Stage
<1> QED BY <1>1 DEF PointInv

LEMMA SlotsAre ==
  ASSUME Inv, NEW a \in Areas, NEW trailer, SlotTrailer(trailer), Head(todo).at = a
  PROVE  slot'[a] = trailer /\ \A b \in Areas \ {a} : slot'[b] = slot[b]
  BY DEF SlotTrailer, Inv, TypeOK

LEMMA FinishKeeps ==
  ASSUME AtAccess, mode = "boot", Finishing
  PROVE  PointInv'
<1> USE DEF AtAccess
<1>0. FlashInv \/ harm.area
  BY DEF PointInv, Known
<1>1. CASE todo = Finish6 /\ Known(Unfinished /\ ~Exchanged)
  <2>1. \/ Same \/ Failed
        \/ /\ Made(Finish5) /\ slot' = slot /\ Completed("exchange")
           /\ MarksAre(PMagic, PInfo, PSize, PDone, POk, SMagic, SOk, TRUE)
    BY <1>1, FinishPoints, ExchangeStep
  <2>2. CASE /\ Made(Finish5) /\ slot' = slot /\ Completed("exchange")
             /\ MarksAre(PMagic, PInfo, PSize, PDone, POk, SMagic, SOk, TRUE)
    <3>1. todo' = Finish5 /\ mode' = "boot" /\ slot' = slot /\ harm' = harm /\ asked' = "none"
          /\ trial' = (asked = "TEST") /\ confirmed' = (asked = "PERM")
      BY <2>2 DEF Made, Completed
    <3>2. Known(Unfinished /\ Exchanged)'
      BY <1>1, <2>2, <3>1 DEF Known, MarksAre, Unfinished
    <3>3. Known(FlashInv)'
      BY <1>0, <1>1, <2>2, <3>1 DEF Known, FlashInv, MarksAre, Unfinished, Fits
    <3> QED BY <3>1, <3>2, <3>3, LoaderPoint DEF Finishing, PointInv
  <2> QED BY <1>1, <2>1, <2>2, SameKeeps, FailedKeeps, FinishPoints DEF Is
<1>2. CASE todo = Finish5 /\ Known(Unfinished /\ Exchanged)
  <2>1. /\ Made(Finish4) /\ UNCHANGED <<flash, history>>
        /\ MarksAre(PMagic, PInfo, PSize, PDone, POk, FALSE, FALSE, Exchanged)
    BY <1>2, FinishPoints, EraseStep, Names
  <2>2. todo' = Finish4 /\ mode' = "boot" /\ slot' = slot /\ harm' = harm /\ asked' = asked
        /\ trial' = trial /\ confirmed' = confirmed /\ (SlotOk' <=> SlotOk)
    BY <2>1 DEF Made, flash, history, SlotOk
  <2>3. Known(Unfinished /\ Exchanged /\ ~SMagic)'
    BY <1>2, <2>1, <2>2 DEF Known, MarksAre, Unfinished
  <2>4. Known(FlashInv)'
    BY <1>0, <1>2, <2>1, <2>2 DEF Known, FlashInv, MarksAre, Unfinished
  <2> QED BY <2>2, <2>3, <2>4, LoaderPoint DEF Finishing, PointInv
<1>3. CASE todo = Finish4 /\ Known(Unfinished /\ Exchanged /\ ~SMagic)
  <2>1. Is(todo, EraseTrailer(Secondary), Finish3)
        /\ EraseTrailer(Secondary).op = "erase_trailer" /\ EraseTrailer(Secondary).at = Secondary
    BY <1>3, FinishPoints DEF EraseTrailer, Access
  <2>2. Made(Finish3) /\ MarksStay /\ TrailerErased
    BY <2>1, SlotStep
  <2>3. slot'[Secondary] = ErasedSlot /\ slot'[Primary] = slot[Primary]
    BY <2>1, <2>2, SlotsAre, Names DEF TrailerErased, Is
  <2>4. todo' = Finish3 /\ mode' = "boot" /\ harm' = harm /\ asked' = asked
        /\ trial' = trial /\ confirmed' = confirmed /\ (SlotOk' <=> SlotOk) /\ ~SlotGood'
        /\ ~slot'[Secondary].image_ok
    BY <2>2, <2>3 DEF Made, history, TrailerErased, SlotOk, SlotGood, ErasedSlot
  <2>5. Known(Unfinished /\ Exchanged /\ ~Request)'
    BY <1>3, <2>2, <2>4, MarksKnown DEF Known, Request
  <2>6. Known(FlashInv)'
    BY <1>0, <1>3, <2>2, <2>4, MarksKnown DEF Known, FlashInv
  <2> QED BY <2>4, <2>5, <2>6, LoaderPoint DEF Finishing
<1>4. CASE todo = Finish3 /\ Known(Unfinished /\ Exchanged /\ ~Request)
  <2>1. Is(todo, EraseTrailer(Primary), Finish2)
        /\ EraseTrailer(Primary).op = "erase_trailer" /\ EraseTrailer(Primary).at = Primary
    BY <1>4, FinishPoints DEF EraseTrailer, Access
  <2>2. Made(Finish2) /\ MarksStay /\ TrailerErased
    BY <2>1, SlotStep
  <2>3. slot'[Secondary] = slot[Secondary]
    BY <2>1, <2>2, SlotsAre, Names DEF TrailerErased, Is
  <2>4. todo' = Finish2 /\ mode' = "boot" /\ harm' = harm /\ asked' = asked
        /\ trial' = trial /\ confirmed' = confirmed /\ (SlotGood' <=> SlotGood)
    BY <2>2, <2>3 DEF Made, history, TrailerErased, SlotGood
  <2>5. Known(Unfinished /\ Exchanged /\ ~Request)'
    BY <1>4, <2>2, <2>4, MarksKnown DEF Known, Request
  <2>6. Known(FlashInv)'
    BY <1>0, <1>4, <2>2, <2>4, MarksKnown DEF Known, FlashInv, Unfinished
  <2> QED BY <2>3, <2>4, <2>5, <2>6, LoaderPoint DEF Finishing, PointInv
<1>5. CASE todo = Finish2 /\ Known(Unfinished /\ Exchanged /\ ~Request)
  <2>1. Is(todo, CopyItem, Finish1) /\ CopyItem.op = "copy_trailer" /\ CopyItem.at = Primary
    BY <1>5, FinishPoints DEF CopyItem, Access
  <2>2. Made(Finish1) /\ MarksStay /\ TrailerCopied
    BY <2>1, SlotStep
  <2>3. slot'[Secondary] = slot[Secondary]
        /\ slot'[Primary] = [magic |-> "good", image_ok |-> Field(Primary, "image_ok") # Erased]
    BY <2>1, <2>2, SlotsAre, Names DEF TrailerCopied, Is
  <2>4. todo' = Finish1 /\ mode' = "boot" /\ harm' = harm /\ asked' = asked
        /\ trial' = trial /\ confirmed' = confirmed /\ (SlotGood' <=> SlotGood)
    BY <2>2, <2>3 DEF Made, history, TrailerCopied, SlotGood
  <2>5. SlotOk' <=> POk'
    <3>1. slot'[Primary].image_ok = POk
      BY <2>3 DEF POk
    <3>2. SlotOk' <=> POk
      BY <3>1, Zenon DEF SlotOk
    <3> QED BY <2>2, <3>2, MarksKnown
  <2>6. Known(Unfinished /\ Exchanged /\ ~Request /\ (SlotOk <=> POk))'
    BY <1>5, <2>2, <2>4, <2>5, MarksKnown DEF Known, Request
  <2>7. Known(FlashInv)'
    BY <1>0, <1>5, <2>2, <2>4, MarksKnown DEF Known, FlashInv, Unfinished
  <2> QED BY <2>3, <2>4, <2>6, <2>7, LoaderPoint DEF Finishing, PointInv
<1>6. CASE todo = Finish1 /\ Known(Unfinished /\ Exchanged /\ ~Request /\ (SlotOk <=> POk))
  <2>1. \/ Same \/ Failed
        \/ /\ Made(<<>>) /\ slot' = slot /\ Completed("-")
           /\ MarksAre(PMagic, PInfo, PSize, TRUE, POk, SMagic, SOk, Exchanged)
    <3>1. \/ Same \/ Failed
          \/ /\ Made(<<>>) /\ slot' = slot /\ Completed("-")
             /\ MarksAre(PMagic \/ "copy_done" = "magic", PInfo \/ "copy_done" = "swap_info",
                         PSize \/ "copy_done" = "swap_size", PDone \/ "copy_done" = "copy_done",
                         POk \/ "copy_done" = "image_ok", SMagic, SOk, Exchanged)
      BY <1>6, FinishPoints, PrimaryItem, Names, TrailerAssumption DEF DoneItem
    <3> QED BY <3>1 DEF MarksAre
  <2>2. CASE /\ Made(<<>>) /\ slot' = slot /\ Completed("-")
             /\ MarksAre(PMagic, PInfo, PSize, TRUE, POk, SMagic, SOk, Exchanged)
    <3>1. todo' = <<>> /\ mode' = "boot" /\ slot' = slot /\ harm' = harm /\ asked' = asked
          /\ trial' = trial /\ confirmed' = confirmed /\ (SlotOk' <=> SlotOk) /\ (SlotGood' <=> SlotGood)
      BY <2>2 DEF Made, Completed, SlotOk, SlotGood
    <3>2. ~Unfinished' /\ PDone' /\ (POk' <=> POk) /\ (SOk' <=> SOk) /\ (SMagic' <=> SMagic)
          /\ (PMagic' <=> PMagic)
      BY <2>2 DEF MarksAre, Unfinished
    <3>3. Known(FlashInv)'
      <4>1. CASE harm.area
        BY <3>1, <4>1 DEF Known
      <4>2. CASE ~harm.area
        <5>1. FlashInv /\ Unfinished /\ Exchanged /\ ~Request /\ (SlotOk <=> POk)
          BY <1>0, <1>6, <4>2 DEF Known
        <5>2. asked' = "none" /\ (confirmed => POk) /\ (trial /\ ~harm.stale => ~POk) /\ PMagic
              /\ (SOk => SMagic)
          BY <3>1, <5>1 DEF FlashInv, Unfinished
        <5>3. ~Request'
          BY <3>1, <3>2, <5>1 DEF Request
        <5>4. Requested'
          BY <5>2, <5>3 DEF Requested
        <5>5. trial' /\ ~harm'.stale => Revertible'
          BY <3>1, <3>2, <5>1, <5>2 DEF Revertible
        <5> QED BY <3>1, <3>2, <5>1, <5>2, <5>4, <5>5 DEF FlashInv, Known
      <4> QED BY <4>1, <4>2
    <3> QED BY <3>1, <3>2, <3>3, EndPoint DEF Known, PointInv
  <2> QED BY <1>6, <2>1, <2>2, SameKeeps, FailedKeeps, FinishPoints DEF Is
<1> QED BY <1>1, <1>2, <1>3, <1>4, <1>5, <1>6 DEF Finishing

\* Reading the state of the slots moves marks, and changes nothing that counts.
ReadsOn(t) ==
  /\ Reading(t)' /\ mode' = mode /\ UNCHANGED <<image, history>> /\ ~slot'[Secondary].image_ok
  /\ (PMagic' <=> PMagic) /\ (PInfo' <=> PInfo) /\ (PSize' <=> PSize) /\ (PDone' <=> PDone)
  /\ (Exchanged' <=> Exchanged) /\ (SOk' <=> SOk) /\ (SlotOk' <=> SlotOk)
  /\ (Request' <=> Request) /\ (SMagic => SMagic')
  /\ (POk => POk') /\ (POk' => POk \/ SlotOk)

LEMMA KeepOkStep ==
  ASSUME AtAccess, NEW t, Is(todo, KeepOk, t)
  PROVE  \/ Same \/ Failed
         \/ /\ Made(t) /\ UNCHANGED <<flash, history>>
            /\ MarksAre(PMagic, PInfo, PSize, PDone, TRUE, SMagic, SOk, Exchanged)
<1>1. \/ Same \/ Failed
      \/ /\ Made(t) /\ slot' = slot /\ Completed("-")
         /\ MarksAre(PMagic \/ "image_ok" = "magic", PInfo \/ "image_ok" = "swap_info",
                     PSize \/ "image_ok" = "swap_size", PDone \/ "image_ok" = "copy_done",
                     POk \/ "image_ok" = "image_ok", SMagic, SOk, Exchanged)
  BY PrimaryItem, Names, TrailerAssumption DEF KeepOk, AtAccess
<1>2. Completed("-") => image' = image /\ UNCHANGED history
  BY DEF Completed, history
<1> QED BY <1>1, <1>2 DEF MarksAre, flash

LEMMA ReadingKeeps ==
  ASSUME AtAccess, NEW t, Reading(t), todo # t
  PROVE  Same \/ Failed \/ ReadsOn(t)
<1> USE DEF AtAccess
<1>1. CASE Is(todo, EraseTrailer(Secondary), t) /\ (SlotGood => SMagic)
  <2>1. EraseTrailer(Secondary).op = "erase_trailer" /\ EraseTrailer(Secondary).at = Secondary
    BY DEF EraseTrailer, Access
  <2>2. Made(t) /\ MarksStay /\ TrailerErased
    BY <1>1, <2>1, SlotStep
  <2>3. slot'[Secondary] = ErasedSlot /\ slot'[Primary] = slot[Primary]
    BY <1>1, <2>1, <2>2, SlotsAre, Names DEF TrailerErased, Is
  <2>4. todo' = t /\ mode' = mode /\ UNCHANGED <<image, history>> /\ (SlotOk' <=> SlotOk) /\ ~SlotGood'
        /\ ~slot'[Secondary].image_ok
    BY <2>2, <2>3 DEF Made, TrailerErased, SlotOk, SlotGood, ErasedSlot
  <2>5. Reading(t)'
    BY <2>4 DEF Reading, ReadingSecondary
  <2>6. Request' <=> Request
    BY <1>1, <2>2, <2>4, MarksKnown DEF Request
  <2> QED BY <2>2, <2>4, <2>5, <2>6, MarksKnown DEF ReadsOn
<1>2. CASE /\ todo # <<>> /\ Head(todo) = KeepMagic /\ SlotGood
           /\ Is(Tail(todo), EraseTrailer(Secondary), t)
  <2> DEFINE r == Tail(todo)
  <2>1. \/ Same \/ Failed
        \/ /\ Made(r) /\ slot' = slot /\ Completed("-")
           /\ MarksAre(PMagic, PInfo, PSize, PDone, POk, SMagic \/ "magic" = "magic",
                       SOk \/ "magic" = "image_ok", Exchanged)
    <3>1. KeepMagic.op = "status" /\ KeepMagic.completes = "-" /\ KeepMagic.cell = "magic"
          /\ KeepMagic.value = "set" /\ KeepMagic.at = Trailer(Secondary)
      BY DEF KeepMagic, StatusUpdate, Access
    <3>2. Same \/ Failed \/ (EndUpdate /\ Made(r) /\ slot' = slot /\ Completed("-"))
      BY <1>2, <3>1, StatusItem
    <3>3. StatusInv /\ "set" # Erased
      BY TrailerAssumption DEF Inv, TypeOK, StatusInv
    <3> QED BY <1>2, <3>1, <3>2, <3>3, SecondaryMark, Names
  <2>2. CASE /\ Made(r) /\ slot' = slot /\ Completed("-")
             /\ MarksAre(PMagic, PInfo, PSize, PDone, POk, SMagic \/ "magic" = "magic",
                         SOk \/ "magic" = "image_ok", Exchanged)
    <3>1. todo' = r /\ mode' = mode /\ slot' = slot /\ UNCHANGED <<image, history>>
          /\ (SlotOk' <=> SlotOk) /\ (SlotGood' <=> SlotGood) /\ ~slot'[Secondary].image_ok
      BY <2>2 DEF Made, Completed, history, SlotOk, SlotGood, PointInv
    <3>2. (PMagic' <=> PMagic) /\ (PInfo' <=> PInfo) /\ (PSize' <=> PSize) /\ (PDone' <=> PDone)
          /\ (POk' <=> POk) /\ SMagic' /\ (SOk' <=> SOk) /\ (Exchanged' <=> Exchanged)
      BY <2>2 DEF MarksAre
    <3>3. Reading(t)'
      BY <1>2, <3>1, <3>2 DEF Reading, ReadingSecondary
    <3>4. Request' <=> Request
      BY <1>2, <3>2 DEF Request
    <3> QED BY <3>1, <3>2, <3>3, <3>4 DEF ReadsOn
  <2> QED BY <2>1, <2>2
<1>3. CASE todo # <<>> /\ Head(todo) = KeepOk /\ SlotOk /\ ReadingSecondary(Tail(todo), t)
  <2> DEFINE r == Tail(todo)
  <2>1. /\ KeepOk.op = "status" /\ KeepOk.completes = "-" /\ KeepOk.cell = "image_ok"
        /\ KeepOk.value = "set" /\ KeepOk.at = Trailer(Primary)
        /\ StatusInv /\ "set" # Erased
    BY TrailerAssumption DEF KeepOk, StatusUpdate, Access, Inv, TypeOK, StatusInv
  <2>2. Same \/ Failed \/ (EndUpdate /\ Made(r) /\ slot' = slot /\ Completed("-"))
    BY <1>3, <2>1, StatusItem
  <2>3. CASE EndUpdate /\ Made(r) /\ slot' = slot /\ Completed("-")
    <3>1. /\ todo' = r /\ mode' = mode /\ slot' = slot /\ UNCHANGED <<image, history>>
          /\ (SlotOk' <=> SlotOk) /\ (SlotGood' <=> SlotGood) /\ ~slot'[Secondary].image_ok
      BY <2>3 DEF Made, Completed, history, SlotOk, SlotGood, PointInv
    <3>2. MarksAre(PMagic \/ "image_ok" = "magic", PInfo \/ "image_ok" = "swap_info",
                   PSize \/ "image_ok" = "swap_size", PDone \/ "image_ok" = "copy_done",
                   POk \/ "image_ok" = "image_ok", SMagic, SOk, Exchanged)
      BY <1>3, <2>1, <2>3, PrimaryMark, Names
    <3>3. (PMagic' <=> PMagic) /\ (PInfo' <=> PInfo) /\ (PSize' <=> PSize) /\ (PDone' <=> PDone)
          /\ POk' /\ (SMagic' <=> SMagic) /\ (SOk' <=> SOk) /\ (Exchanged' <=> Exchanged)
      BY <3>2 DEF MarksAre
    <3>4. Reading(t)'
      BY <1>3, <3>1, <3>3 DEF Reading, ReadingSecondary
    <3>5. Request' <=> Request
      BY <3>1, <3>3 DEF Request
    <3> QED BY <1>3, <3>1, <3>3, <3>4, <3>5 DEF ReadsOn
  <2> QED BY <2>2, <2>3
<1> QED BY <1>1, <1>2, <1>3 DEF Reading, ReadingSecondary

\* What the flash says stays true, unless the function ends with a newer image
\* that waits.
LEMMA ReadsOnKeeps ==
  ASSUME FlashInv, NEW t, ReadsOn(t), ~Unfinished,
         mode = "app" \/ todo' # <<>> \/ (trial /\ ~harm.stale => Revertible)
  PROVE  FlashInv' /\ ~Unfinished'
<1>1. asked' = asked /\ harm' = harm /\ trial' = trial /\ confirmed' = confirmed /\ mode' = mode
      /\ (Whole' <=> Whole) /\ ~Unfinished'
  BY DEF ReadsOn, history, Whole, Unfinished
<1>2. Requested => Requested'
  BY <1>1 DEF Requested, ReadsOn
<1>3. Revertible => Revertible'
  BY DEF Revertible, ReadsOn
<1>4. Replaced /\ todo' # <<>> => Replaced'
  BY <1>1 DEF Replaced, ReadsOn
<1>5. Replaced => mode # "app"
  BY DEF Replaced
<1>6. (PDone' => PMagic') /\ (SOk' => SMagic') /\ (PDone' <=> PDone) /\ (POk => POk') /\ (SlotOk' <=> SlotOk)
  BY DEF ReadsOn, FlashInv
<1> QED BY <1>1, <1>2, <1>3, <1>4, <1>5, <1>6 DEF FlashInv

\* While a swap starts, the newer image is there and asked for.
LEMMA FreshKeeps ==
  ASSUME Fresh, FlashInv, mode = "boot", mode' = "boot", todo' # <<>>,
         UNCHANGED <<image, history>>, Request' <=> Request, SOk' <=> SOk, SMagic' <=> SMagic,
         ~PMagic', ~PDone', ~Exchanged'
  PROVE  FlashInv' /\ Fresh' /\ Requested
<1>1. asked' = asked /\ harm' = harm /\ trial' = trial /\ confirmed' = confirmed /\ (Whole' <=> Whole)
  BY DEF history, Whole
<1>2. Fresh'
  BY <1>1 DEF Fresh
<1>3. Requested
  BY DEF FlashInv, Fresh, Unfinished
<1>4. Requested'
  BY <1>1, <1>3 DEF Requested
<1>5. Replaced'
  BY <1>1 DEF Replaced, Fresh
<1> QED BY <1>1, <1>2, <1>3, <1>4, <1>5 DEF FlashInv, Fresh, Unfinished

LEMMA StartKeeps ==
  ASSUME AtAccess, mode = "boot", Starting
  PROVE  PointInv'
<1> USE DEF AtAccess
<1>0. (FlashInv \/ harm.area) /\ ~slot[Secondary].image_ok
  BY DEF PointInv, Known
<1>1. CASE todo = Start1 /\ PInfo /\ PSize /\ Known(Fresh /\ Fits)
  <2>1. \/ Same \/ Failed
        \/ /\ Made(Finish6) /\ slot' = slot /\ Completed("-")
           /\ MarksAre(PMagic \/ "magic" = "magic", PInfo \/ "magic" = "swap_info",
                       PSize \/ "magic" = "swap_size", PDone \/ "magic" = "copy_done",
                       POk \/ "magic" = "image_ok", SMagic, SOk, Exchanged)
    BY <1>1, StartPoints, PrimaryItem, Names, TrailerAssumption DEF MagicItem
  <2>2. CASE /\ Made(Finish6) /\ slot' = slot /\ Completed("-")
             /\ MarksAre(PMagic \/ "magic" = "magic", PInfo \/ "magic" = "swap_info",
                         PSize \/ "magic" = "swap_size", PDone \/ "magic" = "copy_done",
                         POk \/ "magic" = "image_ok", SMagic, SOk, Exchanged)
    <3>1. todo' = Finish6 /\ mode' = "boot" /\ slot' = slot /\ harm' = harm /\ asked' = asked
          /\ trial' = trial /\ confirmed' = confirmed /\ (Whole' <=> Whole)
      BY <2>2 DEF Made, Completed, Whole
    <3>2. PMagic' /\ (PDone' <=> PDone) /\ (POk' <=> POk) /\ (SMagic' <=> SMagic) /\ (SOk' <=> SOk)
          /\ (Exchanged' <=> Exchanged)
      BY <2>2 DEF MarksAre
    <3>3. Known(Unfinished /\ ~Exchanged)'
      BY <1>1, <3>1, <3>2 DEF Known, Fresh, Unfinished
    <3>4. Known(FlashInv)'
      BY <1>0, <1>1, <3>1, <3>2 DEF Known, FlashInv, Fresh, Fits, Unfinished
    <3> QED BY <1>0, <3>1, <3>3, <3>4, LoaderPoint DEF Finishing
  <2> QED BY <1>1, <2>1, <2>2, SameKeeps, FailedKeeps, StartPoints DEF Is
<1>2. CASE todo = Start2 /\ PInfo /\ Known(Fresh /\ Fits)
  <2>1. \/ Same \/ Failed
        \/ /\ Made(Start1) /\ slot' = slot /\ Completed("-")
           /\ MarksAre(PMagic \/ "swap_size" = "magic", PInfo \/ "swap_size" = "swap_info",
                       PSize \/ "swap_size" = "swap_size", PDone \/ "swap_size" = "copy_done",
                       POk \/ "swap_size" = "image_ok", SMagic, SOk, Exchanged)
    BY <1>2, StartPoints, PrimaryItem, Names, TrailerAssumption DEF SizeItem
  <2>2. CASE /\ Made(Start1) /\ slot' = slot /\ Completed("-")
             /\ MarksAre(PMagic \/ "swap_size" = "magic", PInfo \/ "swap_size" = "swap_info",
                         PSize \/ "swap_size" = "swap_size", PDone \/ "swap_size" = "copy_done",
                         POk \/ "swap_size" = "image_ok", SMagic, SOk, Exchanged)
    <3>1. todo' = Start1 /\ mode' = "boot" /\ slot' = slot /\ UNCHANGED <<image, history>>
          /\ harm' = harm /\ asked' = asked /\ todo' # <<>>
      BY <2>2, StartPoints DEF Made, Completed, history, Is
    <3>2. (PMagic' <=> PMagic) /\ PSize' /\ (PInfo' <=> PInfo) /\ (PDone' <=> PDone) /\ (POk' <=> POk)
          /\ (SMagic' <=> SMagic) /\ (SOk' <=> SOk) /\ (Exchanged' <=> Exchanged)
      BY <2>2 DEF MarksAre
    <3>3. Request' <=> Request
      BY <3>1, <3>2 DEF Request, SlotGood
    <3>4. ~harm.area => FlashInv' /\ Fresh' /\ Fits'
      <4> SUFFICES ASSUME ~harm.area PROVE FlashInv' /\ Fresh' /\ Fits'
        OBVIOUS
      <4>1. FlashInv' /\ Fresh'
        BY <1>0, <1>2, <3>1, <3>2, <3>3, FreshKeeps DEF Known, Fresh
      <4>2. Fits'
        BY <1>2, <3>1, <3>2 DEF Known, Fits
      <4> QED BY <4>1, <4>2
    <3> QED BY <1>0, <1>2, <3>1, <3>2, <3>4, LoaderPoint DEF Starting, Known
  <2> QED BY <1>2, <2>1, <2>2, SameKeeps, FailedKeeps, StartPoints DEF Is
<1>3. CASE todo = Start3 /\ PInfo /\ Known(Fresh /\ FitsType(TRUE))
  <2>1. \/ Same \/ Failed
        \/ /\ Made(Start2) /\ UNCHANGED <<flash, history>>
           /\ MarksAre(PMagic, PInfo, PSize, PDone, TRUE, SMagic, SOk, Exchanged)
    BY <1>3, StartPoints, KeepOkStep
  <2>2. CASE /\ Made(Start2) /\ UNCHANGED <<flash, history>>
             /\ MarksAre(PMagic, PInfo, PSize, PDone, TRUE, SMagic, SOk, Exchanged)
    <3>1. todo' = Start2 /\ mode' = "boot" /\ slot' = slot /\ UNCHANGED <<image, history>>
          /\ harm' = harm /\ asked' = asked /\ todo' # <<>>
      BY <2>2, StartPoints DEF Made, flash, history, Is
    <3>2. (PMagic' <=> PMagic) /\ (PInfo' <=> PInfo) /\ (PDone' <=> PDone) /\ POk'
          /\ (SMagic' <=> SMagic) /\ (SOk' <=> SOk) /\ (Exchanged' <=> Exchanged)
      BY <2>2 DEF MarksAre
    <3>3. Request' <=> Request
      BY <3>1, <3>2 DEF Request, SlotGood
    <3>4. ~harm.area => FlashInv' /\ Fresh' /\ Fits'
      <4> SUFFICES ASSUME ~harm.area PROVE FlashInv' /\ Fresh' /\ Fits'
        OBVIOUS
      <4>1. FlashInv' /\ Fresh' /\ Requested
        BY <1>0, <1>3, <3>1, <3>2, <3>3, FreshKeeps DEF Known, Fresh
      <4>2. Fits'
        BY <1>3, <3>1, <3>2, <4>1 DEF Known, Fits, FitsType, Requested, Fresh
      <4> QED BY <4>1, <4>2
    <3> QED BY <1>0, <1>3, <3>1, <3>2, <3>4, LoaderPoint DEF Starting, Known
  <2> QED BY <1>3, <2>1, <2>2, SameKeeps, FailedKeeps, StartPoints DEF Is
<1>4. ASSUME NEW type \in {"TEST", "PERM"}, NEW ok \in BOOLEAN,
             todo = Start4(type, ok), Known(Fresh /\ ~POk /\ FitsType(ok))
      PROVE  PointInv'
  <2> DEFINE t == IF ok THEN Start3 ELSE Start2
  <2>1. \/ Same \/ Failed
        \/ /\ Made(t) /\ slot' = slot /\ Completed("-")
           /\ MarksAre(PMagic \/ "swap_info" = "magic", PInfo \/ "swap_info" = "swap_info",
                       PSize \/ "swap_info" = "swap_size", PDone \/ "swap_info" = "copy_done",
                       POk \/ "swap_info" = "image_ok", SMagic, SOk, Exchanged)
    <3>1. Is(todo, InfoItem(type), t)
      BY <1>4, StartPoints
    <3> QED BY <3>1, PrimaryItem, Names, TrailerAssumption DEF InfoItem
  <2>2. CASE /\ Made(t) /\ slot' = slot /\ Completed("-")
             /\ MarksAre(PMagic \/ "swap_info" = "magic", PInfo \/ "swap_info" = "swap_info",
                         PSize \/ "swap_info" = "swap_size", PDone \/ "swap_info" = "copy_done",
                         POk \/ "swap_info" = "image_ok", SMagic, SOk, Exchanged)
    <3>1. todo' = t /\ mode' = "boot" /\ slot' = slot /\ UNCHANGED <<image, history>>
          /\ harm' = harm /\ asked' = asked /\ todo' # <<>>
      BY <2>2, StartPoints DEF Made, Completed, history, Is
    <3>2. (PMagic' <=> PMagic) /\ PInfo' /\ (PDone' <=> PDone) /\ (POk' <=> POk)
          /\ (SMagic' <=> SMagic) /\ (SOk' <=> SOk) /\ (Exchanged' <=> Exchanged)
      BY <2>2 DEF MarksAre
    <3>3. Request' <=> Request
      BY <3>1, <3>2 DEF Request, SlotGood
    <3>4. ~harm.area => /\ FlashInv' /\ Fresh'
                        /\ IF ok THEN FitsType(TRUE)' ELSE Fits'
      <4> SUFFICES ASSUME ~harm.area
                   PROVE  FlashInv' /\ Fresh' /\ IF ok THEN FitsType(TRUE)' ELSE Fits'
        OBVIOUS
      <4>1. FlashInv' /\ Fresh' /\ Requested
        BY <1>0, <1>4, <3>1, <3>2, <3>3, FreshKeeps DEF Known, Fresh
      <4>2. ok => FitsType(TRUE)'
        BY <1>4, <3>1 DEF Known, FitsType
      <4>3. ~ok => Fits'
        BY <1>4, <3>1, <3>2, <4>1 DEF Known, Fits, FitsType, Requested, Fresh
      <4> QED BY <4>1, <4>2, <4>3
    <3>5. Starting'
      BY <3>1, <3>2, <3>4 DEF Starting, Known
    <3> QED BY <1>0, <3>1, <3>4, <3>5, LoaderPoint DEF Known
  <2> QED BY <1>4, <2>1, <2>2, SameKeeps, FailedKeeps, StartPoints DEF Is
<1>5. ASSUME NEW type \in {"TEST", "PERM"}, NEW ok \in BOOLEAN,
             todo = Start5(type, ok), Known(Fresh /\ ~POk /\ FitsType(ok))
      PROVE  PointInv'
  <2>1. Is(todo, EraseTrailer(Primary), Start4(type, ok))
        /\ EraseTrailer(Primary).op = "erase_trailer" /\ EraseTrailer(Primary).at = Primary
    BY <1>5, StartPoints DEF EraseTrailer, Access
  <2>2. Made(Start4(type, ok)) /\ MarksStay /\ TrailerErased
    BY <2>1, SlotStep
  <2>3. slot'[Secondary] = slot[Secondary]
    BY <2>1, <2>2, SlotsAre, Names DEF TrailerErased, Is
  <2>4. todo' = Start4(type, ok) /\ mode' = "boot" /\ UNCHANGED <<image, history>>
        /\ harm' = harm /\ asked' = asked /\ todo' # <<>> /\ (SlotGood' <=> SlotGood)
    BY <2>2, <2>3, StartPoints DEF Made, history, TrailerErased, SlotGood, Is
  <2>5. Request' <=> Request
    BY <2>2, <2>4, MarksKnown DEF Request
  <2>6. ~harm.area => FlashInv' /\ Fresh' /\ ~POk' /\ FitsType(ok)'
    <3> SUFFICES ASSUME ~harm.area PROVE FlashInv' /\ Fresh' /\ ~POk' /\ FitsType(ok)'
      OBVIOUS
    <3>1. FlashInv' /\ Fresh'
      BY <1>0, <1>5, <2>2, <2>4, <2>5, MarksKnown, FreshKeeps DEF Known, Fresh
    <3>2. FitsType(ok)'
      BY <1>5, <2>4 DEF Known, FitsType
    <3>3. ~POk'
      BY <1>5, <2>2, MarksKnown DEF Known
    <3> QED BY <3>1, <3>2, <3>3
  <2>7. Starting'
    BY <2>4, <2>6 DEF Starting, Known
  <2> QED BY <1>0, <2>3, <2>4, <2>6, <2>7, LoaderPoint DEF Known
<1>6. ASSUME NEW type \in {"TEST", "PERM"}, NEW ok \in BOOLEAN,
             Reading(Start6(type, ok)), Known(~Unfinished /\ Whole /\ Request /\ FitsType(ok))
      PROVE  PointInv'
  <2> DEFINE t == Start6(type, ok)
  <2>1. CASE todo # t
    <3>1. Same \/ Failed \/ ReadsOn(t)
      BY <1>6, <2>1, ReadingKeeps
    <3>2. CASE ReadsOn(t)
      <4>1. mode' = "boot" /\ asked' = asked /\ harm' = harm /\ (Whole' <=> Whole) /\ Reading(t)'
            /\ (Request' <=> Request) /\ ~slot'[Secondary].image_ok
        BY <3>2 DEF ReadsOn, history, Whole
      <4>2. todo' # <<>>
        BY <4>1, StartPoints DEF Reading, ReadingSecondary, Is
      <4>3. ~harm.area => FlashInv' /\ ~Unfinished' /\ Whole' /\ Request' /\ FitsType(ok)'
        BY <1>0, <1>6, <3>2, <4>1, <4>2, ReadsOnKeeps DEF Known, FitsType
      <4>4. Starting'
        BY <4>1, <4>3 DEF Starting, Known
      <4> QED BY <4>1, <4>3, <4>4, LoaderPoint DEF Known
    <3>3. todo # <<>>
      BY <1>6, StartPoints DEF Reading, ReadingSecondary, Is
    <3> QED BY <3>1, <3>2, <3>3, SameKeeps, FailedKeeps
  <2>2. CASE todo = t
    <3>1. /\ Made(Start5(type, ok)) /\ UNCHANGED <<flash, history>>
          /\ MarksAre(FALSE, FALSE, FALSE, FALSE, FALSE, SMagic, SOk, FALSE)
      BY <2>2, StartPoints, EraseStep, Names
    <3>2. todo' = Start5(type, ok) /\ mode' = "boot" /\ slot' = slot /\ (Whole' <=> Whole)
          /\ harm' = harm /\ asked' = asked /\ trial' = trial /\ todo' # <<>>
      BY <3>1, StartPoints DEF Made, flash, history, Whole, Is
    <3>3. ~PMagic' /\ ~PDone' /\ ~POk' /\ ~Exchanged' /\ (SMagic' <=> SMagic) /\ (SOk' <=> SOk)
      BY <3>1 DEF MarksAre
    <3>4. Request' <=> Request
      BY <3>2, <3>3 DEF Request, SlotGood
    <3>5. ~harm.area => FlashInv' /\ Fresh' /\ FitsType(ok)'
      <4> SUFFICES ASSUME ~harm.area PROVE FlashInv' /\ Fresh' /\ FitsType(ok)'
        OBVIOUS
      <4>1. FlashInv /\ ~Unfinished /\ Whole /\ Request /\ FitsType(ok)
        BY <1>0, <1>6 DEF Known
      <4>2. Fresh' /\ FitsType(ok)'
        BY <3>2, <3>3, <3>4, <4>1 DEF Fresh, FitsType
      <4>3. Requested'
        BY <3>2, <3>3, <3>4, <4>1 DEF Requested, FlashInv
      <4>4. Replaced'
        BY <3>2, <3>4, <4>1 DEF Replaced
      <4>5. SOk => SMagic
        BY <4>1 DEF FlashInv
      <4> QED BY <3>3, <4>2, <4>3, <4>4, <4>5 DEF FlashInv, Unfinished
    <3>6. Starting'
      BY <3>2, <3>3, <3>5 DEF Starting, Known
    <3> QED BY <1>0, <3>2, <3>5, <3>6, LoaderPoint DEF Known
  <2> QED BY <2>1, <2>2
<1> QED BY <1>1, <1>2, <1>3, <1>4, <1>5, <1>6 DEF Starting

LEMMA AccessRuns ==
  ASSUME Accesses
  PROVE  mode \in {"boot", "app"} /\ todo # <<>>
  BY DEF Accesses, UpdateBegins, UpdateEnds, UpdateFails, AreaErased, SlotWritten, TrailerErased,
         TrailerCopied, SlotErased, SlotFilled, Running

LEMMA OtherBootKeeps ==
  ASSUME AtAccess, mode = "boot", OtherBoot
  PROVE  PointInv'
<1> USE DEF AtAccess
<1>0. (FlashInv \/ harm.area) /\ ~slot[Secondary].image_ok /\ todo # <<>>
  BY AccessRuns DEF PointInv, Known
<1>1. CASE todo = Remove1 /\ Known(~Unfinished /\ ~Whole)
  <2>1. Is(todo, EraseTrailer(Secondary), <<>>)
        /\ EraseTrailer(Secondary).op = "erase_trailer" /\ EraseTrailer(Secondary).at = Secondary
    BY <1>1, OtherPoints DEF EraseTrailer, Access
  <2>2. Made(<<>>) /\ MarksStay /\ TrailerErased
    BY <2>1, SlotStep
  <2>3. slot'[Secondary] = ErasedSlot /\ slot'[Primary] = slot[Primary]
    BY <2>1, <2>2, SlotsAre, Names DEF TrailerErased, Is
  <2>4. todo' = <<>> /\ mode' = "boot" /\ harm' = harm /\ asked' = asked /\ trial' = trial
        /\ confirmed' = confirmed /\ (SlotOk' <=> SlotOk) /\ (Whole' <=> Whole)
        /\ ~slot'[Secondary].image_ok
    BY <2>2, <2>3 DEF Made, history, TrailerErased, SlotOk, Whole, ErasedSlot
  <2>5. ~harm.area => FlashInv' /\ ~Unfinished'
    BY <1>0, <1>1, <2>2, <2>4, MarksKnown DEF Known, FlashInv, Revertible, Replaced
  <2> QED BY <2>4, <2>5, EndPoint DEF Known
<1>2. CASE Reading(Remove2) /\ Known(~Unfinished /\ ~Whole)
  <2>1. CASE todo # Remove2
    <3>1. Same \/ Failed \/ ReadsOn(Remove2)
      BY <1>2, <2>1, ReadingKeeps
    <3>2. CASE ReadsOn(Remove2)
      <4>1. mode' = "boot" /\ harm' = harm /\ (Whole' <=> Whole) /\ Reading(Remove2)'
            /\ ~slot'[Secondary].image_ok
        BY <3>2 DEF ReadsOn, history, Whole
      <4>2. todo' # <<>>
        BY <4>1, OtherPoints DEF Reading, ReadingSecondary, Is
      <4>3. ~harm.area => FlashInv' /\ ~Unfinished' /\ ~Whole'
        BY <1>0, <1>2, <3>2, <4>1, <4>2, ReadsOnKeeps DEF Known
      <4> QED BY <4>1, <4>3, LoaderPoint DEF OtherBoot, Known
    <3> QED BY <1>0, <3>1, <3>2, SameKeeps, FailedKeeps
  <2>2. CASE todo = Remove2
    <3>1. /\ Made(Remove1) /\ UNCHANGED <<flash, history>>
          /\ MarksAre(PMagic, PInfo, PSize, PDone, POk, FALSE, FALSE, Exchanged)
      BY <2>2, OtherPoints, EraseStep, Names
    <3>2. todo' = Remove1 /\ mode' = "boot" /\ slot' = slot /\ (Whole' <=> Whole)
          /\ harm' = harm /\ asked' = asked /\ trial' = trial /\ confirmed' = confirmed
          /\ (SlotOk' <=> SlotOk)
      BY <3>1 DEF Made, flash, history, Whole, SlotOk
    <3>3. (PMagic' <=> PMagic) /\ (PDone' <=> PDone) /\ (POk' <=> POk) /\ (Exchanged' <=> Exchanged)
          /\ ~SMagic' /\ ~SOk'
      BY <3>1 DEF MarksAre
    <3>4. ~harm.area => FlashInv' /\ ~Unfinished' /\ ~Whole'
      BY <1>0, <1>2, <3>2, <3>3 DEF Known, FlashInv, Unfinished, Revertible, Replaced
    <3> QED BY <1>0, <3>2, <3>4, LoaderPoint DEF OtherBoot, Known
  <2> QED BY <2>1, <2>2
<1>3. CASE todo = <<RevertItem>> /\ Known(~Unfinished /\ asked = "none" /\ ~Request)
  <2>1. \/ Same \/ Failed
        \/ /\ Made(<<>>) /\ slot' = slot /\ Completed("revert")
           /\ MarksAre(PMagic \/ "image_ok" = "magic", PInfo \/ "image_ok" = "swap_info",
                       PSize \/ "image_ok" = "swap_size", PDone \/ "image_ok" = "copy_done",
                       POk \/ "image_ok" = "image_ok", SMagic, SOk, Exchanged)
    BY <1>3, OtherPoints, PrimaryItem, Names, TrailerAssumption DEF RevertItem
  <2>2. CASE /\ Made(<<>>) /\ slot' = slot /\ Completed("revert")
             /\ MarksAre(PMagic \/ "image_ok" = "magic", PInfo \/ "image_ok" = "swap_info",
                         PSize \/ "image_ok" = "swap_size", PDone \/ "image_ok" = "copy_done",
                         POk \/ "image_ok" = "image_ok", SMagic, SOk, Exchanged)
    <3>1. todo' = <<>> /\ mode' = "boot" /\ slot' = slot /\ harm' = harm /\ asked' = asked /\ ~trial'
      BY <2>2 DEF Made, Completed
    <3>2. (PMagic' <=> PMagic) /\ (PDone' <=> PDone) /\ POk' /\ (SMagic' <=> SMagic)
          /\ (SOk' <=> SOk) /\ (Exchanged' <=> Exchanged)
      BY <2>2 DEF MarksAre
    <3>3. Request' <=> Request
      BY <3>1, <3>2 DEF Request, SlotGood
    <3>4. ~harm.area => FlashInv' /\ ~Unfinished'
      BY <1>0, <1>3, <3>1, <3>2, <3>3 DEF Known, FlashInv, Unfinished, Requested
    <3> QED BY <1>0, <3>1, <3>4, EndPoint DEF Known
  <2> QED BY <1>0, <2>1, <2>2, SameKeeps, FailedKeeps
<1>4. CASE Reading(<<>>) /\ Known(~Unfinished /\ (trial /\ ~harm.stale => Revertible))
  <2>1. Same \/ Failed \/ ReadsOn(<<>>)
    BY <1>0, <1>4, ReadingKeeps
  <2>2. CASE ReadsOn(<<>>)
    <3>1. mode' = "boot" /\ harm' = harm /\ trial' = trial /\ Reading(<<>>)' /\ ~slot'[Secondary].image_ok
      BY <2>2 DEF ReadsOn, history
    <3>2. ~harm.area => FlashInv' /\ ~Unfinished'
      BY <1>0, <1>4, <2>2, ReadsOnKeeps DEF Known
    <3>3. Revertible => Revertible'
      BY <2>2 DEF Revertible, ReadsOn
    <3> QED BY <1>4, <3>1, <3>2, <3>3, LoaderPoint DEF OtherBoot, Known
  <2> QED BY <1>0, <2>1, <2>2, SameKeeps, FailedKeeps
<1> QED BY <1>1, <1>2, <1>3, <1>4 DEF OtherBoot

---------------------------------------------------------------------------
(* The accesses of the application *)

LEMMA CallPoint ==
  ASSUME mode' = "app", ~slot'[Secondary].image_ok, Calling', Known(~Unfinished)', Known(FlashInv)'
  PROVE  PointInv'
  BY DEF PointInv, Stage

\* A call that leaves the trailer of the primary slot alone.
LEMMA CallFlash ==
  ASSUME FlashInv, ~Unfinished, mode = "app",
         PMagic' <=> PMagic, PDone' <=> PDone, POk' <=> POk, SlotOk' <=> SlotOk,
         trial' = trial, confirmed' = confirmed, harm' = harm,
         SOk' => SMagic', Whole' => Requested'
  PROVE  FlashInv' /\ ~Unfinished'
<1>1. ~Replaced /\ ~Unfinished' /\ (Revertible' <=> Revertible)
  BY DEF Replaced, Unfinished, Revertible
<1> QED BY <1>1 DEF FlashInv

\* A call that confirms the image.
LEMMA ConfirmFlash ==
  ASSUME FlashInv, ~Unfinished,
         PMagic' <=> PMagic, PDone' <=> PDone, SMagic' <=> SMagic, SOk' <=> SOk, Request' <=> Request,
         POk' \/ SlotOk', ~trial', asked' = asked, harm' = harm, Whole' <=> Whole
  PROVE  FlashInv' /\ ~Unfinished'
<1>1. ~Unfinished' /\ (Requested' <=> Requested)
  BY DEF Unfinished, Requested
<1> QED BY <1>1 DEF FlashInv

\* The download, and the erase of a slot whose magic is bad.
LEMMA DownloadKeeps ==
  ASSUME AtAccess, mode = "app", Known(~Unfinished), NEW t,
         \/ /\ Is(todo, EraseSlot, t)
            /\ t # <<>> => /\ t = <<FillSlot, SlotWrite(Secondary, "magic", "TEST")>>
                           /\ Known(~harm.stale => ~SMagic)
         \/ /\ \/ Is(todo, FillSlot, t) /\ t = <<SlotWrite(Secondary, "magic", "TEST")>>
               \/ Is(todo, SlotWrite(Secondary, "magic", "TEST"), t) /\ t = <<>>
            /\ Known(~SlotGood /\ asked = "none" /\ (~harm.stale => ~SMagic))
  PROVE  PointInv'
<1> USE DEF AtAccess
<1>0. (FlashInv \/ harm.area) /\ ~slot[Secondary].image_ok
  BY DEF PointInv, Known
<1>1. CASE /\ Is(todo, EraseSlot, t)
           /\ t # <<>> => /\ t = <<FillSlot, SlotWrite(Secondary, "magic", "TEST")>>
                          /\ Known(~harm.stale => ~SMagic)
  <2>1. EraseSlot.op = "erase_slot" /\ EraseSlot.at = Secondary
    BY DEF EraseSlot, Access
  <2>2. Made(t) /\ MarksStay /\ SlotErased
    BY <1>1, <2>1, SlotStep
  <2>3. slot'[Secondary] = ErasedSlot /\ slot'[Primary] = slot[Primary]
    BY <1>1, <2>1, <2>2, SlotsAre, Names DEF SlotErased, Is
  <2>4. image'[Secondary] = NoImage
    BY <2>2, Names DEF SlotErased, Inv, TypeOK
  <2>5. todo' = t /\ mode' = "app" /\ harm' = harm /\ asked' = "none" /\ trial' = trial
        /\ confirmed' = confirmed /\ (SlotOk' <=> SlotOk) /\ ~SlotGood' /\ ~Whole'
        /\ ~slot'[Secondary].image_ok
    BY <2>2, <2>3, <2>4 DEF Made, SlotErased, SlotOk, SlotGood, Whole, ErasedSlot
  <2>6. ~harm.area => FlashInv' /\ ~Unfinished'
    <3>1. FlashInv => (SOk => SMagic)
      BY DEF FlashInv
    <3> QED BY <1>0, <2>2, <2>5, <3>1, MarksKnown, CallFlash DEF Known
  <2>7. CASE t = <<>>
    BY <2>5, <2>6, <2>7, EndPoint DEF Known
  <2>8. CASE t # <<>>
    BY <1>1, <2>2, <2>5, <2>6, <2>8, MarksKnown, CallPoint DEF Known, Calling
  <2> QED BY <2>7, <2>8
<1>2. CASE /\ Is(todo, FillSlot, t) /\ t = <<SlotWrite(Secondary, "magic", "TEST")>>
           /\ Known(~SlotGood /\ asked = "none" /\ (~harm.stale => ~SMagic))
  <2>1. FillSlot.op = "fill_slot" /\ FillSlot.at = Secondary
    BY DEF FillSlot, Access
  <2>2. Made(t) /\ MarksStay /\ SlotFilled
    BY <1>2, <2>1, SlotStep
  <2>3. slot'[Secondary] = slot[Secondary] /\ slot'[Primary] = slot[Primary]
    BY <1>2, <2>1, <2>2, SlotsAre, Names DEF SlotFilled, Is
  <2>4. todo' = t /\ mode' = "app" /\ harm' = harm /\ asked' = asked /\ trial' = trial
        /\ confirmed' = confirmed /\ (SlotOk' <=> SlotOk) /\ (SlotGood' <=> SlotGood)
    BY <2>2, <2>3 DEF Made, SlotFilled, history, SlotOk, SlotGood
  <2>5. ~harm.area => FlashInv' /\ ~Unfinished'
    <3> SUFFICES ASSUME ~harm.area PROVE FlashInv' /\ ~Unfinished'
      OBVIOUS
    <3>1. FlashInv /\ (SOk => SMagic) /\ ~Unfinished
      BY <1>0 DEF FlashInv, Known
    <3>2. Requested'
      BY <1>2, <2>2, <2>4, MarksKnown DEF Requested, Request, Known
    <3> QED BY <2>2, <2>4, <3>1, <3>2, MarksKnown, CallFlash
  <2>6. Calling'
    BY <1>2, <2>2, <2>4, MarksKnown DEF Calling, Known
  <2> QED BY <1>0, <2>3, <2>4, <2>5, <2>6, CallPoint DEF Known
<1>3. CASE /\ Is(todo, SlotWrite(Secondary, "magic", "TEST"), t) /\ t = <<>>
           /\ Known(~SlotGood /\ asked = "none" /\ (~harm.stale => ~SMagic))
  <2> DEFINE x == SlotWrite(Secondary, "magic", "TEST")
  <2>1. x.op = "slot" /\ x.at = Secondary /\ x.cell = "magic" /\ x.completes = "TEST"
    BY DEF SlotWrite, Access
  <2>2. Made(t) /\ MarksStay /\ SlotWritten
    BY <1>3, <2>1, SlotStep
  <2>3. Head(todo).at = Secondary /\ Head(todo).cell = "magic" /\ Head(todo).completes = "TEST"
    BY <1>3, <2>1 DEF Is
  <2>4. slot'[Secondary] = [slot[Secondary] EXCEPT !.magic = "good", !.image_ok = @ \/ FALSE]
        /\ slot'[Primary] = slot[Primary]
    <3> DEFINE y == [slot[Head(todo).at] EXCEPT
                       !.magic    = IF Head(todo).cell = "magic" THEN "good" ELSE @,
                       !.image_ok = @ \/ Head(todo).cell = "image_ok"]
    <3>1. SlotTrailer(y)
      BY <2>2 DEF SlotWritten
    <3>2. y = [slot[Secondary] EXCEPT !.magic = "good", !.image_ok = @ \/ FALSE]
      BY <2>3
    <3> HIDE DEF y
    <3> QED BY <2>3, <3>1, <3>2, SlotsAre, Names
  <2>5. slot[Secondary] \in [magic : {"unset", "good", "bad"}, image_ok : BOOLEAN]
    BY Names DEF Inv, TypeOK
  <2>6. slot'[Secondary].magic = "good" /\ ~slot'[Secondary].image_ok
    BY <1>0, <2>4, <2>5
  <2>7. todo' = <<>> /\ mode' = "app" /\ harm' = harm /\ asked' = "TEST" /\ trial' = trial
        /\ confirmed' = confirmed /\ (SlotOk' <=> SlotOk) /\ SlotGood'
    BY <1>3, <2>2, <2>3, <2>4, <2>6 DEF Made, SlotWritten, Completed, SlotOk, SlotGood
  <2>8. ~harm.area => FlashInv' /\ ~Unfinished'
    <3> SUFFICES ASSUME ~harm.area PROVE FlashInv' /\ ~Unfinished'
      OBVIOUS
    <3>1. FlashInv /\ (SOk => SMagic) /\ ~Unfinished
      BY <1>0 DEF FlashInv, Known
    <3>2. Requested'
      BY <1>3, <2>2, <2>7, <3>1, MarksKnown DEF Requested, Request, Known
    <3> QED BY <2>2, <2>7, <3>1, <3>2, MarksKnown, CallFlash
  <2> QED BY <2>6, <2>7, <2>8, EndPoint DEF Known
<1> QED BY <1>1, <1>2, <1>3

\* cy_ota_storage_validated().
LEMMA ValidatedKeeps ==
  ASSUME AtAccess, mode = "app", Known(~Unfinished), NEW t,
         \/ Is(todo, SlotWrite(Primary, "magic", "-"), t) /\ t = <<SlotWrite(Primary, "image_ok", "confirm")>>
         \/ Is(todo, SlotWrite(Primary, "image_ok", "confirm"), t) /\ t = <<>>
  PROVE  PointInv'
<1> USE DEF AtAccess
<1>0. (FlashInv \/ harm.area) /\ ~slot[Secondary].image_ok
  BY DEF PointInv, Known
<1>1. /\ Head(todo).op = "slot" /\ Head(todo).at = Primary /\ Tail(todo) = t
      /\ \/ Head(todo).cell = "magic" /\ Head(todo).completes = "-" /\ t # <<>>
            /\ t = <<SlotWrite(Primary, "image_ok", "confirm")>>
         \/ Head(todo).cell = "image_ok" /\ Head(todo).completes = "confirm" /\ t = <<>>
  <2> DEFINE m == SlotWrite(Primary, "magic", "-")
             o == SlotWrite(Primary, "image_ok", "confirm")
  <2>1. m.op = "slot" /\ m.at = Primary /\ m.cell = "magic" /\ m.completes = "-"
    BY DEF SlotWrite, Access
  <2>2. o.op = "slot" /\ o.at = Primary /\ o.cell = "image_ok" /\ o.completes = "confirm"
    BY DEF SlotWrite, Access
  <2>3. <<o>> # <<>>
    OBVIOUS
  <2> HIDE DEF m, o
  <2>4. CASE Is(todo, m, t) /\ t = <<o>>
    BY <2>1, <2>3, <2>4 DEF Is
  <2>5. CASE Is(todo, o, t) /\ t = <<>>
    BY <2>2, <2>5 DEF Is
  <2> QED BY <2>4, <2>5 DEF m, o
<1>2. Made(t) /\ MarksStay /\ SlotWritten
  <2>1. SlotWrite(Primary, "magic", "-").op = "slot" /\ SlotWrite(Primary, "image_ok", "confirm").op = "slot"
    BY DEF SlotWrite, Access
  <2> QED BY <2>1, SlotStep
<1> DEFINE y == [slot[Head(todo).at] EXCEPT
                   !.magic    = IF Head(todo).cell = "magic" THEN "good" ELSE @,
                   !.image_ok = @ \/ Head(todo).cell = "image_ok"]
<1>3. slot'[Secondary] = slot[Secondary] /\ slot'[Primary] = y
  <2>1. SlotTrailer(y)
    BY <1>2 DEF SlotWritten
  <2> HIDE DEF y
  <2> QED BY <1>1, <2>1, SlotsAre, Names
<1>4. y.image_ok <=> SlotOk \/ Head(todo).cell = "image_ok"
  <2>1. slot[Primary] \in [magic : {"unset", "good", "bad"}, image_ok : BOOLEAN]
    BY Names DEF Inv, TypeOK
  <2> QED BY <1>1, <2>1 DEF SlotOk
<1> HIDE DEF y
<1>5. todo' = t /\ mode' = "app" /\ harm' = harm /\ asked' = asked /\ (Whole' <=> Whole)
      /\ (SlotGood' <=> SlotGood) /\ (SlotOk' <=> SlotOk \/ Head(todo).cell = "image_ok")
      /\ Completed(Head(todo).completes)
  BY <1>1, <1>2, <1>3, <1>4 DEF Made, SlotWritten, Completed, Whole, SlotGood, SlotOk
<1>6. Request' <=> Request
  BY <1>2, <1>5, MarksKnown DEF Request
<1>7. CASE Head(todo).cell = "magic" /\ Head(todo).completes = "-"
           /\ t = <<SlotWrite(Primary, "image_ok", "confirm")>>
  <2>1. trial' = trial /\ confirmed' = confirmed /\ (SlotOk' <=> SlotOk)
    BY <1>5, <1>7 DEF Completed
  <2>2. ~harm.area => FlashInv' /\ ~Unfinished'
    <3> SUFFICES ASSUME ~harm.area PROVE FlashInv' /\ ~Unfinished'
      OBVIOUS
    <3>1. FlashInv /\ (SOk => SMagic) /\ ~Unfinished /\ (Whole => Requested)
      BY <1>0 DEF FlashInv, Known
    <3>2. Whole' => Requested'
      BY <1>2, <1>5, <1>6, <3>1, MarksKnown DEF Requested
    <3> QED BY <1>2, <1>5, <2>1, <3>1, <3>2, MarksKnown, CallFlash
  <2>3. Calling'
    BY <1>5, <1>7 DEF Calling
  <2> QED BY <1>0, <1>3, <1>5, <2>2, <2>3, CallPoint DEF Known
<1>8. CASE Head(todo).cell = "image_ok" /\ Head(todo).completes = "confirm" /\ t = <<>>
  <2>1. ~trial' /\ SlotOk'
    BY <1>5, <1>8 DEF Completed
  <2>2. ~harm.area => FlashInv' /\ ~Unfinished'
    BY <1>0, <1>2, <1>5, <1>6, <2>1, MarksKnown, ConfirmFlash DEF Known
  <2> QED BY <1>0, <1>3, <1>5, <1>8, <2>2, EndPoint DEF Known
<1> QED BY <1>1, <1>7, <1>8

\* boot_set_pending(): the marks of the trailer of the secondary slot.
LEMMA PendingKeeps ==
  ASSUME AtAccess, mode = "app", Known(~Unfinished),
         NEW type \in {"TEST", "PERM"}, NEW t,
         \/ Is(todo, AskItem, t) /\ Known(~SMagic)
            /\ (t = <<AskInfo("TEST")>> \/ t = <<AskPerm, AskInfo("PERM")>>)
         \/ Is(todo, AskPerm, t) /\ Known(SMagic) /\ t = <<AskInfo("PERM")>>
         \/ Is(todo, AskInfo(type), t) /\ t = <<>>
  PROVE  PointInv'
<1> USE DEF AtAccess
<1>0. (FlashInv \/ harm.area) /\ ~slot[Secondary].image_ok /\ todo # <<>>
  BY AccessRuns DEF PointInv, Known
<1>1. CASE Is(todo, AskItem, t) /\ Known(~SMagic)
           /\ (t = <<AskInfo("TEST")>> \/ t = <<AskPerm, AskInfo("PERM")>>)
  <2>1. \/ Same \/ Failed
        \/ /\ Made(t) /\ slot' = slot /\ Completed("TEST")
           /\ MarksAre(PMagic, PInfo, PSize, PDone, POk,
                       SMagic \/ "magic" = "magic", SOk \/ "magic" = "image_ok", Exchanged)
    BY <1>1, SecondaryItem, Names, TrailerAssumption DEF AskItem
  <2>2. CASE /\ Made(t) /\ slot' = slot /\ Completed("TEST")
             /\ MarksAre(PMagic, PInfo, PSize, PDone, POk,
                         SMagic \/ "magic" = "magic", SOk \/ "magic" = "image_ok", Exchanged)
    <3>1. todo' = t /\ mode' = "app" /\ slot' = slot /\ harm' = harm /\ asked' = "TEST"
          /\ trial' = trial /\ confirmed' = confirmed /\ (SlotOk' <=> SlotOk)
      BY <2>2 DEF Made, Completed, SlotOk
    <3>2. (PMagic' <=> PMagic) /\ (PDone' <=> PDone) /\ (POk' <=> POk) /\ SMagic' /\ (SOk' <=> SOk)
      BY <2>2 DEF MarksAre
    <3>3. ~harm.area => FlashInv' /\ ~Unfinished'
      <4> SUFFICES ASSUME ~harm.area PROVE FlashInv' /\ ~Unfinished'
        OBVIOUS
      <4>1. FlashInv /\ ~SOk /\ ~Unfinished
        BY <1>0, <1>1 DEF FlashInv, Known
      <4>2. Requested'
        BY <3>1, <3>2, <4>1 DEF Requested, Request
      <4> QED BY <3>1, <3>2, <4>1, <4>2, CallFlash
    <3>4. Calling'
      BY <1>1, <3>1, <3>2 DEF Calling, Known
    <3> QED BY <1>0, <3>1, <3>3, <3>4, CallPoint DEF Known
  <2> QED BY <1>0, <2>1, <2>2, SameKeeps, FailedKeeps
<1>2. CASE Is(todo, AskPerm, t) /\ Known(SMagic) /\ t = <<AskInfo("PERM")>>
  <2>1. \/ Same \/ Failed
        \/ /\ Made(t) /\ slot' = slot /\ Completed("PERM")
           /\ MarksAre(PMagic, PInfo, PSize, PDone, POk,
                       SMagic \/ "image_ok" = "magic", SOk \/ "image_ok" = "image_ok", Exchanged)
    BY <1>2, SecondaryItem, Names, TrailerAssumption DEF AskPerm
  <2>2. CASE /\ Made(t) /\ slot' = slot /\ Completed("PERM")
             /\ MarksAre(PMagic, PInfo, PSize, PDone, POk,
                         SMagic \/ "image_ok" = "magic", SOk \/ "image_ok" = "image_ok", Exchanged)
    <3>1. todo' = t /\ mode' = "app" /\ slot' = slot /\ harm' = harm /\ asked' = "PERM"
          /\ trial' = trial /\ confirmed' = confirmed /\ (SlotOk' <=> SlotOk)
      BY <2>2 DEF Made, Completed, SlotOk
    <3>2. (PMagic' <=> PMagic) /\ (PDone' <=> PDone) /\ (POk' <=> POk) /\ (SMagic' <=> SMagic) /\ SOk'
      BY <2>2 DEF MarksAre
    <3>3. ~harm.area => FlashInv' /\ ~Unfinished'
      <4> SUFFICES ASSUME ~harm.area PROVE FlashInv' /\ ~Unfinished'
        OBVIOUS
      <4>1. FlashInv /\ SMagic /\ ~Unfinished
        BY <1>0, <1>2 DEF Known
      <4>2. Requested'
        BY <3>1, <3>2, <4>1 DEF Requested, Request
      <4> QED BY <3>1, <3>2, <4>1, <4>2, CallFlash
    <3>4. Calling'
      BY <1>2, <3>1 DEF Calling
    <3> QED BY <1>0, <3>1, <3>3, <3>4, CallPoint DEF Known
  <2> QED BY <1>0, <2>1, <2>2, SameKeeps, FailedKeeps
<1>3. CASE Is(todo, AskInfo(type), t) /\ t = <<>>
  <2>1. \/ Same \/ Failed
        \/ /\ Made(t) /\ slot' = slot /\ Completed("-")
           /\ MarksAre(PMagic, PInfo, PSize, PDone, POk,
                       SMagic \/ "swap_info" = "magic", SOk \/ "swap_info" = "image_ok", Exchanged)
    BY <1>3, SecondaryItem, Names, TrailerAssumption DEF AskInfo
  <2>2. CASE /\ Made(t) /\ slot' = slot /\ Completed("-")
             /\ MarksAre(PMagic, PInfo, PSize, PDone, POk,
                         SMagic \/ "swap_info" = "magic", SOk \/ "swap_info" = "image_ok", Exchanged)
    <3>1. todo' = <<>> /\ mode' = "app" /\ slot' = slot /\ UNCHANGED <<flash, history>> /\ harm' = harm
      BY <1>3, <2>2 DEF Made, Completed, flash, history
    <3>2. MarksStay
      BY <2>2 DEF MarksAre, MarksStay
    <3>3. ~harm.area => FlashInv' /\ ~Unfinished'
      BY <1>0, <3>1, <3>2, FlashInvStays, MarksKnown DEF Known, Replaced
    <3> QED BY <1>0, <3>1, <3>3, EndPoint DEF Known
  <2> QED BY <1>0, <2>1, <2>2, SameKeeps, FailedKeeps
<1> QED BY <1>1, <1>2, <1>3

LEMMA CallingKeeps ==
  ASSUME AtAccess, mode = "app", Calling, Known(~Unfinished)
  PROVE  PointInv'
<1>0. (FlashInv \/ harm.area) /\ ~slot[Secondary].image_ok /\ todo # <<>>
  BY AccessRuns DEF AtAccess, PointInv, Known
<1>1. CASE /\ \/ todo = <<EraseSlot, FillSlot, SlotWrite(Secondary, "magic", "TEST")>>
              \/ /\ \/ todo = <<FillSlot, SlotWrite(Secondary, "magic", "TEST")>>
                    \/ todo = <<SlotWrite(Secondary, "magic", "TEST")>>
                 /\ Known(~SlotGood /\ asked = "none")
           /\ Known(~harm.stale => ~SMagic)
  <2>1. CASE todo = <<EraseSlot, FillSlot, SlotWrite(Secondary, "magic", "TEST")>>
    <3>1. Is(todo, EraseSlot, <<FillSlot, SlotWrite(Secondary, "magic", "TEST")>>)
      BY <2>1, OtherPoints
    <3> QED BY <1>1, <3>1, DownloadKeeps
  <2>2. CASE todo = <<FillSlot, SlotWrite(Secondary, "magic", "TEST")>> /\ Known(~SlotGood /\ asked = "none")
    <3>1. Is(todo, FillSlot, <<SlotWrite(Secondary, "magic", "TEST")>>)
      BY <2>2, OtherPoints
    <3> QED BY <1>1, <2>2, <3>1, DownloadKeeps DEF Known
  <2>3. CASE todo = <<SlotWrite(Secondary, "magic", "TEST")>> /\ Known(~SlotGood /\ asked = "none")
    <3>1. Is(todo, SlotWrite(Secondary, "magic", "TEST"), <<>>)
      BY <2>3, OtherPoints
    <3> QED BY <1>1, <2>3, <3>1, DownloadKeeps DEF Known
  <2> QED BY <1>1, <2>1, <2>2, <2>3
<1>2. CASE todo = <<SlotWrite(Primary, "magic", "-"), SlotWrite(Primary, "image_ok", "confirm")>>
  <2>1. Is(todo, SlotWrite(Primary, "magic", "-"), <<SlotWrite(Primary, "image_ok", "confirm")>>)
    BY <1>2, OtherPoints
  <2> QED BY <2>1, ValidatedKeeps
<1>3. CASE todo = <<SlotWrite(Primary, "image_ok", "confirm")>>
  <2>1. Is(todo, SlotWrite(Primary, "image_ok", "confirm"), <<>>)
    BY <1>3, OtherPoints
  <2> QED BY <2>1, ValidatedKeeps
<1>4. CASE todo = <<AskItem, AskInfo("TEST")>> /\ Known(~SMagic)
  <2>1. Is(todo, AskItem, <<AskInfo("TEST")>>)
    BY <1>4, OtherPoints
  <2> QED BY <1>4, <2>1, PendingKeeps
<1>5. CASE todo = <<AskItem, AskPerm, AskInfo("PERM")>> /\ Known(~SMagic)
  <2>1. Is(todo, AskItem, <<AskPerm, AskInfo("PERM")>>)
    BY <1>5, OtherPoints
  <2> QED BY <1>5, <2>1, PendingKeeps
<1>6. CASE todo = <<AskPerm, AskInfo("PERM")>> /\ Known(SMagic)
  <2>1. Is(todo, AskPerm, <<AskInfo("PERM")>>)
    BY <1>6, OtherPoints
  <2> QED BY <1>6, <2>1, PendingKeeps
<1>7. ASSUME NEW type \in {"TEST", "PERM"}, todo = <<AskInfo(type)>> PROVE PointInv'
  <2>1. Is(todo, AskInfo(type), <<>>)
    BY <1>7, OtherPoints
  <2> QED BY <2>1, PendingKeeps
<1>8. CASE Reading(<<EraseSlot>>)
  <2>1. CASE todo = <<EraseSlot>>
    <3>1. Is(todo, EraseSlot, <<>>)
      BY <2>1, OtherPoints
    <3> QED BY <3>1, DownloadKeeps
  <2>2. CASE todo # <<EraseSlot>>
    <3>1. Same \/ Failed \/ ReadsOn(<<EraseSlot>>)
      BY <1>8, <2>2, ReadingKeeps
    <3>2. CASE ReadsOn(<<EraseSlot>>)
      <4>1. mode' = "app" /\ harm' = harm /\ Calling' /\ ~slot'[Secondary].image_ok
        BY <3>2 DEF ReadsOn, history, Calling
      <4>2. ~harm.area => FlashInv' /\ ~Unfinished'
        BY <1>0, <3>2, ReadsOnKeeps DEF Known
      <4> QED BY <4>1, <4>2, CallPoint DEF Known
    <3> QED BY <1>0, <3>1, <3>2, SameKeeps, FailedKeeps DEF AtAccess
  <2> QED BY <2>1, <2>2
<1>9. CASE todo = <<ConfirmItem>>
  <2>1. \/ Same \/ Failed
        \/ /\ Made(<<>>) /\ slot' = slot /\ Completed("confirm")
           /\ MarksAre(PMagic \/ "image_ok" = "magic", PInfo \/ "image_ok" = "swap_info",
                       PSize \/ "image_ok" = "swap_size", PDone \/ "image_ok" = "copy_done",
                       POk \/ "image_ok" = "image_ok", SMagic, SOk, Exchanged)
    BY <1>9, OtherPoints, PrimaryItem, Names, TrailerAssumption DEF ConfirmItem, AtAccess
  <2>2. CASE /\ Made(<<>>) /\ slot' = slot /\ Completed("confirm")
             /\ MarksAre(PMagic \/ "image_ok" = "magic", PInfo \/ "image_ok" = "swap_info",
                         PSize \/ "image_ok" = "swap_size", PDone \/ "image_ok" = "copy_done",
                         POk \/ "image_ok" = "image_ok", SMagic, SOk, Exchanged)
    <3>1. todo' = <<>> /\ mode' = "app" /\ slot' = slot /\ harm' = harm /\ asked' = asked /\ ~trial'
          /\ (Whole' <=> Whole)
      BY <2>2 DEF Made, Completed, Whole
    <3>2. (PMagic' <=> PMagic) /\ (PDone' <=> PDone) /\ POk' /\ (SMagic' <=> SMagic) /\ (SOk' <=> SOk)
      BY <2>2 DEF MarksAre
    <3>3. Request' <=> Request
      BY <3>1, <3>2 DEF Request, SlotGood
    <3>4. ~harm.area => FlashInv' /\ ~Unfinished'
      BY <1>0, <3>1, <3>2, <3>3, ConfirmFlash DEF Known
    <3> QED BY <1>0, <3>1, <3>4, EndPoint DEF Known
  <2> QED BY <1>0, <2>1, <2>2, SameKeeps, FailedKeeps DEF AtAccess
<1>10. CASE Reading(<<>>)
  <2>1. Same \/ Failed \/ ReadsOn(<<>>)
    BY <1>0, <1>10, ReadingKeeps
  <2>2. CASE ReadsOn(<<>>)
    <3>1. mode' = "app" /\ harm' = harm /\ Calling' /\ ~slot'[Secondary].image_ok
      BY <2>2 DEF ReadsOn, history, Calling
    <3>2. ~harm.area => FlashInv' /\ ~Unfinished'
      BY <1>0, <2>2, ReadsOnKeeps DEF Known
    <3> QED BY <3>1, <3>2, CallPoint DEF Known
  <2> QED BY <1>0, <2>1, <2>2, SameKeeps, FailedKeeps DEF AtAccess
<1> QED BY <1>1, <1>2, <1>3, <1>4, <1>5, <1>6, <1>7, <1>8, <1>9, <1>10 DEF Calling

\* Every access leads from one point to the next.
LEMMA AccessKeeps ==
  ASSUME AtAccess
  PROVE  PointInv'
<1>1. mode \in {"boot", "app"} /\ todo # <<>> /\ Stage
  BY AccessRuns DEF AtAccess, PointInv
<1> QED BY <1>1, FinishKeeps, StartKeeps, OtherBootKeeps, CallingKeeps DEF Stage

---------------------------------------------------------------------------
(* What the access that runs may be *)

LoaderAccesses ==
  {ExchangeItem, CopyItem, DoneItem, MagicItem, SizeItem, KeepOk, KeepMagic, RevertItem,
   InfoItem("TEST"), InfoItem("PERM"), EraseStatus(Primary), EraseStatus(Secondary),
   EraseTrailer(Primary), EraseTrailer(Secondary)}

CallAccesses ==
  {EraseSlot, FillSlot, SlotWrite(Secondary, "magic", "TEST"), SlotWrite(Primary, "magic", "-"),
   SlotWrite(Primary, "image_ok", "confirm"), AskItem, AskPerm, AskInfo("TEST"), AskInfo("PERM"),
   ConfirmItem, KeepOk, KeepMagic, EraseTrailer(Secondary)}

LEMMA ReadingHead ==
  ASSUME NEW t, Reading(t), todo # <<>>
  PROVE  todo = t \/ Head(todo) \in {KeepOk, KeepMagic, EraseTrailer(Secondary)}
  BY DEF Reading, ReadingSecondary, Is

LEMMA LoaderHead ==
  ASSUME todo # <<>>, Finishing \/ Starting \/ OtherBoot
  PROVE  Head(todo) \in LoaderAccesses /\ (Head(todo) = MagicItem => PInfo /\ PSize)
<1>1. MagicItem.op = "status" /\ MagicItem.cell = "magic" /\ MagicItem.at = Trailer(Primary)
  BY DEF MagicItem, StatusUpdate, Access
<1>2. /\ ExchangeItem.cell = "status" /\ CopyItem.op = "copy_trailer" /\ DoneItem.cell = "copy_done"
      /\ SizeItem.cell = "swap_size" /\ KeepOk.cell = "image_ok" /\ RevertItem.cell = "image_ok"
      /\ KeepMagic.at = Trailer(Secondary) /\ InfoItem("TEST").cell = "swap_info"
      /\ InfoItem("PERM").cell = "swap_info"
      /\ \A a \in Areas : EraseStatus(a).op = "erase_area" /\ EraseTrailer(a).op = "erase_trailer"
  BY DEF ExchangeItem, CopyItem, DoneItem, SizeItem, KeepOk, RevertItem, KeepMagic, InfoItem,
         EraseStatus, EraseTrailer, StatusUpdate, Access
<1>3. Trailer(Primary) # Trailer(Secondary)
  BY DEF Trailer, Primary, Secondary
<1>4. CASE Finishing
  <2>1. Head(todo) \in {ExchangeItem, EraseStatus(Secondary), EraseTrailer(Secondary),
                        EraseTrailer(Primary), CopyItem, DoneItem}
    BY <1>4, FinishPoints DEF Finishing, Is
  <2> QED BY <1>1, <1>2, <2>1, Names DEF LoaderAccesses
<1>5. CASE Starting
  <2>1. \/ todo = Start1 /\ PInfo /\ PSize
        \/ todo = Start2 \/ todo = Start3
        \/ \E type \in {"TEST", "PERM"}, ok \in BOOLEAN :
             todo = Start4(type, ok) \/ todo = Start5(type, ok) \/ Reading(Start6(type, ok))
    BY <1>5 DEF Starting
  <2>2. CASE todo = Start1 /\ PInfo /\ PSize
    BY <2>2, StartPoints DEF Is, LoaderAccesses
  <2>3. CASE todo = Start2 \/ todo = Start3
    <3>1. Head(todo) \in {SizeItem, KeepOk}
      BY <2>3, StartPoints DEF Is
    <3> QED BY <1>1, <1>2, <3>1 DEF LoaderAccesses
  <2>4. ASSUME NEW type \in {"TEST", "PERM"}, NEW ok \in BOOLEAN,
               todo = Start4(type, ok) \/ todo = Start5(type, ok) \/ Reading(Start6(type, ok))
        PROVE  Head(todo) \in LoaderAccesses \ {MagicItem}
    <3>1. Head(todo) \in {InfoItem(type), EraseTrailer(Primary), EraseStatus(Primary), KeepOk, KeepMagic,
                          EraseTrailer(Secondary)}
      BY <2>4, StartPoints, ReadingHead DEF Is
    <3>2. InfoItem(type) \in LoaderAccesses /\ InfoItem(type).cell = "swap_info"
      BY <1>2 DEF LoaderAccesses
    <3> QED BY <1>1, <1>2, <1>3, <3>1, <3>2, Names DEF LoaderAccesses
  <2> QED BY <2>1, <2>2, <2>3, <2>4
<1>6. CASE OtherBoot
  <2>1. Head(todo) \in {EraseTrailer(Secondary), EraseStatus(Secondary), RevertItem, KeepOk, KeepMagic}
    BY <1>6, OtherPoints, ReadingHead DEF OtherBoot, Is
  <2> QED BY <1>1, <1>2, <1>3, <2>1, Names DEF LoaderAccesses
<1> QED BY <1>4, <1>5, <1>6

LEMMA CallHead ==
  ASSUME todo # <<>>, Calling
  PROVE  /\ Head(todo) \in CallAccesses
         /\ Head(todo) = SlotWrite(Secondary, "magic", "TEST") => Known(~SlotGood)
<1> DEFINE x == SlotWrite(Secondary, "magic", "TEST")
<1>1. x.op = "slot" /\ x.at = Secondary
  BY DEF SlotWrite, Access
<1>2. /\ EraseSlot.op = "erase_slot" /\ FillSlot.op = "fill_slot" /\ AskItem.op = "status"
      /\ AskPerm.op = "status" /\ ConfirmItem.op = "status" /\ KeepOk.op = "status"
      /\ KeepMagic.op = "status" /\ EraseTrailer(Secondary).op = "erase_trailer"
      /\ \A type : AskInfo(type).op = "status"
      /\ SlotWrite(Primary, "magic", "-").at = Primary
      /\ SlotWrite(Primary, "image_ok", "confirm").at = Primary
  BY DEF EraseSlot, FillSlot, AskItem, AskPerm, ConfirmItem, KeepOk, KeepMagic, EraseTrailer, AskInfo,
         SlotWrite, StatusUpdate, Access
<1>3. CASE todo = <<x>> /\ Known(~SlotGood)
  <2>1. Head(todo) = x
    BY <1>3
  <2> QED BY <1>3, <2>1 DEF CallAccesses
<1>4. CASE ~(todo = <<x>> /\ Known(~SlotGood))
  <2> DEFINE others ==
        {EraseSlot, FillSlot, SlotWrite(Primary, "magic", "-"),
         SlotWrite(Primary, "image_ok", "confirm"), AskItem, AskPerm, AskInfo("TEST"), AskInfo("PERM"),
         ConfirmItem, KeepOk, KeepMagic, EraseTrailer(Secondary)}
  <2>1. \/ \/ todo = <<EraseSlot, FillSlot, x>> \/ todo = <<FillSlot, x>>
           \/ todo = <<SlotWrite(Primary, "magic", "-"), SlotWrite(Primary, "image_ok", "confirm")>>
           \/ todo = <<SlotWrite(Primary, "image_ok", "confirm")>>
        \/ \/ todo = <<AskItem, AskInfo("TEST")>> \/ todo = <<AskItem, AskPerm, AskInfo("PERM")>>
           \/ todo = <<AskPerm, AskInfo("PERM")>> \/ todo = <<AskInfo("TEST")>>
           \/ todo = <<AskInfo("PERM")>> \/ todo = <<ConfirmItem>>
        \/ Reading(<<EraseSlot>>) \/ Reading(<<>>)
    BY <1>4 DEF Calling, Known
  <2>2. \A y, z, w : Head(<<y>>) = y /\ Head(<<y, z>>) = y /\ Head(<<y, z, w>>) = y
    OBVIOUS
  <2>3. Reading(<<EraseSlot>>) \/ Reading(<<>>)
          => Head(todo) \in {EraseSlot, KeepOk, KeepMagic, EraseTrailer(Secondary)}
    BY <2>2, ReadingHead
  <2>4. Head(todo) \in others
    BY <2>1, <2>2, <2>3
  <2>5. x \notin others
    BY <1>1, <1>2, Names
  <2>6. others \subseteq CallAccesses
    BY DEF CallAccesses
  <2> QED BY <2>4, <2>5, <2>6
<1> QED BY <1>3, <1>4

\* The functions never stop between a point of the loader and one of a call.
LEMMA PointHead ==
  ASSUME PointInv, todo # <<>>
  PROVE  \/ /\ mode = "boot" /\ Head(todo) \in LoaderAccesses
            /\ Head(todo) = MagicItem => PInfo /\ PSize
         \/ /\ mode = "app" /\ Known(~Unfinished) /\ Head(todo) \in CallAccesses
            /\ Head(todo) = SlotWrite(Secondary, "magic", "TEST") => Known(~SlotGood)
<1>1. \/ mode = "boot" /\ (Finishing \/ Starting \/ OtherBoot)
      \/ mode = "app" /\ Calling /\ Known(~Unfinished)
  BY DEF PointInv, Stage
<1> QED BY <1>1, LoaderHead, CallHead

\* The application writes to the slots when no swap is unfinished, and the magic
\* of a download to a slot that has none.
LEMMA SlotOps ==
  ASSUME PointInv, todo # <<>>, Head(todo).op \in {"slot", "erase_slot"}
  PROVE  /\ mode = "app" /\ Known(~Unfinished)
         /\ Head(todo).at = Secondary /\ Head(todo).op = "slot" => Known(~SlotGood)
<1>1. \A x \in LoaderAccesses : x.op \notin {"slot", "erase_slot"}
  BY DEF LoaderAccesses, ExchangeItem, CopyItem, DoneItem, MagicItem, SizeItem, KeepOk, KeepMagic,
         RevertItem, InfoItem, EraseStatus, EraseTrailer, StatusUpdate, Access
<1>2. \A x \in CallAccesses : x.op = "slot" /\ x.at = Secondary => x = SlotWrite(Secondary, "magic", "TEST")
  <2>1. /\ EraseSlot.op # "slot" /\ FillSlot.op # "slot" /\ AskItem.op # "slot" /\ AskPerm.op # "slot"
        /\ AskInfo("TEST").op # "slot" /\ AskInfo("PERM").op # "slot" /\ ConfirmItem.op # "slot"
        /\ KeepOk.op # "slot" /\ KeepMagic.op # "slot" /\ EraseTrailer(Secondary).op # "slot"
        /\ SlotWrite(Primary, "magic", "-").at = Primary
        /\ SlotWrite(Primary, "image_ok", "confirm").at = Primary
    BY DEF EraseSlot, FillSlot, AskItem, AskPerm, AskInfo, ConfirmItem, KeepOk, KeepMagic, EraseTrailer,
           SlotWrite, StatusUpdate, Access
  <2> QED BY <2>1, Names DEF CallAccesses
<1> QED BY <1>1, <1>2, PointHead

\* What is written to the trailer of the primary slot.
LEMMA PrimaryWrite ==
  ASSUME PointInv, todo # <<>>, Head(todo).op = "status", Head(todo).at = Trailer(Primary)
  PROVE  Head(todo).value # Erased /\ (Head(todo).cell = "magic" => PInfo /\ PSize)
<1> DEFINE Fine(x) == x.op = "status" /\ x.at = Trailer(Primary) =>
                        x.value # Erased /\ (x.cell = "magic" => x = MagicItem)
<1>0. {"set", "TEST", "PERM"} \subseteq Values \ {Erased} /\ Trailer(Primary) # Trailer(Secondary)
      /\ SwapRow # Trailer(Primary)
  BY TrailerAssumption DEF Trailer, SwapRow, Primary, Secondary
<1>1. /\ Fine(ExchangeItem) /\ Fine(CopyItem) /\ Fine(DoneItem) /\ Fine(SizeItem) /\ Fine(KeepOk)
      /\ Fine(RevertItem) /\ Fine(InfoItem("TEST")) /\ Fine(InfoItem("PERM")) /\ Fine(ConfirmItem)
  BY <1>0 DEF ExchangeItem, CopyItem, DoneItem, SizeItem, KeepOk, RevertItem, InfoItem, ConfirmItem,
              StatusUpdate, Access
<1>2. /\ Fine(KeepMagic) /\ Fine(EraseStatus(Primary)) /\ Fine(EraseStatus(Secondary))
      /\ Fine(EraseTrailer(Primary)) /\ Fine(EraseTrailer(Secondary)) /\ Fine(EraseSlot) /\ Fine(FillSlot)
  BY <1>0 DEF KeepMagic, EraseStatus, EraseTrailer, EraseSlot, FillSlot, StatusUpdate, Access
<1>3. /\ Fine(SlotWrite(Secondary, "magic", "TEST")) /\ Fine(SlotWrite(Primary, "magic", "-"))
      /\ Fine(SlotWrite(Primary, "image_ok", "confirm"))
      /\ Fine(AskItem) /\ Fine(AskPerm) /\ Fine(AskInfo("TEST")) /\ Fine(AskInfo("PERM"))
  BY <1>0 DEF SlotWrite, AskItem, AskPerm, AskInfo, StatusUpdate, Access
<1>4. Fine(MagicItem)
  BY <1>0 DEF MagicItem, StatusUpdate, Access
<1>5. \A x \in LoaderAccesses \cup CallAccesses : Fine(x)
  <2> HIDE DEF Fine
  <2> QED BY <1>1, <1>2, <1>3, <1>4 DEF LoaderAccesses, CallAccesses
<1>6. MagicItem \notin CallAccesses
  <2>1. MagicItem.op = "status" /\ MagicItem.cell = "magic" /\ MagicItem.at = Trailer(Primary)
    BY DEF MagicItem, StatusUpdate, Access
  <2>2. \A x \in CallAccesses : x.op = "status" /\ x.at = Trailer(Primary) => x.cell # "magic"
    <3>1. /\ ConfirmItem.cell = "image_ok" /\ KeepOk.cell = "image_ok"
          /\ AskItem.at = Trailer(Secondary) /\ AskPerm.at = Trailer(Secondary)
          /\ AskInfo("TEST").at = Trailer(Secondary) /\ AskInfo("PERM").at = Trailer(Secondary)
          /\ KeepMagic.at = Trailer(Secondary) /\ EraseTrailer(Secondary).op # "status"
          /\ EraseSlot.op # "status" /\ FillSlot.op # "status"
          /\ SlotWrite(Secondary, "magic", "TEST").op # "status"
          /\ SlotWrite(Primary, "magic", "-").op # "status"
          /\ SlotWrite(Primary, "image_ok", "confirm").op # "status"
      BY DEF ConfirmItem, KeepOk, AskItem, AskPerm, AskInfo, KeepMagic, EraseTrailer, EraseSlot, FillSlot,
             SlotWrite, StatusUpdate, Access
    <3> QED BY <1>0, <3>1 DEF CallAccesses
  <2> QED BY <2>1, <2>2
<1> QED BY <1>5, <1>6, PointHead

---------------------------------------------------------------------------
(* The power fails *)

\* What the flash says stays true if no mark goes.
LEMMA PowerFlash ==
  ASSUME FlashInv, MarksStay, mode' = "reset", trial' = trial, confirmed' = confirmed, asked' = asked,
         harm'.stale = harm.stale, SlotOk' <=> SlotOk, Request' <=> Request, Whole' <=> Whole
  PROVE  FlashInv'
<1>1. (Requested' <=> Requested) /\ (Fits' <=> Fits) /\ (Revertible' <=> Revertible)
      /\ (Replaced => Replaced')
  BY MarksKnown DEF Requested, Fits, Revertible, Replaced
<1> QED BY <1>1, MarksKnown DEF FlashInv

LEMMA ResetPoint ==
  ASSUME todo' = <<>>, mode' = "reset", ~slot'[Secondary].image_ok, Known(FlashInv)'
  PROVE  PointInv'
  BY DEF PointInv, Stage

LEMMA PowerKeeps ==
  ASSUME Inv, RowsInv, RowsInv', PointInv, PowerFailure
  PROVE  PointInv'
<1>0. (FlashInv \/ harm.area) /\ ~slot[Secondary].image_ok
  BY DEF PointInv, Known
<1>1. PowerFails /\ todo' = <<>> /\ mode' = "reset" /\ trial' = trial /\ confirmed' = confirmed
  BY DEF PowerFailure, PowerFailsBetween, PowerFailsInUpdate, PowerFailsInWrite, PowerFailsInErase,
         PowerFailsInMagic, PowerFailsInSlot, PowerFails
<1>2. StatusInv
  BY DEF Inv, TypeOK, StatusInv
<1>3. CASE PowerFailsBetween \/ PowerFailsInUpdate \/ PowerFailsInWrite
  <2>1. /\ \/ CutBetween \/ CutWrite
           \/ CutErase(Head(todo).at) /\ Running("status")
        /\ slot' = slot /\ image' = image /\ asked' = asked
        /\ (harm' = harm) \/ (\E first : harm' = [harm EXCEPT !.first = first])
    BY <1>3 DEF PowerFailsBetween, PowerFailsInUpdate, PowerFailsInWrite, flash
  <2>2. Running("status") => Head(todo).at \in Records
    BY RunningTyped DEF Inv
  <2>3. MarksStay
    BY <1>2, <2>1, <2>2, CutStays
  <2>4. harm'.stale = harm.stale /\ harm'.area = harm.area
    BY <2>1 DEF Inv, TypeOK
  <2>5. (SlotOk' <=> SlotOk) /\ (SlotGood' <=> SlotGood) /\ (Whole' <=> Whole)
    BY <2>1 DEF SlotOk, SlotGood, Whole
  <2>6. Request' <=> Request
    BY <2>3, <2>5, MarksKnown DEF Request
  <2>7. Known(FlashInv)'
    BY <1>0, <1>1, <2>1, <2>3, <2>4, <2>5, <2>6, PowerFlash DEF Known
  <2> QED BY <1>0, <1>1, <2>1, <2>7, ResetPoint
<1>4. CASE PowerFailsInErase
  <2>1. harm'.area /\ slot' = slot
    BY <1>4 DEF PowerFailsInErase, flash, Inv, TypeOK
  <2> QED BY <1>0, <1>1, <2>1, ResetPoint DEF Known
<1>5. CASE PowerFailsInMagic
  <2>1. CutBetween /\ harm' = harm /\ asked' = asked /\ (Whole' <=> Whole)
        /\ todo # <<>> /\ Head(todo).op = "slot" /\ slot' = [slot EXCEPT ![Head(todo).at].magic = "bad"]
    BY <1>5 DEF PowerFailsInMagic, Running, Whole
  <2>2. MarksStay
    BY <1>2, <2>1, CutStays
  <2>3. Head(todo).at \in Areas
    BY <1>5, RunningTyped DEF PowerFailsInMagic, Inv
  <2>4. \A a \in Areas : slot[a] \in [magic : {"unset", "good", "bad"}, image_ok : BOOLEAN]
    BY DEF Inv, TypeOK
  <2>5. /\ \A a \in Areas : slot'[a].image_ok = slot[a].image_ok
        /\ Head(todo).at # Secondary => slot'[Secondary] = slot[Secondary]
        /\ Head(todo).at = Secondary => slot'[Secondary].magic = "bad"
    BY <2>1, <2>3, <2>4, Names DEF Inv, TypeOK
  <2>6. (SlotOk' <=> SlotOk) /\ ~slot'[Secondary].image_ok
    BY <1>0, <2>5, Names DEF SlotOk
  <2>7. ~harm.area => (SlotGood' <=> SlotGood)
    BY <2>1, <2>5, SlotOps DEF SlotGood, Known
  <2>8. Known(FlashInv)'
    <3> SUFFICES ASSUME ~harm.area PROVE FlashInv'
      BY <2>1 DEF Known
    <3>1. Request' <=> Request
      BY <2>2, <2>7, MarksKnown DEF Request
    <3> QED BY <1>0, <1>1, <2>1, <2>2, <2>6, <3>1, PowerFlash
  <2> QED BY <1>1, <2>6, <2>8, ResetPoint
<1>6. CASE PowerFailsInSlot
  <2>1. CutBetween /\ harm' = harm /\ slot' = slot /\ asked' = "none" /\ todo # <<>>
        /\ Head(todo).op = "erase_slot" /\ image' = [image EXCEPT ![Secondary] = NoImage]
    BY <1>6 DEF PowerFailsInSlot, Running
  <2>2. MarksStay
    BY <1>2, <2>1, CutStays
  <2>3. ~Whole' /\ (SlotOk' <=> SlotOk)
    BY <2>1, Names DEF Whole, SlotOk, Inv, TypeOK
  <2>4. Known(FlashInv)'
    <3> SUFFICES ASSUME ~harm.area PROVE FlashInv'
      BY <2>1 DEF Known
    <3>1. FlashInv /\ ~Unfinished /\ ~Replaced
      BY <1>0, <2>1, SlotOps DEF Known, Replaced
    <3>2. Revertible' <=> Revertible
      BY <2>2, <2>3, MarksKnown DEF Revertible
    <3> QED BY <1>1, <2>1, <2>2, <2>3, <3>1, <3>2, MarksKnown DEF FlashInv
  <2> QED BY <1>0, <1>1, <2>1, <2>4, ResetPoint
<1> QED BY <1>3, <1>4, <1>5, <1>6 DEF PowerFailure

---------------------------------------------------------------------------
(* The functions start *)

\* What is done to the flash before the first access: nothing.
Starts == UNCHANGED <<copies, slot, image, asked, trial, confirmed>> /\ harm'.area = harm.area

LEMMA StartsStay ==
  ASSUME Starts, RowsInv, RowsInv'
  PROVE  /\ MarksStay /\ slot' = slot /\ (SlotGood' <=> SlotGood) /\ (SlotOk' <=> SlotOk)
         /\ (Whole' <=> Whole) /\ (Request' <=> Request) /\ (Revertible' <=> Revertible)
<1>1. MarksStay
  BY HeldMarksStay DEF Starts
<1>2. (SlotGood' <=> SlotGood) /\ (SlotOk' <=> SlotOk) /\ (Whole' <=> Whole)
  BY DEF Starts, SlotGood, SlotOk, Whole
<1> QED BY <1>1, <1>2, MarksKnown DEF Starts, Request, Revertible

LEMMA StartsFlash ==
  ASSUME Starts, RowsInv, RowsInv', FlashInv, harm.stale => harm'.stale,
         Replaced => mode' # "app" /\ ~(mode' = "boot" /\ todo' = <<>>)
  PROVE  FlashInv'
<1>1. asked' = asked /\ trial' = trial /\ confirmed' = confirmed
  BY DEF Starts
<1>2. (Replaced => Replaced') /\ (Requested => Requested') /\ (Fits => Fits')
  BY <1>1, StartsStay, MarksKnown DEF Replaced, Requested, Fits
<1> QED BY <1>1, <1>2, StartsStay, MarksKnown DEF FlashInv

\* Between the functions no swap is unfinished.
LEMMA IdlePoint ==
  ASSUME PointInv, todo = <<>>, mode \in {"boot", "app"}
  PROVE  Known(~Unfinished)
<1>1. ~Finishing
  BY FinishPoints DEF Finishing, Is
<1>2. ~Starting
  BY StartPoints DEF Starting, Is, Reading, ReadingSecondary
<1>3. OtherBoot => Known(~Unfinished)
  BY OtherPoints DEF OtherBoot, Is, Known
<1> QED BY <1>1, <1>2, <1>3 DEF PointInv, Stage

\* What boot_read_swap_state() writes.
LEMMA ReadsSecondary ==
  ASSUME Inv, ~slot[Secondary].image_ok
  PROVE  ReadSwapState(Secondary) =
           CASE ~SMagic /\ slot[Secondary].magic = "good" -> <<KeepMagic, EraseTrailer(Secondary)>>
             [] ~SMagic /\ slot[Secondary].magic = "bad"  -> <<EraseTrailer(Secondary)>>
             [] OTHER -> <<>>
<1>1. ~OkInSlot(Secondary)
  BY DEF OkInSlot
<1>2. MagicInSlot(Secondary) <=> ~SMagic /\ slot[Secondary].magic # "unset"
  BY DEF MagicInSlot, SMagic
<1>3. slot[Secondary].magic \in {"unset", "good", "bad"}
  BY Names DEF Inv, TypeOK
<1>4. KeepMagic \in AnAccess /\ EraseTrailer(Secondary) \in AnAccess
  BY ItemsTyped, Names
<1>5. ReadSwapState(Secondary) =
           When(MagicInSlot(Secondary) /\ slot[Secondary].magic = "good", <<KeepMagic>>)
        \o <<>> \o When(MagicInSlot(Secondary), <<EraseTrailer(Secondary)>>)
  BY <1>1 DEF ReadSwapState, When, KeepMagic
<1> HIDE DEF AnAccess
<1> QED BY <1>2, <1>3, <1>4, <1>5 DEF When

LEMMA ReadsPrimary ==
  ReadSwapState(Primary) = IF ~POk /\ PDone /\ SlotOk THEN <<KeepOk>> ELSE <<>>
<1>1. ~MagicInSlot(Primary)
  BY Names DEF MagicInSlot
<1>2. OkInSlot(Primary) <=> ~POk /\ PDone /\ SlotOk
  BY DEF OkInSlot, CopyDone, POk, PDone, SlotOk
<1>3. ReadSwapState(Primary) = <<>> \o When(OkInSlot(Primary), <<KeepOk>>) \o <<>>
  BY <1>1 DEF ReadSwapState, When, KeepOk
<1>4. KeepOk \in AnAccess
  BY ItemsTyped
<1> HIDE DEF AnAccess
<1> QED BY <1>2, <1>3, <1>4 DEF When

\* What it returns.
LEMMA StateIs ==
  ASSUME Inv, ~slot[Secondary].image_ok
  PROVE  LET s == SwapState(Secondary)
             p == SwapState(Primary)
         IN  /\ s.magic = "good" <=> Request
             /\ s.magic = "unset" <=> ~SMagic /\ slot[Secondary].magic = "unset"
             /\ s.magic = "bad" <=> ~SMagic /\ slot[Secondary].magic = "bad"
             /\ s.image_ok <=> SOk
             /\ p.magic = "good" <=> PMagic
             /\ p.copy_done <=> PDone
             /\ p.image_ok <=> POk \/ (PDone /\ SlotOk)
<1>1. ~OkInSlot(Secondary) /\ ~MagicInSlot(Primary)
  BY Names DEF OkInSlot, MagicInSlot
<1>2. MagicInSlot(Secondary) <=> ~SMagic /\ slot[Secondary].magic # "unset"
  BY DEF MagicInSlot, SMagic
<1>3. slot[Secondary].magic \in {"unset", "good", "bad"}
  BY Names DEF Inv, TypeOK
<1>4. SwapState(Secondary).magic = IF SMagic THEN "good" ELSE slot[Secondary].magic
  BY <1>2, <1>3 DEF SwapState, SMagic
<1>5. SwapState(Primary).magic = IF PMagic THEN "good" ELSE "unset"
  BY <1>1 DEF SwapState, PMagic
<1>6. SwapState(Secondary).image_ok <=> SOk
  <2>1. SwapState(Secondary).image_ok = (Field(Secondary, "image_ok") # Erased \/ OkInSlot(Secondary))
    BY DEF SwapState
  <2> QED BY <1>1, <2>1 DEF SOk
<1>7. SwapState(Primary).copy_done <=> PDone
  <2>1. SwapState(Primary).copy_done = CopyDone(Primary)
    BY DEF SwapState
  <2> QED BY <2>1 DEF CopyDone, PDone
<1>8. SwapState(Primary).image_ok <=> POk \/ (PDone /\ SlotOk)
  <2>1. SwapState(Primary).image_ok = (Field(Primary, "image_ok") # Erased \/ OkInSlot(Primary))
    BY DEF SwapState
  <2>2. OkInSlot(Primary) <=> ~POk /\ PDone /\ SlotOk
    BY DEF OkInSlot, CopyDone, POk, PDone, SlotOk
  <2> QED BY <2>1, <2>2 DEF POk
<1> QED BY <1>3, <1>4, <1>5, <1>6, <1>7, <1>8 DEF Request, SlotGood

LEMMA Joins ==
  ASSUME NEW x, NEW y, NEW z
  PROVE  /\ <<>> \o <<>> = <<>> /\ <<>> \o <<x>> = <<x>> /\ <<x>> \o <<>> = <<x>>
         /\ <<x>> \o <<y>> = <<x, y>> /\ <<x>> \o <<>> \o <<y>> = <<x, y>>
         /\ <<x>> \o <<y>> \o <<z>> = <<x, y, z>>
<1> DEFINE S == {x, y, z}
           c == <<x>> \o <<y>>
           d == <<x, y>>
           e == <<x, y>> \o <<z>>
           f == <<x, y, z>>
<1>1. x \in S /\ y \in S /\ z \in S
  OBVIOUS
<1> HIDE DEF S
<1>2. c \in Seq(S) /\ Len(c) = 2 /\ c[1] = x /\ c[2] = y
  BY <1>1
<1>3. d \in Seq(S) /\ Len(d) = 2 /\ d[1] = x /\ d[2] = y
  BY <1>1
<1>4. e \in Seq(S) /\ Len(e) = 3 /\ e[1] = x /\ e[2] = y /\ e[3] = z
  BY <1>1
<1>5. f \in Seq(S) /\ Len(f) = 3 /\ f[1] = x /\ f[2] = y /\ f[3] = z
  BY <1>1
<1>6. <<>> \o <<>> = <<>> /\ <<>> \o <<x>> = <<x>> /\ <<x>> \o <<>> = <<x>>
  BY <1>1
<1> HIDE DEF c, d, e, f
<1>7. c = d
  BY <1>2, <1>3, SeqEqual
<1>8. e = f
  BY <1>4, <1>5, SeqEqual
<1> QED BY <1>6, <1>7, <1>8 DEF c, d, e, f

\* The application calls a function.
LEMMA ApplicationKeeps ==
  ASSUME Inv, RowsInv, RowsInv', PointInv, Application
  PROVE  PointInv'
<1>0. Idle /\ (FlashInv \/ harm.area) /\ ~slot[Secondary].image_ok /\ Known(~Unfinished)
      /\ harm \in [first : SUBSET Records, area : BOOLEAN, stale : BOOLEAN]
  BY IdlePoint DEF Application, Download, cy_ota_storage_validated, boot_set_pending, boot_set_confirmed,
     Restart, PointInv, Known, Idle, Inv, TypeOK
<1>1. ASSUME mode' = "app", Starts, harm.stale => harm'.stale
      PROVE  Known(FlashInv)' /\ Known(~Unfinished)' /\ ~slot'[Secondary].image_ok
  <2>1. ~Replaced
    BY <1>0 DEF Replaced, Idle
  <2> QED BY <1>0, <1>1, <2>1, StartsFlash, StartsStay, MarksKnown DEF Known, Starts
<1>2. CASE Download
  <2>1. mode' = "app" /\ Starts /\ harm'.stale = (harm.stale \/ Field(Secondary, "magic") # Erased)
        /\ todo' = <<EraseSlot, FillSlot, SlotWrite(Secondary, "magic", "TEST")>>
    BY <1>0, <1>2 DEF Download, Call, Starts, flash, Idle, EraseSlot, FillSlot
  <2>2. harm'.stale <=> harm.stale \/ SMagic
    BY <2>1, Zenon DEF SMagic
  <2>3. Known(~harm.stale => ~SMagic)'
    BY <2>1, <2>2, StartsStay, MarksKnown DEF Known
  <2>4. Calling'
    BY <2>1, <2>3 DEF Calling
  <2> QED BY <1>1, <2>1, <2>2, <2>4, CallPoint
<1>3. CASE cy_ota_storage_validated
  <2>1. mode' = "app" /\ Starts /\ harm' = harm
        /\ todo' = <<SlotWrite(Primary, "magic", "-"), SlotWrite(Primary, "image_ok", "confirm")>>
    BY <1>0, <1>3 DEF cy_ota_storage_validated, Call, Starts, flash, history, Idle
  <2> QED BY <1>1, <2>1, CallPoint DEF Calling
<1>4. ASSUME NEW permanent \in BOOLEAN, boot_set_pending(permanent) PROVE PointInv'
  <2> DEFINE s == SwapState(Secondary)
             type == IF permanent THEN "PERM" ELSE "TEST"
             rest == CASE s.magic = "good"  -> <<>>
                       [] s.magic = "unset" -> <<AskItem>> \o When(permanent, <<AskPerm>>)
                                                 \o <<AskInfo(type)>>
                       [] s.magic = "bad"   -> <<EraseSlot>>
  <2>1. mode' = "app" /\ Starts /\ harm' = harm /\ todo' = ReadSwapState(Secondary) \o rest
    BY <1>0, <1>4 DEF boot_set_pending, Call, Starts, flash, history, Idle, AskItem, AskPerm, AskInfo,
                      EraseSlot
  <2>2. Known(FlashInv)' /\ Known(~Unfinished)' /\ ~slot'[Secondary].image_ok
    BY <1>1, <2>1
  <2>3. {KeepMagic, AskItem, AskPerm, AskInfo(type), EraseSlot, EraseTrailer(Secondary)} \subseteq AnAccess
    BY ItemsTyped, Names
  <2>4. slot[Secondary].magic \in {"unset", "good", "bad"}
    BY Names DEF Inv, TypeOK
  <2>5. CASE SMagic
    <3>1. ReadSwapState(Secondary) = <<>> /\ s.magic = "good"
      BY <1>0, <2>5, ReadsSecondary, StateIs DEF Request
    <3>2. todo' = <<>>
      BY <2>1, <3>1
    <3> QED BY <2>2, <3>2, EndPoint
  <2>6. CASE ~SMagic /\ slot[Secondary].magic = "good"
    <3>1. ReadSwapState(Secondary) = <<KeepMagic, EraseTrailer(Secondary)>> /\ s.magic = "good"
      BY <1>0, <2>6, ReadsSecondary, StateIs DEF Request, SlotGood
    <3>2. todo' = <<KeepMagic, EraseTrailer(Secondary)>>
      BY <2>1, <2>3, <3>1
    <3>3. SlotGood'
      BY <2>1, <2>6, StartsStay DEF SlotGood
    <3>4. Reading(<<>>)'
      <4>1. Is(Tail(todo'), EraseTrailer(Secondary), <<>>) /\ Head(todo') = KeepMagic /\ todo' # <<>>
        BY <3>2, OtherPoints DEF Is
      <4> QED BY <3>3, <4>1 DEF Reading, ReadingSecondary
    <3> QED BY <2>1, <2>2, <3>4, CallPoint DEF Calling
  <2>7. CASE ~SMagic /\ slot[Secondary].magic = "bad"
    <3>1. ReadSwapState(Secondary) = <<EraseTrailer(Secondary)>> /\ s.magic = "bad"
      BY <1>0, <2>7, ReadsSecondary, StateIs
    <3>2. todo' = <<EraseTrailer(Secondary), EraseSlot>>
      BY <2>1, <3>1, Joins
    <3>3. ~SlotGood'
      BY <2>1, <2>7, StartsStay DEF SlotGood
    <3>4. Reading(<<EraseSlot>>)'
      <4>1. Is(todo', EraseTrailer(Secondary), <<EraseSlot>>)
        BY <3>2, OtherPoints
      <4> QED BY <3>3, <4>1 DEF Reading, ReadingSecondary
    <3> QED BY <2>1, <2>2, <3>4, CallPoint DEF Calling
  <2>8. CASE ~SMagic /\ slot[Secondary].magic = "unset"
    <3>1. ReadSwapState(Secondary) = <<>> /\ s.magic = "unset"
      BY <1>0, <2>8, ReadsSecondary, StateIs
    <3>2. todo' = <<AskItem>> \o When(permanent, <<AskPerm>>) \o <<AskInfo(type)>>
      BY <2>1, <2>3, <3>1 DEF When
    <3>3. Known(~SMagic)'
      BY <2>1, <2>8, StartsStay, MarksKnown DEF Known
    <3>4. Calling'
      <4>1. CASE permanent
        <5>1. todo' = <<AskItem, AskPerm, AskInfo("PERM")>>
          BY <3>2, <4>1, Joins DEF When
        <5> QED BY <3>3, <5>1 DEF Calling
      <4>2. CASE ~permanent
        <5>1. todo' = <<AskItem, AskInfo("TEST")>>
          BY <3>2, <4>2, Joins DEF When
        <5> QED BY <3>3, <5>1 DEF Calling
      <4> QED BY <4>1, <4>2
    <3> QED BY <2>1, <2>2, <3>4, CallPoint
  <2> QED BY <2>4, <2>5, <2>6, <2>7, <2>8
<1>5. CASE boot_set_confirmed
  <2> DEFINE p == SwapState(Primary)
             rest == When(p.magic = "good" /\ p.copy_done /\ ~p.image_ok, <<ConfirmItem>>)
  <2>1. mode' = "app" /\ Starts /\ harm' = harm /\ todo' = ReadSwapState(Primary) \o rest
    BY <1>0, <1>5 DEF boot_set_confirmed, Call, Starts, flash, history, Idle, ConfirmItem
  <2>2. Known(FlashInv)' /\ Known(~Unfinished)' /\ ~slot'[Secondary].image_ok
    BY <1>1, <2>1
  <2>3. CASE ~POk /\ PDone /\ SlotOk
    <3>1. todo' = <<KeepOk>>
      BY <1>0, <2>1, <2>3, Joins, ReadsPrimary, StateIs DEF When
    <3>2. SlotOk'
      BY <2>1, <2>3, StartsStay
    <3>3. Reading(<<>>)'
      <4>1. todo' # <<>> /\ Head(todo') = KeepOk /\ Tail(todo') = <<>>
        BY <3>1
      <4> QED BY <3>2, <4>1 DEF Reading, ReadingSecondary
    <3> QED BY <2>1, <2>2, <3>3, CallPoint DEF Calling
  <2>4. CASE ~(~POk /\ PDone /\ SlotOk)
    <3>1. todo' = <<ConfirmItem>> \/ todo' = <<>>
      BY <2>1, <2>4, Joins, ReadsPrimary DEF When
    <3>2. todo' = <<ConfirmItem>> => Calling'
      BY DEF Calling
    <3> QED BY <2>1, <2>2, <3>1, <3>2, CallPoint, EndPoint
  <2> QED BY <2>3, <2>4
<1>6. CASE Restart
  <2>1. Starts /\ harm' = harm /\ todo' = <<>> /\ mode' = "reset" /\ slot' = slot
    BY <1>0, <1>6 DEF Restart, Starts, flash, history, Idle
  <2>2. Known(FlashInv)'
    BY <1>0, <2>1, StartsFlash DEF Known
  <2> QED BY <1>0, <2>1, <2>2, ResetPoint
<1> QED BY <1>2, <1>3, <1>4, <1>5, <1>6 DEF Application

\* The loader starts the application.
LEMMA StartAppKeeps ==
  ASSUME Inv, RowsInv, RowsInv', PointInv, StartApp
  PROVE  PointInv'
<1>1. Starts /\ harm' = harm /\ todo' = <<>> /\ mode' = "app" /\ slot' = slot
      /\ Known(~Unfinished) /\ ~Replaced
  BY IdlePoint DEF StartApp, Starts, flash, history, Replaced
<1>2. Known(FlashInv)' /\ Known(~Unfinished)'
  BY <1>1, StartsFlash, StartsStay, MarksKnown DEF Known, PointInv
<1> QED BY <1>1, <1>2, EndPoint DEF PointInv

\* How sequences of accesses are joined.
LEMMA Associative ==
  ASSUME NEW s \in Seq(AnAccess), NEW t \in Seq(AnAccess), NEW u \in Seq(AnAccess)
  PROVE  (s \o t) \o u = s \o (t \o u)
  BY ConcatAssociative

---------------------------------------------------------------------------
(* The loader decides *)

\* What is left to do of a swap that was started, or of one to start.
LEMMA StepsAre ==
  /\ FinishSwap = Finish5
  /\ Exchange \o FinishSwap = Finish6
  /\ EraseTrailerSectors(Secondary) = Remove2
  /\ \A type \in {"TEST", "PERM"}, ok \in BOOLEAN :
       EraseTrailerSectors(Primary) \o StatusInitSteps(type, ok) \o Exchange \o FinishSwap
         = Start6(type, ok)
<1>0. \A a \in Areas : EraseTrailer(a) \in AnAccess /\ EraseStatus(a) \in AnAccess
  BY ItemsTyped
<1>1. {CopyItem, DoneItem, ExchangeItem, MagicItem, SizeItem, KeepOk} \subseteq AnAccess
      /\ \A type \in {"TEST", "PERM"} : InfoItem(type) \in AnAccess
  BY ItemsTyped
<1>2. EraseTrailerSectors(Secondary) = Remove2
  BY DEF EraseTrailerSectors, Remove2
<1> HIDE DEF AnAccess
<1>3. FinishSwap = Finish5
  <2> DEFINE e == EraseStatus(Secondary)
             f == EraseTrailer(Secondary)
             g == EraseTrailer(Primary)
             c == <<e, f>> \o <<g, CopyItem, DoneItem>>
             d == <<e, f, g, CopyItem, DoneItem>>
  <2>1. e \in AnAccess /\ f \in AnAccess /\ g \in AnAccess
    BY <1>0, Names
  <2>2. FinishSwap = c /\ Finish5 = d
    BY DEF FinishSwap, EraseTrailerSectors, CopyDoneSteps, CopyItem, DoneItem, Finish5
  <2> HIDE DEF e, f, g
  <2>3. c \in Seq(AnAccess) /\ Len(c) = 5 /\ c[1] = e /\ c[2] = f /\ c[3] = g /\ c[4] = CopyItem
        /\ c[5] = DoneItem
    BY <1>1, <2>1
  <2>4. d \in Seq(AnAccess) /\ Len(d) = 5 /\ d[1] = e /\ d[2] = f /\ d[3] = g /\ d[4] = CopyItem
        /\ d[5] = DoneItem
    BY <1>1, <2>1
  <2> HIDE DEF c, d
  <2>5. c = d
    BY <2>3, <2>4, SeqEqual
  <2> QED BY <2>2, <2>5
<1>4. Finish5 \in Seq(AnAccess) /\ Finish6 \in Seq(AnAccess)
  BY FinishPoints, FinishTyped, <1>3 DEF AnAccess
<1>5. Exchange \o FinishSwap = Finish6
  <2>1. Exchange = <<ExchangeItem>>
    BY DEF Exchange, ExchangeItem
  <2> DEFINE c == <<ExchangeItem>> \o Finish5
             S == {ExchangeItem, EraseStatus(Secondary), EraseTrailer(Secondary), EraseTrailer(Primary),
                   CopyItem, DoneItem}
  <2>2. c \in Seq(S) /\ Len(c) = 6 /\ c[1] = ExchangeItem /\ c[2] = EraseStatus(Secondary)
        /\ c[3] = EraseTrailer(Secondary) /\ c[4] = EraseTrailer(Primary) /\ c[5] = CopyItem
        /\ c[6] = DoneItem
    BY DEF Finish5
  <2>3. Finish6 \in Seq(S) /\ Len(Finish6) = 6 /\ Finish6[1] = ExchangeItem
        /\ Finish6[2] = EraseStatus(Secondary) /\ Finish6[3] = EraseTrailer(Secondary)
        /\ Finish6[4] = EraseTrailer(Primary) /\ Finish6[5] = CopyItem /\ Finish6[6] = DoneItem
    BY DEF Finish6
  <2> HIDE DEF c, S
  <2>4. c = Finish6
    BY <2>2, <2>3, SeqEqual
  <2> QED BY <1>3, <2>1, <2>4 DEF c
<1>6. ASSUME NEW type \in {"TEST", "PERM"}, NEW ok \in BOOLEAN
      PROVE  EraseTrailerSectors(Primary) \o StatusInitSteps(type, ok) \o Exchange \o FinishSwap
               = Start6(type, ok)
  <2> DEFINE e == EraseTrailerSectors(Primary)
             i == StatusInitSteps(type, ok)
             k == When(ok, <<KeepOk>>)
  <2>1. e = <<EraseStatus(Primary)>> \o <<EraseTrailer(Primary)>>
        /\ <<EraseStatus(Primary)>> \in Seq(AnAccess) /\ <<EraseTrailer(Primary)>> \in Seq(AnAccess)
    BY <1>0, Names, Joins DEF EraseTrailerSectors
  <2>2. i = <<InfoItem(type)>> \o k \o (<<SizeItem>> \o <<MagicItem>>)
    BY Joins DEF StatusInitSteps, InfoItem, KeepOk, SizeItem, MagicItem
  <2>3. <<InfoItem(type)>> \in Seq(AnAccess) /\ <<SizeItem>> \in Seq(AnAccess)
        /\ <<MagicItem>> \in Seq(AnAccess) /\ <<ExchangeItem>> \in Seq(AnAccess) /\ <<KeepOk>> \in Seq(AnAccess)
        /\ k \in Seq(AnAccess)
    BY <1>1 DEF When
  <2>4. Start1 = <<MagicItem>> \o Finish6 /\ Start2 = <<SizeItem>> \o Start1
        /\ Start1 \in Seq(AnAccess) /\ Start2 \in Seq(AnAccess)
    BY <1>4, <2>3 DEF Start1, Start2
  <2>5. (IF ok THEN Start3 ELSE Start2) = k \o Start2
    BY <2>4 DEF When, Start3
  <2>6. e \o i \o Exchange \o FinishSwap = (e \o i) \o Finish6
    <3>1. e \in Seq(AnAccess) /\ i \in Seq(AnAccess) /\ Exchange \in Seq(AnAccess) /\ FinishSwap \in Seq(AnAccess)
      BY <1>3, <1>4, <2>1, <2>2, <2>3, FinishTyped DEF AnAccess
    <3>2. e \o i \in Seq(AnAccess)
      BY <3>1
    <3> HIDE DEF e, i
    <3> QED BY <1>5, <3>1, <3>2, Associative
  <2>7. i \o Finish6 = Start4(type, ok)
    <3> DEFINE m == <<InfoItem(type)>>
               z == <<SizeItem>>
               w == <<MagicItem>>
               x == m \o k
               y == z \o w
    <3>1. /\ m \in Seq(AnAccess) /\ k \in Seq(AnAccess) /\ z \in Seq(AnAccess) /\ w \in Seq(AnAccess)
          /\ x \in Seq(AnAccess) /\ y \in Seq(AnAccess)
      BY <2>3
    <3>2. i = x \o y /\ Start2 = z \o (w \o Finish6)
      BY <2>2, <2>4
    <3> HIDE DEF k, m, z, w
    <3>3. Finish6 \in Seq(AnAccess) /\ z \in Seq(AnAccess) /\ w \in Seq(AnAccess)
      BY <1>4, <3>1
    <3>4. m \in Seq(AnAccess) /\ k \in Seq(AnAccess) /\ Start2 \in Seq(AnAccess)
      BY <2>4, <3>1
    <3>5. y \o Finish6 = Start2
      BY <3>2, <3>3, Associative
    <3>6. x \o Start2 = m \o (k \o Start2)
      BY <3>4, Associative
    <3>7. Finish6 \in Seq(AnAccess) /\ x \in Seq(AnAccess) /\ y \in Seq(AnAccess)
      BY <1>4, <3>1
    <3> HIDE DEF i, x, y
    <3>8. i \o Finish6 = x \o (y \o Finish6)
      BY <3>2, <3>7, Associative
    <3> QED BY <2>5, <3>5, <3>6, <3>8 DEF Start4, m
  <2>8. (e \o i) \o Finish6 = Start6(type, ok)
    <3> DEFINE m == <<EraseStatus(Primary)>>
               z == <<EraseTrailer(Primary)>>
               u == Start4(type, ok)
    <3>1. i \in Seq(AnAccess)
      BY <2>2, <2>3
    <3>2. u \in Seq(AnAccess)
      <4> HIDE DEF i, u
      <4>1. i \o Finish6 \in Seq(AnAccess)
        BY <1>4, <3>1
      <4> QED BY <2>7, <4>1 DEF u
    <3>3. m \in Seq(AnAccess) /\ z \in Seq(AnAccess) /\ m \o z \in Seq(AnAccess) /\ e = m \o z
      BY <2>1
    <3> HIDE DEF i, m, z, e, u
    <3>4. m \o z \in Seq(AnAccess) /\ Finish6 \in Seq(AnAccess)
      BY <1>4, <3>3
    <3>5. (e \o i) \o Finish6 = e \o u
      <4> DEFINE v == m \o z
      <4> HIDE DEF v
      <4>1. (v \o i) \o Finish6 = v \o (i \o Finish6)
        BY <3>1, <3>4, Associative DEF v
      <4> QED BY <2>7, <3>3, <4>1 DEF u, v
    <3>6. e \o u = m \o (z \o u)
      BY <3>2, <3>3, Associative
    <3> QED BY <3>5, <3>6 DEF m, z, u, Start5, Start6
  <2> QED BY <2>6, <2>8
<1> QED BY <1>2, <1>3, <1>5, <1>6

\* Reading both states, before t.
LEMMA ReadsBoth ==
  ASSUME Inv, RowsInv, RowsInv', Starts, ~slot[Secondary].image_ok, NEW t \in Seq(AnAccess),
         todo' = ReadBoth \o t
  PROVE  Reading(t)'
<1> DEFINE r == ReadSwapState(Secondary)
           q == ReadSwapState(Primary)
           f == EraseTrailer(Secondary)
<1>0. q \in Seq(AnAccess) /\ r \in Seq(AnAccess) /\ f \in AnAccess /\ KeepOk \in AnAccess
      /\ KeepMagic \in AnAccess
  BY ReadTyped, ItemsTyped, Names DEF AnAccess
<1>1. ASSUME NEW s, s = r \o t PROVE ReadingSecondary(s, t)'
  <2>1. (SlotGood' <=> SlotGood) /\ (SMagic' <=> SMagic)
    BY StartsStay, MarksKnown
  <2>2. CASE ~SMagic /\ slot[Secondary].magic = "good"
    <3>1. r = <<KeepMagic, f>> /\ SlotGood
      BY <2>2, ReadsSecondary DEF SlotGood
    <3>2. <<KeepMagic, f>> = <<KeepMagic>> \o <<f>> /\ <<KeepMagic>> \in Seq(AnAccess)
          /\ <<f>> \in Seq(AnAccess)
      BY <1>0, Joins
    <3>3. s = <<KeepMagic>> \o (<<f>> \o t)
      BY <1>1, <3>1, <3>2, Associative
    <3>4. Is(<<f>> \o t, f, t) /\ <<f>> \o t \in Seq(AnAccess)
      BY <1>0, FirstOf
    <3>5. Is(s, KeepMagic, <<f>> \o t)
      BY <1>0, <3>3, <3>4, FirstOf
    <3> QED BY <2>1, <3>1, <3>4, <3>5 DEF ReadingSecondary, Is
  <2>3. CASE ~SMagic /\ slot[Secondary].magic = "bad"
    <3>1. r = <<f>> /\ ~SlotGood
      BY <2>3, ReadsSecondary DEF SlotGood
    <3>2. Is(s, f, t)
      BY <1>0, <1>1, <3>1, FirstOf
    <3> QED BY <2>1, <3>1, <3>2 DEF ReadingSecondary
  <2>4. CASE SMagic \/ slot[Secondary].magic = "unset"
    <3>1. r = <<>>
      BY <2>4, ReadsSecondary
    <3>2. s = t
      BY <1>1, <3>1, ConcatEmptySeq
    <3> QED BY <3>2 DEF ReadingSecondary
  <2>5. slot[Secondary].magic \in {"unset", "good", "bad"}
    BY Names DEF Inv, TypeOK
  <2> QED BY <2>2, <2>3, <2>4, <2>5
<1>2. todo' = q \o (r \o t)
  BY <1>0, Associative DEF ReadBoth
<1>3. r \o t \in Seq(AnAccess)
  <2> HIDE DEF AnAccess
  <2> QED BY <1>0
<1>4. PICK s : s = r \o t
  OBVIOUS
<1>5. ReadingSecondary(s, t)'
  BY <1>1, <1>4
<1>6. CASE q = <<>>
  <2>1. todo' = s
    BY <1>2, <1>3, <1>4, <1>6, ConcatEmptySeq
  <2> QED BY <1>5, <2>1 DEF Reading, ReadingSecondary
<1>7. CASE q = <<KeepOk>> /\ SlotOk
  <2>1. Is(todo', KeepOk, s)
    BY <1>0, <1>2, <1>3, <1>4, <1>7, FirstOf
  <2>2. SlotOk'
    BY <1>7, StartsStay
  <2> QED BY <1>5, <2>1, <2>2 DEF Reading, ReadingSecondary, Is
<1> QED BY <1>6, <1>7, ReadsPrimary

LEMMA StepsJoined ==
  ASSUME NEW type \in {"TEST", "PERM"}, NEW ok \in BOOLEAN
  PROVE  ReadBoth \o EraseTrailerSectors(Primary) \o StatusInitSteps(type, ok) \o Exchange \o FinishSwap
           = ReadBoth \o Start6(type, ok)
<1> DEFINE r == ReadBoth
           e == EraseTrailerSectors(Primary)
           i == StatusInitSteps(type, ok)
           x == Exchange
           f == FinishSwap
<1>1. r \in Seq(AnAccess) /\ e \in Seq(AnAccess)
  BY ReadTyped, EraseTyped, Names, Joined DEF ReadBoth, AnAccess
<1>2. i \in Seq(AnAccess) /\ x \in Seq(AnAccess) /\ f \in Seq(AnAccess)
  BY InitStepsTyped, FinishTyped, Names DEF AnAccess
<1> HIDE DEF r, e, i, x, f, AnAccess
<1>3. e \o i \in Seq(AnAccess) /\ r \o e \in Seq(AnAccess)
  BY <1>1, <1>2
<1>4. (e \o i) \o x \in Seq(AnAccess)
  BY <1>2, <1>3
<1>5. (r \o e) \o i = r \o (e \o i)
  BY <1>1, <1>2, Associative
<1>6. (r \o (e \o i)) \o x = r \o ((e \o i) \o x)
  BY <1>1, <1>2, <1>3, Associative
<1>7. (r \o ((e \o i) \o x)) \o f = r \o (((e \o i) \o x) \o f)
  BY <1>1, <1>2, <1>4, Associative
<1>8. e \o i \o x \o f = Start6(type, ok)
  BY StepsAre DEF e, i, x, f
<1>9. r \o e \o i \o x \o f = r \o Start6(type, ok)
  BY <1>5, <1>6, <1>7, <1>8
<1> QED BY <1>9 DEF r, e, i, x, f

\* What the loader decides, from the marks.
LEMMA DecisionIs ==
  ASSUME Inv, ~slot[Secondary].image_ok
  PROVE  IF Unreadable(Trailer(Primary)) THEN Decision = "PANIC"
         ELSE IF Unfinished THEN Decision = "RESUME"
         ELSE IF Unreadable(Trailer(Secondary)) THEN Decision = "PANIC"
         ELSE IF Request THEN Decision = IF SOk THEN "PERM" ELSE "TEST"
         ELSE IF ~SMagic /\ slot[Secondary].magic = "unset" /\ PMagic /\ Revertible
         THEN Decision = "REVERT"
         ELSE Decision = "NONE"
<1>1. Interrupted <=> Unfinished
  BY DEF Interrupted, Unfinished, PMagic, CopyDone, PDone
<1>2. SwapType = IF Request THEN (IF SOk THEN "PERM" ELSE "TEST")
                 ELSE IF ~SMagic /\ slot[Secondary].magic = "unset" /\ PMagic /\ Revertible
                 THEN "REVERT" ELSE "NONE"
  <2> DEFINE s == SwapState(Secondary)
             p == SwapState(Primary)
  <2>1. /\ s.magic = "good" <=> Request
        /\ s.magic = "unset" <=> ~SMagic /\ slot[Secondary].magic = "unset"
        /\ s.image_ok <=> SOk
        /\ p.magic = "good" <=> PMagic
        /\ p.copy_done <=> PDone
        /\ p.image_ok <=> POk \/ (PDone /\ SlotOk)
    BY StateIs
  <2>2. SwapType =
          CASE s.magic = "good" /\ ~s.image_ok -> "TEST"
            [] s.magic = "good" /\ s.image_ok  -> "PERM"
            [] s.magic = "unset" /\ p.magic = "good" /\ ~p.image_ok /\ p.copy_done -> "REVERT"
            [] OTHER -> "NONE"
    BY DEF SwapType
  <2> HIDE DEF s, p
  <2> QED BY <2>1, <2>2 DEF Revertible
<1> QED BY <1>1, <1>2 DEF Decision, Readable

LEMMA BootKeeps ==
  ASSUME Inv, RowsInv, RowsInv', PointInv, Boot
  PROVE  PointInv'
<1>0. (FlashInv \/ harm.area) /\ ~slot[Secondary].image_ok /\ mode = "reset"
  BY DEF PointInv, Known, Boot
<1>1. Starts /\ harm' = harm /\ slot' = slot
  BY DEF Boot, Starts, flash, history
<1>2. CASE Decision = "PANIC"
  <2>1. mode' = "panic" /\ todo' = <<>>
    BY <1>2 DEF Boot
  <2>2. Known(FlashInv)'
    BY <1>0, <1>1, <2>1, StartsFlash DEF Known
  <2>3. Stage'
    BY <2>1 DEF Stage
  <2> QED BY <1>0, <1>1, <2>1, <2>2, <2>3 DEF PointInv
<1>3. CASE Decision # "PANIC"
  <2>1. mode' = "boot" /\ todo' = LoaderSteps
    BY <1>3 DEF Boot
  <2>2. ~slot'[Secondary].image_ok
    BY <1>0, <1>1
  <2>3. todo' # <<>> \/ ~Replaced => Known(FlashInv)'
    BY <1>0, <1>1, <2>1, StartsFlash DEF Known
  <2>4. CASE Decision = "RESUME"
    <3>1. Unfinished
      BY <1>0, <2>4, DecisionIs
    <3>2. Known(Unfinished)' /\ (Exchanged' <=> Exchanged)
      BY <1>1, <3>1, StartsStay, MarksKnown DEF Known
    <3>3. LoaderSteps = When(~Exchanged, Exchange) \o FinishSwap
      BY <2>4 DEF LoaderSteps
    <3>4. CASE Exchanged
      <4>1. todo' = Finish5
        BY <2>1, <3>3, <3>4, StepsAre, FinishTyped, ConcatEmptySeq DEF When
      <4> QED BY <2>1, <2>2, <2>3, <3>2, <3>4, <4>1, FinishPoints, LoaderPoint DEF Finishing, Known, Is
    <3>5. CASE ~Exchanged
      <4>1. todo' = Finish6
        BY <2>1, <3>3, <3>5, StepsAre DEF When
      <4> QED BY <2>1, <2>2, <2>3, <3>2, <3>5, <4>1, FinishPoints, LoaderPoint DEF Finishing, Known, Is
    <3> QED BY <3>4, <3>5
  <2>5. CASE Decision \in {"TEST", "PERM", "REVERT"} /\ ~Whole
    <3>1. LoaderSteps = ReadBoth \o EraseTrailerSectors(Secondary)
      BY <2>5 DEF LoaderSteps, Whole
    <3>2. todo' = ReadBoth \o Remove2 /\ Remove2 \in Seq(AnAccess)
      BY <2>1, <3>1, StepsAre, EraseTyped, Names DEF AnAccess
    <3>3. Reading(Remove2)'
      BY <1>0, <1>1, <3>2, ReadsBoth
    <3>4. Known(~Unfinished /\ ~Whole)'
      BY <1>0, <1>1, <2>5, DecisionIs, StartsStay, MarksKnown DEF Known
    <3>5. ~Replaced
      BY <2>5 DEF Replaced
    <3> QED BY <2>1, <2>2, <2>3, <3>3, <3>4, <3>5, LoaderPoint DEF OtherBoot
  <2>6. CASE Decision \in {"TEST", "PERM"} /\ Whole
    <3>1. PICK type \in {"TEST", "PERM"} : type = Decision
      BY <2>6
    <3>2. PICK ok \in BOOLEAN : ok <=> SOk
      OBVIOUS
    <3>3. SwapState(Secondary).image_ok \in BOOLEAN /\ (SwapState(Secondary).image_ok <=> SOk)
      BY <1>0, StateIs DEF SwapState
    <3>4. LoaderSteps = ReadBoth \o EraseTrailerSectors(Primary)
                          \o StatusInitSteps(Decision, SwapState(Secondary).image_ok)
                          \o Exchange \o FinishSwap
      BY <2>6 DEF LoaderSteps, Whole
    <3>5. todo' = ReadBoth \o EraseTrailerSectors(Primary) \o StatusInitSteps(type, ok)
                    \o Exchange \o FinishSwap
      BY <2>1, <3>1, <3>2, <3>3, <3>4
    <3>6. todo' = ReadBoth \o Start6(type, ok)
      BY <3>5, StepsJoined
    <3>7. Reading(Start6(type, ok))'
      BY <1>0, <1>1, <3>6, StartPoints, ReadsBoth
    <3>8. todo' # <<>>
      BY <3>7, StartPoints DEF Reading, ReadingSecondary, Is
    <3>9. ~Unfinished /\ Request /\ (type = "PERM" <=> SOk)
      BY <1>0, <2>6, <3>1, DecisionIs
    <3>10. ~harm.area => FitsType(ok)
      BY <1>0, <2>6, <3>2, <3>9 DEF FlashInv, FitsType, Requested
    <3>11. Known(~Unfinished /\ Whole /\ Request /\ FitsType(ok))'
      BY <1>1, <2>6, <3>9, <3>10, StartsStay, MarksKnown DEF Known, FitsType, Starts
    <3>12. Starting'
      BY <3>7, <3>11 DEF Starting
    <3> QED BY <2>1, <2>2, <2>3, <3>8, <3>12, LoaderPoint
  <2>7. CASE Decision = "REVERT" /\ Whole
    <3>1. ~Unfinished /\ ~Request /\ ~SMagic /\ slot[Secondary].magic = "unset" /\ Revertible
      BY <1>0, <2>7, DecisionIs
    <3>2. ReadBoth = <<>> \o <<>>
      BY <1>0, <3>1, ReadsPrimary, ReadsSecondary DEF ReadBoth, Revertible
    <3>3. LoaderSteps = ReadBoth \o <<RevertItem>>
      BY <2>7 DEF LoaderSteps, Whole, RevertItem
    <3>4. todo' = <<RevertItem>>
      BY <2>1, <3>2, <3>3, Joins
    <3>5. ~harm.area => asked = "none"
      BY <1>0, <2>7, <3>1 DEF FlashInv, Requested
    <3>6. Known(~Unfinished /\ asked = "none" /\ ~Request)'
      BY <1>1, <3>1, <3>5, StartsStay, MarksKnown DEF Known, Starts
    <3>7. ~Replaced
      BY <3>1 DEF Replaced
    <3> QED BY <2>1, <2>2, <2>3, <3>4, <3>6, <3>7, LoaderPoint DEF OtherBoot
  <2>8. CASE Decision = "NONE"
    <3>1. ~Unfinished /\ ~Request /\ ~Replaced
      BY <1>0, <2>8, DecisionIs DEF Replaced
    <3>2. LoaderSteps = ReadBoth
      BY <2>8 DEF LoaderSteps
    <3>3. todo' = ReadBoth \o <<>> /\ <<>> \in Seq(AnAccess)
      <4>1. ReadBoth \in Seq(AnAccess)
        BY ReadTyped, Names, Joined DEF ReadBoth, AnAccess
      <4> QED BY <2>1, <3>2, <4>1, ConcatEmptySeq, Typed0
    <3>4. Reading(<<>>)'
      BY <1>0, <1>1, <3>3, ReadsBoth
    <3>5. ~harm.area => (trial /\ ~harm.stale => Revertible)
      BY <1>0, <3>1 DEF FlashInv
    <3>6. Known(~Unfinished /\ (trial /\ ~harm.stale => Revertible))'
      BY <1>1, <3>1, <3>5, StartsStay, MarksKnown DEF Known, Starts
    <3> QED BY <2>1, <2>2, <2>3, <3>1, <3>4, <3>6, LoaderPoint DEF OtherBoot
  <2> QED BY <1>0, <1>3, <2>4, <2>5, <2>6, <2>7, <2>8, DecisionIs
<1> QED BY <1>2, <1>3

---------------------------------------------------------------------------
(* The inductive invariant is kept *)

\* What is being written is what the access says.
LEMMA WritingKeeps ==
  ASSUME Inv, RowsInv, RowsInv', WritingInv, PointInv, Next
  PROVE  WritingInv'
<1>0. StatusInv /\ (writing # NoRow => mode \in {"boot", "app"} /\ todo # <<>> /\ Head(todo).op = "status")
  BY DEF Inv, TypeOK, StatusInv, WritingInv
<1>1. CASE UpdateBegins
  <2>1. Running("status") /\ BeginUpdate(Head(todo).at, Head(todo).cell, Head(todo).value)
        /\ todo' = todo /\ mode' = mode
    BY <1>1 DEF UpdateBegins
  <2>2. Head(todo).at \in Records /\ Head(todo).cell \in Cells /\ Head(todo).value \in Values
    BY <2>1, RunningTyped DEF Inv
  <2>3. ReadPayload(Head(todo).at) \in Payloads
    BY <2>2, ReadType, <1>0 DEF StatusInv
  <2>4. writing'.record = Head(todo).at
        /\ writing'.row.payload = [ReadPayload(Head(todo).at) EXCEPT ![Head(todo).cell] = Head(todo).value]
    BY <2>1 DEF BeginUpdate
  <2>5. \A s \in Records : Held(copies'[s]) = Held(copies[s])
    BY <1>0, <2>1, <2>2, BeginStays
  <2>6. \A a \in Areas : ReadPayload(Trailer(a))' = ReadPayload(Trailer(a))
    BY <2>5, FieldHeld, FieldHeldNext, Names
  <2>7. \A a \in Areas : Trailer(a) = Head(todo).at =>
          ReadPayload(Head(todo).at)' = ReadPayload(Head(todo).at)
    BY <2>1, <2>6
  <2>8. writing'.row.payload[Head(todo).cell] = Head(todo).value
    BY <2>2, <2>3, <2>4 DEF Payloads
  <2> QED BY <2>1, <2>4, <2>7, <2>8 DEF WritingInv, Running
<1>2. CASE UpdateEnds \/ UpdateFails \/ AreaErased
  <2>1. writing' = NoRow
    BY <1>2 DEF UpdateEnds, UpdateFails, AreaErased, EndUpdate, EraseArea
  <2> QED BY <2>1 DEF WritingInv
<1>3. CASE SlotWritten \/ TrailerErased \/ TrailerCopied \/ SlotErased \/ SlotFilled
  <2>1. Head(todo).op # "status" /\ writing' = writing
    BY <1>3 DEF SlotWritten, TrailerErased, TrailerCopied, SlotErased, SlotFilled, Running, SlotTrailer
  <2> QED BY <1>0, <2>1 DEF WritingInv
<1>4. CASE Boot \/ StartApp \/ Application
  <2>1. writing' = writing /\ (mode = "reset" \/ todo = <<>>)
    BY <1>4 DEF Boot, StartApp, Application, Download, cy_ota_storage_validated, boot_set_pending,
                boot_set_confirmed, Restart, Call, Idle
  <2> QED BY <1>0, <2>1 DEF WritingInv
<1>5. CASE PowerFailure
  <2>1. writing' = NoRow
    BY <1>5 DEF PowerFailure, PowerFailsBetween, PowerFailsInUpdate, PowerFailsInWrite, PowerFailsInErase,
                PowerFailsInMagic, PowerFailsInSlot, CutBetween, CutErase, CutWrite, CutArea
  <2> QED BY <2>1 DEF WritingInv
<1> QED BY <1>1, <1>2, <1>3, <1>4, <1>5 DEF Next, Accesses

\* The magic is written last, in every copy.
LEMMA LastKeeps ==
  ASSUME Inv, LastInv, RowsInv, WritingInv, PointInv, [Next]_vars
  PROVE  LastInv'
<1> DEFINE P == Trailer(Primary)
<1>0. StatusInv /\ copies \in [Records -> [Copies -> Rows]] /\ P \in Records
  BY Names DEF Inv, TypeOK, StatusInv, StatusTypeOK
<1>1. LastOk(ErasedPayload) /\ LastOk(ErasedRow.payload) /\ LastOk(TornRow.payload)
  BY Names, PartitionAssumption DEF LastOk, ErasedPayload, ErasedRow, TornRow
<1>2. LastOk(Held(copies[P]))
  <2>1. \/ Held(copies[P]) = ErasedPayload
        \/ \E i \in Copies : Held(copies[P]) = copies[P][i].payload
    BY <1>0, NewestExists DEF Held
  <2> QED BY <1>1, <2>1 DEF LastInv
<1>3. ASSUME \A i \in Copies : copies'[P][i] \in {copies[P][i], ErasedRow, TornRow}, writing' = NoRow
      PROVE  LastInv'
  BY <1>1, <1>3 DEF LastInv
<1>4. CASE UpdateBegins
  <2> DEFINE r == Head(todo).at
             cell == Head(todo).cell
             value == Head(todo).value
             next == NextCopy(ReadCopy(r))
  <2>1. Running("status") /\ BeginUpdate(r, cell, value)
    BY <1>4 DEF UpdateBegins
  <2>2. r \in Records /\ cell \in Cells /\ value \in Values /\ todo # <<>> /\ Head(todo).op = "status"
    BY <2>1, RunningTyped DEF Inv, Running
  <2>3. writing'.record = r /\ writing'.row.payload = [ReadPayload(r) EXCEPT ![cell] = value]
        /\ copies' = [copies EXCEPT ![r][next] = ErasedRow]
    BY <2>1 DEF BeginUpdate
  <2>4. next \in Copies
    BY <1>0, <2>2, ReadType, NextIsOther DEF StatusInv
  <2>5. \A i \in Copies : copies'[P][i] \in {copies[P][i], ErasedRow}
    BY <1>0, <2>2, <2>3, <2>4
  <2>6. r = P => LastOk(writing'.row.payload)
    <3> SUFFICES ASSUME r = P PROVE LastOk(writing'.row.payload)
      OBVIOUS
    <3>1. ReadPayload(P) = Held(copies[P]) /\ ReadPayload(P) \in [Cells -> Values]
      BY <1>0, FieldHeld, Names, ReadType DEF StatusInv, Payloads
    <3>2. value # Erased /\ (cell = "magic" => PInfo /\ PSize)
      BY <2>2, PrimaryWrite
    <3>3. (PInfo <=> ReadPayload(P)["swap_info"] # Erased) /\ (PSize <=> ReadPayload(P)["swap_size"] # Erased)
      BY DEF PInfo, PSize, Field
    <3>4. ASSUME NEW p \in [Cells -> Values], NEW q, q = [p EXCEPT ![cell] = value], LastOk(p),
                 cell = "magic" => p["swap_info"] # Erased /\ p["swap_size"] # Erased
          PROVE  LastOk(q)
      BY <2>2, <3>2, <3>4, Names DEF LastOk
    <3> QED BY <1>2, <2>3, <3>1, <3>2, <3>3, <3>4
  <2> HIDE DEF r
  <2> QED BY <1>1, <2>3, <2>5, <2>6 DEF LastInv
<1>5. CASE UpdateEnds
  <2>1. EndUpdate
    BY <1>5 DEF UpdateEnds
  <2>2. writing # NoRow /\ writing' = NoRow /\ writing.record \in Records /\ writing.copy \in Copies
        /\ copies' = [copies EXCEPT ![writing.record][writing.copy] = writing.row]
    BY <1>0, <2>1, PendingType DEF EndUpdate
  <2>3. \A i \in Copies : \/ copies'[P][i] = copies[P][i]
                          \/ writing.record = P /\ copies'[P][i] = writing.row
    BY <1>0, <2>2
  <2> QED BY <2>2, <2>3 DEF LastInv
<1>6. CASE AreaErased
  <2>1. EraseArea(Head(todo).at)
    BY <1>6 DEF AreaErased
  <2>2. \A i \in Copies : copies'[P][i] \in {copies[P][i], ErasedRow}
    BY <1>0, <2>1 DEF EraseArea
  <2> QED BY <1>3, <2>1, <2>2 DEF EraseArea
<1>7. CASE PowerFailsInUpdate
  <2>1. CutErase(Head(todo).at) /\ Head(todo).at \in Records
    BY <1>7, RunningTyped DEF PowerFailsInUpdate, Inv
  <2>2. \A i \in Copies : copies'[P][i] \in {copies[P][i], ErasedRow, TornRow}
    BY <1>0, <2>1 DEF CutErase, ErasedInPart
  <2> QED BY <1>3, <2>1, <2>2 DEF CutErase
<1>8. CASE PowerFailsInWrite
  <2>1. CutWrite
    BY <1>8 DEF PowerFailsInWrite
  <2>2. \A i \in Copies : copies'[P][i] \in {copies[P][i], ErasedRow, TornRow}
    BY <1>0, <2>1, PendingType DEF CutWrite
  <2> QED BY <1>3, <2>1, <2>2 DEF CutWrite
<1>9. CASE PowerFailsInErase
  <2>1. CutArea(Head(todo).at)
    BY <1>9 DEF PowerFailsInErase
  <2>2. PICK r \in Records, i \in Copies : \E row \in {ErasedRow, ErasedInPart(copies[r][i])} :
          CutAreaAt(r, i, row)
    BY <2>1 DEF CutArea
  <2>3. PICK row \in {ErasedRow, TornRow} : CutAreaAt(r, i, row)
    BY <2>2 DEF ErasedInPart
  <2>4. \A j \in Copies : copies'[P][j] \in {copies[P][j], ErasedRow, TornRow}
    BY <1>0, <2>3 DEF CutAreaAt
  <2> QED BY <1>3, <2>1, <2>4 DEF CutArea
<1>10. ASSUME copies' = copies, writing' \in {writing, NoRow} PROVE LastInv'
  BY <1>10 DEF LastInv
<1>11. CASE \/ UpdateFails \/ SlotWritten \/ TrailerErased \/ TrailerCopied \/ SlotErased \/ SlotFilled
            \/ Boot \/ StartApp \/ Application
            \/ PowerFailsBetween \/ PowerFailsInMagic \/ PowerFailsInSlot \/ UNCHANGED vars
  <2>1. copies' = copies /\ writing' \in {writing, NoRow}
    BY <1>11 DEF UpdateFails, SlotWritten, TrailerErased, TrailerCopied, SlotErased, SlotFilled, SlotTrailer,
       Boot, StartApp, Application, Download, cy_ota_storage_validated, boot_set_pending, boot_set_confirmed,
       Restart, Call, PowerFailsBetween, PowerFailsInMagic, PowerFailsInSlot, CutBetween, vars
  <2> QED BY <1>10, <2>1
<1> QED BY <1>4, <1>5, <1>6, <1>7, <1>8, <1>9, <1>11 DEF Next, Accesses, PowerFailure

\* A record that can be read is neither half written ...
LEMMA ReadableIs ==
  ASSUME NEW r, HasValid(r) \/ Blank(r)
  PROVE  ~Unreadable(r)
  BY CopiesAre DEF HasValid, Blank, Unreadable, Valid

\* ... nor becomes so, but in its first write or in the erase of its area.
LEMMA ReadableKeeps ==
  ASSUME Inv, WritingInv, ReadableInv, PointInv, [Next]_vars
  PROVE  ReadableInv'
<1> DEFINE Fine(r) == HasValid(r) \/ Blank(r)
<1> SUFFICES ASSUME harm'.first = {}, ~harm'.area
             PROVE  mode' # "panic" /\ \A r \in Records : Fine(r)'
  BY DEF ReadableInv
<1>0. StatusInv /\ copies \in [Records -> [Copies -> Rows]]
      /\ harm \in [first : SUBSET Records, area : BOOLEAN, stale : BOOLEAN]
  BY DEF Inv, TypeOK, StatusInv, StatusTypeOK
<1>1. harm.first = {} /\ ~harm.area
  <2>1. \/ harm' = harm
        \/ \E first, stale : /\ harm' = [harm EXCEPT !.first = first] \/ harm' = [harm EXCEPT !.stale = stale]
                             /\ harm.first \subseteq first
        \/ harm'.area
    <3>1. CASE Boot \/ StartApp \/ UNCHANGED vars
      BY <3>1 DEF Boot, StartApp, vars, history
    <3>2. CASE Accesses
      BY <3>2 DEF Accesses, UpdateBegins, UpdateEnds, UpdateFails, AreaErased, SlotWritten, TrailerErased,
                  TrailerCopied, SlotErased, SlotFilled, Completed, history
    <3>3. CASE Application
      BY <3>3 DEF Application, Download, cy_ota_storage_validated, boot_set_pending, boot_set_confirmed,
                  Restart, history
    <3>4. CASE PowerFailure
      <4>1. CASE PowerFailsInErase
        BY <1>0, <4>1 DEF PowerFailsInErase
      <4>2. CASE PowerFailsInWrite
        BY <1>0, <4>2 DEF PowerFailsInWrite
      <4> QED BY <3>4, <4>1, <4>2 DEF PowerFailure, PowerFailsBetween, PowerFailsInUpdate,
                 PowerFailsInMagic, PowerFailsInSlot
    <3> QED BY <3>1, <3>2, <3>3, <3>4 DEF Next
  <2> QED BY <1>0, <2>1
<1>2. mode # "panic" /\ \A r \in Records : Fine(r)
  BY <1>1 DEF ReadableInv
<1>3. ASSUME \A r \in Records : copies'[r] = copies[r] \/ Fine(r)' PROVE \A r \in Records : Fine(r)'
  BY <1>2, <1>3 DEF HasValid, Blank
<1>4. CASE UpdateBegins
  <2> DEFINE s == Head(todo).at
             next == NextCopy(ReadCopy(s))
  <2>1. Running("status") /\ BeginUpdate(s, Head(todo).cell, Head(todo).value) /\ mode' = mode
    BY <1>4 DEF UpdateBegins
  <2>2. s \in Records
    BY <2>1, RunningTyped DEF Inv
  <2>3. next \in Copies
    BY <1>0, <2>2, ReadType, NextIsOther DEF StatusInv
  <2>4. copies' = [copies EXCEPT ![s][next] = ErasedRow]
    BY <2>1 DEF BeginUpdate
  <2>5. \A r \in Records : HasValid(r)' <=> HasValid(r)
    BY <1>0, <2>2, <2>4, ErasedIsRow, BeginHolds DEF StatusInv
  <2>6. \A r \in Records : Blank(r) => Blank(r)'
    BY <1>0, <2>2, <2>3, <2>4 DEF Blank, ErasedRow
  <2> QED BY <1>2, <2>1, <2>5, <2>6
<1>5. CASE UpdateEnds
  <2>1. EndUpdate /\ mode' = mode
    BY <1>5 DEF UpdateEnds
  <2>2. /\ \E i \in Copies : Valid(copies'[writing.record], i)
        /\ \A r \in Records \ {writing.record} : copies'[r] = copies[r]
    BY <1>0, <2>1, EndHolds
  <2> QED BY <1>2, <1>3, <2>1, <2>2 DEF HasValid
<1>6. CASE UpdateFails
  <2>1. Running("status") /\ Unreadable(Head(todo).at)
    BY <1>6 DEF UpdateFails
  <2>2. Head(todo).at \in Records
    BY <2>1, RunningTyped DEF Inv
  <2> QED BY <1>2, <2>1, <2>2, ReadableIs
<1>7. CASE AreaErased
  <2>1. EraseArea(Head(todo).at) /\ mode' = mode
    BY <1>7 DEF AreaErased
  <2>2. \A r \in Records : copies'[r] = copies[r] \/ copies'[r] = [i \in Copies |-> ErasedRow]
    BY <2>1 DEF EraseArea
  <2>3. \A r \in Records : copies'[r] = copies[r] \/ Blank(r)'
    BY <2>2 DEF Blank, ErasedRow
  <2> QED BY <1>2, <1>3, <2>1, <2>3
<1>8. CASE PowerFailsInUpdate
  <2> DEFINE s == Head(todo).at
             next == NextCopy(ReadCopy(s))
  <2>1. CutErase(s) /\ s \in Records /\ mode' = "reset"
    BY <1>8, RunningTyped DEF PowerFailsInUpdate, PowerFails, Inv
  <2>2. next \in Copies
    BY <1>0, <2>1, ReadType, NextIsOther DEF StatusInv
  <2>3. copies' = [copies EXCEPT ![s][next] = ErasedInPart(copies[s][next])]
    BY <1>0, <2>1, <2>2 DEF CutErase
  <2>4. \A r \in Records : HasValid(r)' <=> HasValid(r)
    BY <1>0, <2>1, CutEraseHolds
  <2>5. \A r \in Records : Blank(r) => Blank(r)'
    BY <1>0, <2>1, <2>2, <2>3 DEF Blank, ErasedRow, ErasedInPart
  <2> QED BY <1>2, <2>1, <2>4, <2>5
<1>9. CASE PowerFailsInWrite
  <2>1. CutWrite /\ mode' = "reset" /\ writing # NoRow
    BY <1>9 DEF PowerFailsInWrite, PowerFails, CutWrite
  <2>2. writing.record \in Records /\ writing.copy \in Copies /\ writing.record = Head(todo).at
    BY <1>0, <2>1, PendingType DEF WritingInv
  <2>3. HasValid(Head(todo).at)
    <3>1. harm'.first = IF HasValid(Head(todo).at) THEN harm.first ELSE harm.first \cup {Head(todo).at}
      BY <1>0, <1>9 DEF PowerFailsInWrite
    <3> QED BY <3>1
  <2>4. \A r \in Records : HasValid(r)' <=> HasValid(r)
    BY <1>0, <2>1, CutWriteHolds
  <2>5. \A r \in Records \ {Head(todo).at} : copies'[r] = copies[r]
    BY <1>0, <2>1, <2>2 DEF CutWrite
  <2> QED BY <1>3, <2>1, <2>2, <2>3, <2>4, <2>5
<1>10. CASE PowerFailsInErase
  <2>1. harm'.area
    BY <1>0, <1>10 DEF PowerFailsInErase
  <2> QED BY <2>1
<1>11. CASE Boot
  <2>1. copies' = copies /\ (mode' = "panic" => Decision = "PANIC")
    BY <1>11 DEF Boot
  <2>2. ~Unreadable(Trailer(Primary)) /\ ~Unreadable(Trailer(Secondary))
    BY <1>2, Names, ReadableIs
  <2>3. Decision # "PANIC"
    BY <2>2, DecisionIs DEF PointInv
  <2> QED BY <1>3, <2>1, <2>3
<1>12. CASE \/ SlotWritten \/ TrailerErased \/ TrailerCopied \/ SlotErased \/ SlotFilled
            \/ StartApp \/ Application
            \/ PowerFailsBetween \/ PowerFailsInMagic \/ PowerFailsInSlot \/ UNCHANGED vars
  <2>1. copies' = copies /\ mode' \in {mode, "reset", "app"}
    BY <1>12 DEF SlotWritten, TrailerErased, TrailerCopied, SlotErased, SlotFilled, SlotTrailer,
       StartApp, Application, Download, cy_ota_storage_validated, boot_set_pending, boot_set_confirmed,
       Restart, Call, PowerFailsBetween, PowerFailsInMagic, PowerFailsInSlot, PowerFails, CutBetween, vars
  <2> QED BY <1>2, <1>3, <2>1
<1> QED BY <1>4, <1>5, <1>6, <1>7, <1>8, <1>9, <1>10, <1>11, <1>12 DEF Next, Accesses, PowerFailure

LEMMA PointKeeps ==
  ASSUME Inv, RowsInv, RowsInv', WritingInv, PointInv, [Next]_vars
  PROVE  PointInv'
<1>1. CASE UNCHANGED vars
  <2>1. Same
    BY <1>1, HeldMarksStay DEF vars, Same, history, flash
  <2> QED BY <2>1, SameKeeps
<1>2. CASE Accesses
  BY <1>2, AccessKeeps DEF AtAccess
<1> QED BY <1>1, <1>2, BootKeeps, StartAppKeeps, ApplicationKeeps, PowerKeeps DEF Next

LEMMA HandoverInit == Init => HandoverInv
<1> SUFFICES ASSUME Init PROVE HandoverInv
  OBVIOUS
<1>1. Inv
  BY InvInit
<1>2. copies = [r \in Records |-> [i \in Copies |-> ErasedRow]] /\ writing = NoRow
  BY DEF Init, StatusInit
<1>3. RowsInv /\ WritingInv
  BY <1>2 DEF RowsInv, WritingInv
<1>4. \A r \in Records : Blank(r)
  BY <1>2 DEF Blank, ErasedRow
<1>5. LastInv
  BY <1>2, Names DEF LastInv, LastOk, ErasedRow, ErasedPayload
<1>6. ReadableInv
  BY <1>4 DEF ReadableInv, Init
<1>7. \A a \in Areas : ReadPayload(Trailer(a)) = ErasedPayload
  <2>1. \A r \in Records : ~HasValid(r)
    BY <1>2 DEF HasValid, Valid, ErasedRow
  <2>2. \A r \in Records : ReadPayload(r) = ErasedPayload
    BY <1>4, <2>1 DEF ReadPayload
  <2> QED BY <2>2, Names
<1>8. ~PMagic /\ ~PInfo /\ ~PSize /\ ~PDone /\ ~POk /\ ~SMagic /\ ~SOk
  BY <1>7, Names DEF PMagic, PInfo, PSize, PDone, POk, SMagic, SOk, Field, ErasedPayload
<1>9. ~slot[Secondary].image_ok /\ ~Whole /\ todo = <<>> /\ mode = "reset" /\ asked = "none" /\ ~trial
  BY Names DEF Init, ErasedSlot, Whole
<1>10. Stage
  BY <1>9 DEF Stage
<1>11. FlashInv
  BY <1>8, <1>9 DEF FlashInv, Unfinished
<1> QED BY <1>1, <1>3, <1>5, <1>6, <1>9, <1>10, <1>11 DEF HandoverInv, PointInv, Known

LEMMA HandoverNext == HandoverInv /\ [Next]_vars => HandoverInv'
<1> SUFFICES ASSUME HandoverInv, [Next]_vars PROVE HandoverInv'
  OBVIOUS
<1>1. Inv /\ RowsInv /\ WritingInv /\ LastInv /\ ReadableInv /\ PointInv
  BY DEF HandoverInv
<1>2. Inv'
  BY <1>1, InvNext
<1>3. RowsInv'
  <2>1. [StatusNext]_statusVars /\ StatusInv
    BY <1>1, StepIsStatusStep DEF Inv, TypeOK, StatusInv
  <2> QED BY <1>1, <2>1, RowsStep
<1>4. WritingInv'
  <2>1. CASE Next
    BY <1>1, <1>3, <2>1, WritingKeeps
  <2>2. CASE UNCHANGED vars
    BY <1>1, <2>2 DEF vars, WritingInv, ReadPayload, Blank, HasValid
  <2> QED BY <2>1, <2>2
<1>5. LastInv'
  BY <1>1, LastKeeps
<1>6. ReadableInv'
  BY <1>1, ReadableKeeps
<1>7. PointInv'
  BY <1>1, <1>3, PointKeeps
<1> QED BY <1>2, <1>3, <1>4, <1>5, <1>6, <1>7 DEF HandoverInv

LEMMA HandoverHolds == Spec => []HandoverInv
  BY HandoverInit, HandoverNext, PTL DEF Spec

---------------------------------------------------------------------------
(* What the hand-over promises *)

\* The types hold: the trailers, the images and the functions that run are what
\* swap_status_part.c and swap_status_misc.c make of them.
THEOREM TrailerTypeCorrect == Spec => []TypeOK
  BY TrailerInvariant, PTL

\* Whoever reads a trailer with a magic finds the other fields of the swap in it
\* (boot_find_status() takes that for granted): swap_status_init() writes the magic
\* last, a cut write leaves the row that was there, and a row is never put
\* together from two.
THEOREM TrailerMagicIsLast == Spec => []MagicIsLast
<1>1. HandoverInv => MagicIsLast
  <2> SUFFICES ASSUME HandoverInv PROVE MagicIsLast
    OBVIOUS
  <2>1. StatusInv /\ copies[Trailer(Primary)] \in [Copies -> Rows] /\ LastInv
    BY Names DEF HandoverInv, Inv, TypeOK, StatusInv, StatusTypeOK
  <2>2. \/ Held(copies[Trailer(Primary)]) = ErasedPayload
        \/ \E i \in Copies : Held(copies[Trailer(Primary)]) = copies[Trailer(Primary)][i].payload
    BY <2>1, NewestExists DEF Held
  <2>3. LastOk(Held(copies[Trailer(Primary)]))
    BY <2>1, <2>2, Names DEF LastInv, LastOk, ErasedPayload
  <2> QED BY <2>3, FieldHeld, Names DEF MagicIsLast, LastOk, Field
<1> QED BY <1>1, HandoverHolds, PTL

\* The loader never gives up on a trailer it cannot read, unless the power failed in
\* the very first write of a record or in the erase of an area:
\* swap_status_update() erases and writes the copy nobody needs.
THEOREM LoaderGoesOn == Spec => []NoPanic
<1>1. HandoverInv => NoPanic
  <2> SUFFICES ASSUME HandoverInv, harm.first = {}, ~harm.area PROVE mode # "panic" /\ Decision # "PANIC"
    BY DEF NoPanic
  <2>1. mode # "panic" /\ \A r \in Records : HasValid(r) \/ Blank(r)
    BY DEF HandoverInv, ReadableInv
  <2>2. ~Unreadable(Trailer(Primary)) /\ ~Unreadable(Trailer(Secondary))
    BY <2>1, Names, ReadableIs
  <2> QED BY <2>1, <2>2, DecisionIs DEF HandoverInv, PointInv
<1> QED BY <1>1, HandoverHolds, PTL

\* An image that was handed over, by cy_ota_storage_verify() or boot_set_pending(), is
\* still asked for at the next boot, whenever the power failed, and whoever moved the
\* magic from the end of the slot to the partition (boot_read_swap_state()).
THEOREM RequestStays == Spec => []RequestNotLost
<1>1. HandoverInv => RequestNotLost
  <2> SUFFICES ASSUME HandoverInv, asked # "none", Whole, ~harm.area
               PROVE  Decision \in {"TEST", "PERM", "RESUME", "PANIC"}
    BY DEF RequestNotLost, Whole
  <2>1. FlashInv /\ Inv /\ ~slot[Secondary].image_ok
    BY DEF HandoverInv, PointInv, Known
  <2>2. ~Unfinished => Request
    BY <2>1 DEF FlashInv, Requested
  <2> QED BY <2>1, <2>2, DecisionIs
<1> QED BY <1>1, HandoverHolds, PTL

\* A swap that the loader resumes is the one that was started: its images were
\* exchanged if, and only if, the request is served (the status bytes of
\* boot_write_status() and the trailer are erased and written together).
THEOREM OwnSwapResumed == Spec => []ResumesOwnSwap
<1>1. HandoverInv => ResumesOwnSwap
  <2> SUFFICES ASSUME HandoverInv, ~harm.area, Decision = "RESUME", ~harm.stale
               PROVE  Exchanged <=> asked = "none"
    BY DEF ResumesOwnSwap, ResumesThisSwap
  <2>1. FlashInv /\ Inv /\ ~slot[Secondary].image_ok
    BY DEF HandoverInv, PointInv, Known
  <2>2. Unfinished
    BY <2>1, DecisionIs
  <2> QED BY <2>1, <2>2 DEF FlashInv, Fits
<1> QED BY <1>1, HandoverHolds, PTL

\* An image on trial is taken back at the next boot, unless a newer one takes its
\* place: neither the copy of the trailer to the slot (boot_write_trailer()) nor a
\* read that moves marks makes a swap on trial look confirmed.
THEOREM TrialTakenBack == Spec => []TrialReverts
<1>1. HandoverInv => TrialReverts
  <2> SUFFICES ASSUME HandoverInv, ~harm.area, ~harm.stale, trial PROVE TrialEnds
    BY DEF TrialReverts, TrialEnds
  <2>1. FlashInv /\ Inv /\ ~slot[Secondary].image_ok
    BY DEF HandoverInv, PointInv, Known
  <2>2. ~Unfinished => Revertible \/ Request
    BY <2>1 DEF FlashInv, Replaced
  <2>3. Revertible => PMagic
    BY <2>1 DEF FlashInv, Revertible
  <2>4. slot[Secondary].magic \in {"unset", "good", "bad"}
    BY <2>1, Names DEF Inv, TypeOK
  <2>5. ~Request /\ slot[Secondary].magic = "bad" => MagicInSlot(Secondary)
    BY DEF Request, SMagic, MagicInSlot
  <2>6. ~Request /\ slot[Secondary].magic # "bad" => ~SMagic /\ slot[Secondary].magic = "unset"
    BY <2>4 DEF Request, SlotGood
  <2> QED BY <2>1, <2>2, <2>3, <2>5, <2>6, DecisionIs DEF TrialEnds
<1> QED BY <1>1, HandoverHolds, PTL

\* An image that was confirmed, by boot_set_confirmed() or by
\* cy_ota_storage_validated(), or installed for good, is not taken back, as long as no
\* erase of an area was cut (what a cut one leaves of the copies stays with the runs).
THEOREM ConfirmedStaysInstalled == Spec => [](~harm.area => ConfirmedStays)
<1>1. HandoverInv => (~harm.area => ConfirmedStays)
  <2> SUFFICES ASSUME HandoverInv, ~harm.area, confirmed, Decision = "REVERT" PROVE FALSE
    BY DEF ConfirmedStays
  <2>1. FlashInv /\ Inv /\ ~slot[Secondary].image_ok
    BY DEF HandoverInv, PointInv, Known
  <2>2. Revertible
    BY <2>1, DecisionIs
  <2> QED BY <2>1, <2>2 DEF FlashInv, Revertible
<1> QED BY <1>1, HandoverHolds, PTL
=============================================================================
