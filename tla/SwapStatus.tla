----------------------------- MODULE SwapStatus -----------------------------
(***************************************************************************)
(* The swap status partition of the 20829 port of MCUboot:                 *)
(* bootutil/src/swap_status_part.c.  The boot loader and the application   *)
(* keep the trailers of the image slots in records of this partition.  A   *)
(* record is a row of the flash, kept in BOOT_SWAP_STATUS_MULT copies; an  *)
(* update reads the newest copy, erases the copy after it and writes it    *)
(* there with the next counter and a CRC, so that a loss of power during   *)
(* an update leaves the copy that was the newest before.                   *)
(*                                                                         *)
(* An erase and a write of the flash are two steps, and the power may fail *)
(* before, during and after each of them.                                  *)
(***************************************************************************)
EXTENDS Integers

CONSTANTS
  Areas,      \* the slots that have a status area: primary, secondary
  Records,    \* the rows of the partition that are in use
  AreaOf,     \* [Records -> Areas]
  RowOf,      \* [Records -> Nat]: where the row is in a copy of its area
  First,      \* the record at offset 0 of the partition
  Cells,      \* the fields of a payload
  Values,     \* what a field may hold
  Erased,     \* a field of erased bytes
  Garbled     \* a field of a row that was written or erased in part

ASSUME PartitionAssumption ==
  /\ AreaOf \in [Records -> Areas] /\ RowOf \in [Records -> Nat]
  /\ First \in Records
  /\ Erased \in Values /\ Garbled \in Values /\ Erased # Garbled

BOOT_SWAP_STATUS_MULT == 2
Copies   == 0..(BOOT_SWAP_STATUS_MULT - 1)
Payloads == [Cells -> Values]
Rows     == [magic : BOOLEAN, crc : BOOLEAN, counter : Nat, payload : Payloads]

ErasedPayload == [c \in Cells |-> Erased]
ErasedRow == [magic |-> FALSE, crc |-> FALSE, counter |-> 0, payload |-> ErasedPayload]
\* A row whose erase or write was cut: its magic is there, its CRC does not match.
\* (Without its magic it reads like an erased row.)
TornRow == [magic |-> TRUE, crc |-> FALSE, counter |-> 0,
            payload |-> [c \in Cells |-> Garbled]]

ErasedInPart(row) == IF row.magic THEN TornRow ELSE ErasedRow

VARIABLES
  copies,     \* [Records -> [Copies -> Rows]]: the partition
  writing     \* the row that swap_status_write_record() is about to write, or NoRow

statusVars == <<copies, writing>>

NoRow   == [record |-> "none"]
Pending == [record : Records, copy : Copies, row : Rows]

StatusInit ==
  /\ copies = [r \in Records |-> [i \in Copies |-> ErasedRow]]
  /\ writing = NoRow

---------------------------------------------------------------------------
(* swap_status_read_record(); c is the copies of a record *)

Valid(c, i) == c[i].magic /\ c[i].crc
\* The last of the copies with the largest counter.
IsNewest(c, i) ==
  /\ Valid(c, i)
  /\ \A j \in Copies : Valid(c, j) =>
       \/ c[j].counter < c[i].counter
       \/ c[j].counter = c[i].counter /\ j <= i
Newest(c) == CHOOSE i \in Copies : IsNewest(c, i)

Blank(r)      == \A i \in Copies : ~copies[r][i].magic
Unreadable(r) == \A i \in Copies : copies[r][i].magic /\ ~copies[r][i].crc
Readable(r)   == ~Unreadable(r)
HasValid(r)   == \E i \in Copies : Valid(copies[r], i)

\* The copy the read returns: the last one of a blank record, so that the first
\* write goes to copy 0; 0 when one copy is blank and the other one is torn.
ReadCopy(r) ==
  CASE Blank(r)    -> BOOT_SWAP_STATUS_MULT - 1
    [] HasValid(r) -> Newest(copies[r])
    [] OTHER       -> 0
\* Mutant of ReadCounter: every row that is written has the same counter.
ReadCounterNone(r) == 0

ReadCounter(r) == IF HasValid(r) THEN copies[r][Newest(copies[r])].counter ELSE 0
\* With one blank and one torn copy data_offset is still 0: the payload is read
\* from the start of the partition, which is copy 0 of the first record.  That
\* row holds status bytes and nothing where the fields of a trailer are.
ReadPayload(r) ==
  CASE Blank(r)    -> ErasedPayload
    [] HasValid(r) -> copies[r][Newest(copies[r])].payload
    [] OTHER       -> IF r = First THEN copies[First][0].payload ELSE ErasedPayload

---------------------------------------------------------------------------
(* swap_status_update() with swap_status_write_record(), for one field *)

\* Mutant of NextCopy: the newest copy is written again.
NextCopySame(i) == i
\* Mutant of NextCopy: the copies do not wrap around.
NextCopyNoWrap(i) == i + 1

NextCopy(i) == (i + 1) % BOOT_SWAP_STATUS_MULT

\* Mutant of BeginUpdate: the row that is written holds the one field only.
BeginUpdateAlone(r, cell, value) ==
  /\ writing = NoRow
  /\ Readable(r)
  /\ LET next == NextCopy(ReadCopy(r))
     IN  /\ writing' = [record |-> r, copy |-> next,
                        row |-> [magic |-> TRUE, crc |-> TRUE, counter |-> ReadCounter(r) + 1,
                                 payload |-> [ErasedPayload EXCEPT ![cell] = value]]]
         /\ copies' = [copies EXCEPT ![r][next] = ErasedRow]

\* Reads the record, replaces the field, erases the copy after the newest one.
BeginUpdate(r, cell, value) ==
  /\ writing = NoRow
  /\ Readable(r)
  /\ LET next == NextCopy(ReadCopy(r))
         row  == [magic |-> TRUE, crc |-> TRUE, counter |-> ReadCounter(r) + 1,
                  payload |-> [ReadPayload(r) EXCEPT ![cell] = value]]
     IN  /\ writing' = [record |-> r, copy |-> next, row |-> row]
         /\ copies' = [copies EXCEPT ![r][next] = ErasedRow]

\* Writes the row.
EndUpdate ==
  /\ writing # NoRow
  /\ copies' = [copies EXCEPT ![writing.record][writing.copy] = writing.row]
  /\ writing' = NoRow

\* swap_erase_trailer_sectors(): the whole status area of a slot, all copies.
EraseArea(a) ==
  /\ writing = NoRow
  /\ copies' = [r \in Records |->
                  IF AreaOf[r] = a THEN [i \in Copies |-> ErasedRow] ELSE copies[r]]
  /\ UNCHANGED writing

(* The power fails: before or between the steps, in the erase of a row, in the
   write of a row, in the erase of an area.                                  *)
CutBetween == writing' = NoRow /\ UNCHANGED copies

CutErase(r) ==
  /\ writing = NoRow
  /\ Readable(r)
  /\ copies' = [copies EXCEPT ![r][NextCopy(ReadCopy(r))] = ErasedInPart(@)]
  /\ UNCHANGED writing

CutWrite ==
  /\ writing # NoRow
  /\ copies' = [copies EXCEPT ![writing.record][writing.copy] = TornRow]
  /\ writing' = NoRow

\* An area is erased row by row from its start, copy 0 and then copy 1.
Before(s, j, r, i) == j < i \/ (j = i /\ RowOf[s] < RowOf[r])

\* The erase got as far as the row of copy i of record r, or into it.
CutAreaAt(r, i, row) ==
  copies' = [s \in Records |-> [j \in Copies |->
    IF AreaOf[s] # AreaOf[r] THEN copies[s][j]
    ELSE CASE Before(s, j, r, i) -> ErasedRow
           [] s = r /\ j = i    -> row
           [] OTHER             -> copies[s][j]]]

CutArea(a) ==
  /\ writing = NoRow
  /\ \E r \in {s \in Records : AreaOf[s] = a}, i \in Copies :
       \E row \in {ErasedRow, ErasedInPart(copies[r][i])} :
        CutAreaAt(r, i, row)
  /\ UNCHANGED writing

StatusNext ==
  \/ \E r \in Records, cell \in Cells, value \in Values : BeginUpdate(r, cell, value)
  \/ EndUpdate
  \/ \E a \in Areas : EraseArea(a)
  \/ CutBetween
  \/ \E r \in Records : CutErase(r)
  \/ CutWrite
  \/ \E a \in Areas : CutArea(a)

StatusSpec == StatusInit /\ [][StatusNext]_statusVars

---------------------------------------------------------------------------

StatusTypeOK ==
  /\ copies \in [Records -> [Copies -> Rows]]
  /\ writing \in Pending \cup {NoRow}

\* While a row is being written it is newer than every copy of its record, and it
\* goes to a copy that is erased (the choice of the copy in swap_status_update()).
WritesObsoleteCopy ==
  writing # NoRow =>
    LET r == writing.record
    IN  /\ copies[r][writing.copy] = ErasedRow
        /\ writing.row.magic /\ writing.row.crc
        /\ \A i \in Copies : Valid(copies[r], i) => copies[r][i].counter < writing.row.counter

\* The partition does what it promises: an update happens as a whole or not at
\* all, whenever the power fails, and only an erase takes a content away.
Partition == INSTANCE StatusPartition WITH
  live    <- {r \in Records : HasValid(r)},
  content <- [r \in Records |-> IF HasValid(r) THEN ReadPayload(r) ELSE ErasedPayload],
  update  <- IF writing = NoRow THEN NoRow
             ELSE [record |-> writing.record, payload |-> writing.row.payload]
UpdatesAreAtomic == Partition!Spec
=============================================================================
