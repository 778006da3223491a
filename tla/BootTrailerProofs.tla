------------------------- MODULE BootTrailerProofs -------------------------
(***************************************************************************)
(* Proofs about the status partition (SwapStatus) and about its use by the *)
(* library of MCUboot (BootTrailer), for any number of records, of updates *)
(* and of failures of the power.                                           *)
(***************************************************************************)
EXTENDS BootTrailer, TLAPS

(* What the copies of one record say *)

\* The numbers of the copies.
LEMMA CopiesAre == Copies = {0, 1}
  BY DEF Copies, BOOT_SWAP_STATUS_MULT

\* Of the valid copies of a record one is the newest.
LEMMA NewestExists ==
  ASSUME NEW c \in [Copies -> Rows], \E i \in Copies : Valid(c, i)
  PROVE  Newest(c) \in Copies /\ IsNewest(c, Newest(c))
<1>1. c[0].counter \in Nat /\ c[1].counter \in Nat
  BY CopiesAre DEF Rows
<1>2. \E i \in Copies : IsNewest(c, i)
  <2>1. CASE Valid(c, 0) /\ Valid(c, 1) /\ c[1].counter < c[0].counter
    BY <1>1, <2>1, CopiesAre DEF IsNewest
  <2>2. CASE Valid(c, 1) /\ ~(Valid(c, 0) /\ c[1].counter < c[0].counter)
    BY <1>1, <2>2, CopiesAre DEF IsNewest
  <2>3. CASE Valid(c, 0) /\ ~Valid(c, 1)
    BY <1>1, <2>3, CopiesAre DEF IsNewest
  <2> QED BY <2>1, <2>2, <2>3, CopiesAre
<1> QED BY <1>2 DEF Newest

\* There is only one newest copy.
LEMMA NewestIs ==
  ASSUME NEW c \in [Copies -> Rows], NEW i \in Copies, IsNewest(c, i)
  PROVE  Newest(c) = i
<1>1. Valid(c, i)
  BY DEF IsNewest
<1>2. Newest(c) \in Copies /\ IsNewest(c, Newest(c))
  BY <1>1, NewestExists
<1>3. \A j \in Copies : c[j].counter \in Nat
  BY DEF Rows
<1> QED BY <1>2, <1>3, CopiesAre DEF IsNewest

\* The erased payload is a payload.
LEMMA ErasedIsRow ==
  ErasedPayload \in Payloads /\ ErasedRow \in Rows /\ TornRow \in Rows
    /\ ~ErasedRow.magic /\ ~ErasedRow.crc /\ ~TornRow.crc
  BY PartitionAssumption DEF ErasedPayload, ErasedRow, TornRow, Rows, Payloads

\* The copy after a copy is another one.
LEMMA NextIsOther ==
  ASSUME NEW i \in Copies
  PROVE  NextCopy(i) \in Copies /\ NextCopy(i) # i
  BY CopiesAre DEF NextCopy, BOOT_SWAP_STATUS_MULT

\* What a read returns is of its type.
LEMMA ReadType ==
  ASSUME StatusTypeOK, NEW r \in Records
  PROVE  ReadCopy(r) \in Copies /\ ReadCounter(r) \in Nat /\ ReadPayload(r) \in Payloads
<1>1. copies[r] \in [Copies -> Rows] /\ copies[First] \in [Copies -> Rows]
  BY PartitionAssumption DEF StatusTypeOK
<1>2. HasValid(r) => Newest(copies[r]) \in Copies
  BY <1>1, NewestExists DEF HasValid
<1>3. ReadCopy(r) \in Copies
  BY <1>2, CopiesAre DEF ReadCopy, BOOT_SWAP_STATUS_MULT
<1>4. \A i \in Copies : copies[r][i].counter \in Nat /\ copies[r][i].payload \in Payloads
                        /\ copies[First][i].payload \in Payloads
  BY <1>1 DEF Rows
<1>5. ReadCounter(r) \in Nat
  BY <1>2, <1>4 DEF ReadCounter
<1>6. ReadPayload(r) \in Payloads
  BY <1>2, <1>4, ErasedIsRow, CopiesAre DEF ReadPayload
<1> QED BY <1>3, <1>5, <1>6

\* The valid copies of a record have no larger counter than the one read.
LEMMA CounterIsLargest ==
  ASSUME StatusTypeOK, NEW r \in Records, NEW i \in Copies, Valid(copies[r], i)
  PROVE  copies[r][i].counter <= ReadCounter(r) /\ ReadCopy(r) = Newest(copies[r])
<1>1. copies[r] \in [Copies -> Rows] /\ HasValid(r)
  BY DEF StatusTypeOK, HasValid
<1>2. Newest(copies[r]) \in Copies /\ IsNewest(copies[r], Newest(copies[r]))
  BY <1>1, NewestExists DEF HasValid
<1>3. copies[r][i].counter \in Nat /\ copies[r][Newest(copies[r])].counter \in Nat
  BY <1>1, <1>2 DEF Rows
<1>4. copies[r][i].counter <= ReadCounter(r)
  BY <1>1, <1>2, <1>3 DEF IsNewest, ReadCounter
<1>5. ~Blank(r)
  BY DEF Blank, Valid
<1> QED BY <1>1, <1>4, <1>5 DEF ReadCopy

---------------------------------------------------------------------------
(* What a record holds, in its newest copy *)

Held(c) == IF \E i \in Copies : Valid(c, i) THEN c[Newest(c)].payload ELSE ErasedPayload

LEMMA HeldType ==
  ASSUME NEW c \in [Copies -> Rows]
  PROVE  Held(c) \in Payloads
  BY NewestExists, ErasedIsRow DEF Held, Rows

\* The mapping of the refinement gives what the records hold.
LEMMA HeldIsContent ==
  ASSUME NEW r \in Records
  PROVE  (IF HasValid(r) THEN ReadPayload(r) ELSE ErasedPayload) = Held(copies[r])
<1>1. HasValid(r) => ReadPayload(r) = copies[r][Newest(copies[r])].payload
  BY DEF HasValid, Blank, Valid, ReadPayload
<1> QED BY <1>1 DEF Held, HasValid

\* The copy that is replaced by an invalid row was not the newest one: the
\* record holds what it held.
LEMMA ReplaceObsolete ==
  ASSUME NEW c \in [Copies -> Rows], NEW d \in [Copies -> Rows], NEW k \in Copies,
         d = [c EXCEPT ![k] = d[k]], ~d[k].crc,
         (\E i \in Copies : Valid(c, i)) => k # Newest(c)
  PROVE  /\ (\E i \in Copies : Valid(d, i)) <=> (\E i \in Copies : Valid(c, i))
         /\ Held(d) = Held(c)
<1>1. \A i \in Copies \ {k} : d[i] = c[i]
  OBVIOUS
<1>2. \A i \in Copies : Valid(d, i) => i # k /\ Valid(c, i)
  BY <1>1 DEF Valid
<1>3. CASE \E i \in Copies : Valid(c, i)
  <2>1. Newest(c) \in Copies /\ IsNewest(c, Newest(c)) /\ Newest(c) # k
    BY <1>3, NewestExists
  <2>2. Valid(d, Newest(c)) /\ d[Newest(c)] = c[Newest(c)]
    BY <1>1, <2>1 DEF IsNewest, Valid
  <2>3. IsNewest(d, Newest(c))
    BY <1>1, <1>2, <2>1, <2>2 DEF IsNewest
  <2>4. Newest(d) = Newest(c)
    BY <2>1, <2>3, NewestIs
  <2> QED BY <1>3, <2>1, <2>2, <2>4 DEF Held
<1>4. CASE ~\E i \in Copies : Valid(c, i)
  BY <1>2, <1>4 DEF Held
<1> QED BY <1>3, <1>4

---------------------------------------------------------------------------
(* The inductive invariant of the partition *)

StatusInv == StatusTypeOK /\ WritesObsoleteCopy

LEMMA StatusInvInit == StatusInit => StatusInv
  BY ErasedIsRow DEF StatusInit, StatusInv, StatusTypeOK, WritesObsoleteCopy

\* The erase before the write of a row, complete or cut, leaves in every record
\* what it held.
LEMMA BeginHolds ==
  ASSUME StatusTypeOK, NEW r \in Records, NEW row \in Rows, ~row.crc,
         copies' = [copies EXCEPT ![r][NextCopy(ReadCopy(r))] = row]
  PROVE  \A s \in Records : /\ HasValid(s)' <=> HasValid(s)
                            /\ Held(copies'[s]) = Held(copies[s])
<1>1. copies \in [Records -> [Copies -> Rows]]
  BY DEF StatusTypeOK
<1>2. NextCopy(ReadCopy(r)) \in Copies /\ NextCopy(ReadCopy(r)) # ReadCopy(r)
  BY ReadType, NextIsOther
<1>3. HasValid(r) => ReadCopy(r) = Newest(copies[r])
  BY CounterIsLargest DEF HasValid
<1>4. /\ HasValid(r)' <=> HasValid(r)
      /\ Held(copies'[r]) = Held(copies[r])
  <2>1. copies'[r] = [copies[r] EXCEPT ![NextCopy(ReadCopy(r))] = row]
    BY <1>1
  <2>2. copies'[r] \in [Copies -> Rows] /\ copies'[r][NextCopy(ReadCopy(r))] = row
    BY <1>1, <1>2, <2>1
  <2> QED BY <1>1, <1>2, <1>3, <2>1, <2>2, ReplaceObsolete DEF HasValid
<1>5. \A s \in Records \ {r} : copies'[s] = copies[s]
  BY <1>1
<1> QED BY <1>4, <1>5 DEF HasValid

\* A step of an update keeps it.
LEMMA BeginKeeps ==
  ASSUME StatusInv, NEW r \in Records, NEW cell \in Cells, NEW value \in Values,
         BeginUpdate(r, cell, value)
  PROVE  StatusInv'
<1> DEFINE next == NextCopy(ReadCopy(r))
           row  == [magic |-> TRUE, crc |-> TRUE, counter |-> ReadCounter(r) + 1,
                    payload |-> [ReadPayload(r) EXCEPT ![cell] = value]]
<1>1. /\ writing' = [record |-> r, copy |-> next, row |-> row]
      /\ copies' = [copies EXCEPT ![r][next] = ErasedRow]
  BY DEF BeginUpdate
<1>2. next \in Copies /\ ReadCounter(r) \in Nat /\ ReadPayload(r) \in Payloads
  BY ReadType, NextIsOther DEF StatusInv
<1>3. row \in Rows
  BY <1>2 DEF Rows, Payloads
<1>4. copies' \in [Records -> [Copies -> Rows]]
  BY <1>1, <1>2, ErasedIsRow DEF StatusInv, StatusTypeOK
<1>5. writing' \in Pending
  BY <1>1, <1>2, <1>3 DEF Pending
<1>6. copies'[r][next] = ErasedRow /\ \A i \in Copies \ {next} : copies'[r][i] = copies[r][i]
  BY <1>1, <1>2 DEF StatusInv, StatusTypeOK
<1>7. \A i \in Copies : Valid(copies'[r], i) => copies'[r][i].counter < row.counter
  <2> SUFFICES ASSUME NEW i \in Copies, Valid(copies'[r], i)
               PROVE  copies'[r][i].counter < row.counter
    OBVIOUS
  <2>1. i # next /\ Valid(copies[r], i)
    BY <1>6, ErasedIsRow DEF Valid
  <2>2. copies[r][i].counter <= ReadCounter(r)
    BY <2>1, CounterIsLargest DEF StatusInv
  <2>3. copies[r][i].counter \in Nat
    BY DEF StatusInv, StatusTypeOK, Rows
  <2> QED BY <1>2, <1>6, <2>1, <2>2, <2>3
<1>8. writing'.record = r /\ writing'.copy = next /\ writing'.row = row
  BY <1>1
<1>9. row.magic /\ row.crc
  OBVIOUS
<1>10. WritesObsoleteCopy'
  <2> HIDE DEF row, next
  <2> QED BY <1>6, <1>7, <1>8, <1>9, Zenon DEF WritesObsoleteCopy
<1> QED BY <1>4, <1>5, <1>10 DEF StatusInv, StatusTypeOK

\* So does every step after which no row is being written.
LEMMA OthersKeep ==
  ASSUME copies' \in [Records -> [Copies -> Rows]], writing' = NoRow
  PROVE  StatusInv'
  BY DEF StatusInv, StatusTypeOK, WritesObsoleteCopy

\* The row that is being written is one of the partition's.
LEMMA PendingType ==
  ASSUME StatusInv, writing # NoRow
  PROVE  /\ writing.record \in Records /\ writing.copy \in Copies /\ writing.row \in Rows
  BY DEF StatusInv, StatusTypeOK, Pending

LEMMA StatusInvNext == StatusInv /\ [StatusNext]_statusVars => StatusInv'
<1> SUFFICES ASSUME StatusInv, [StatusNext]_statusVars PROVE StatusInv'
  OBVIOUS
<1>0. copies \in [Records -> [Copies -> Rows]]
  BY DEF StatusInv, StatusTypeOK
<1>1. ASSUME NEW r \in Records, NEW cell \in Cells, NEW value \in Values,
             BeginUpdate(r, cell, value)
      PROVE  StatusInv'
  BY <1>1, BeginKeeps
<1>2. CASE EndUpdate
  <2>1. copies' \in [Records -> [Copies -> Rows]]
    BY <1>0, <1>2, PendingType DEF EndUpdate
  <2> QED BY <1>2, <2>1, OthersKeep DEF EndUpdate
<1>3. ASSUME NEW a \in Areas, EraseArea(a) PROVE StatusInv'
  <2>1. copies' \in [Records -> [Copies -> Rows]]
    BY <1>0, <1>3, ErasedIsRow DEF EraseArea
  <2> QED BY <1>3, <2>1, OthersKeep DEF EraseArea
<1>4. CASE CutBetween
  BY <1>0, <1>4, OthersKeep DEF CutBetween
<1>5. ASSUME NEW r \in Records, CutErase(r) PROVE StatusInv'
  <2>1. NextCopy(ReadCopy(r)) \in Copies
    BY ReadType, NextIsOther DEF StatusInv
  <2>2. copies' \in [Records -> [Copies -> Rows]]
    BY <1>0, <1>5, <2>1, ErasedIsRow DEF CutErase, ErasedInPart
  <2> QED BY <1>5, <2>2, OthersKeep DEF CutErase
<1>6. CASE CutWrite
  <2>1. copies' \in [Records -> [Copies -> Rows]]
    BY <1>0, <1>6, PendingType, ErasedIsRow DEF CutWrite
  <2> QED BY <1>6, <2>1, OthersKeep DEF CutWrite
<1>7. ASSUME NEW a \in Areas, CutArea(a) PROVE StatusInv'
  <2>1. PICK r \in Records, i \in Copies : \E row \in {ErasedRow, ErasedInPart(copies[r][i])} :
          CutAreaAt(r, i, row)
    BY <1>7 DEF CutArea
  <2>2. PICK row \in {ErasedRow, ErasedInPart(copies[r][i])} : CutAreaAt(r, i, row)
    BY <2>1
  <2>3. row \in Rows
    BY <2>2, ErasedIsRow DEF ErasedInPart
  <2>4. copies' \in [Records -> [Copies -> Rows]]
    BY <1>0, <2>2, <2>3, ErasedIsRow DEF CutAreaAt
  <2> QED BY <1>7, <2>4, OthersKeep DEF CutArea
<1>8. CASE UNCHANGED statusVars
  <2>1. copies' = copies /\ writing' = writing
    BY <1>8 DEF statusVars
  <2> QED BY <2>1 DEF StatusInv, StatusTypeOK, WritesObsoleteCopy
<1> QED BY <1>1, <1>2, <1>3, <1>4, <1>5, <1>6, <1>7, <1>8 DEF StatusNext

---------------------------------------------------------------------------
(* The partition implements StatusPartition *)

live    == {r \in Records : HasValid(r)}
content == [r \in Records |-> IF HasValid(r) THEN ReadPayload(r) ELSE ErasedPayload]
update  == IF writing = NoRow THEN NoRow
           ELSE [record |-> writing.record, payload |-> writing.row.payload]

LEMMA ContentIsHeld == content = [r \in Records |-> Held(copies[r])]
  BY HeldIsContent DEF content

LEMMA ContentIsHeldNext == content' = [r \in Records |-> Held(copies'[r])]
<1> SUFFICES ASSUME NEW r \in Records
             PROVE  (IF HasValid(r)' THEN ReadPayload(r)' ELSE ErasedPayload) = Held(copies'[r])
  BY DEF content
<1>1. HasValid(r)' => ReadPayload(r)' = copies'[r][Newest(copies'[r])].payload
  BY DEF HasValid, Blank, Valid, ReadPayload
<1> QED BY <1>1 DEF Held, HasValid

LEMMA ContentType ==
  ASSUME copies' \in [Records -> [Copies -> Rows]]
  PROVE  content' \in [Records -> [Cells -> Values]]
  BY ContentIsHeldNext, HeldType DEF Payloads

\* A step after which every record holds what it held changes nothing that the
\* specification of the partition speaks of.
LEMMA HoldsIsStutter ==
  ASSUME \A s \in Records : /\ HasValid(s)' <=> HasValid(s)
                            /\ Held(copies'[s]) = Held(copies[s])
  PROVE  live' = live /\ content' = content
<1>1. live' = live
  BY DEF live
<1>2. content' = content
  BY ContentIsHeld, ContentIsHeldNext
<1> QED BY <1>1, <1>2

\* A row that is written makes a record hold what the row says.
LEMMA WrittenIsHeld ==
  ASSUME NEW c \in [Copies -> Rows], NEW k \in Copies, NEW row \in Rows,
         row.magic, row.crc,
         \A i \in Copies : Valid(c, i) => c[i].counter < row.counter
  PROVE  /\ \E i \in Copies : Valid([c EXCEPT ![k] = row], i)
         /\ Held([c EXCEPT ![k] = row]) = row.payload
<1> DEFINE d == [c EXCEPT ![k] = row]
<1>1. d \in [Copies -> Rows] /\ d[k] = row /\ \A i \in Copies \ {k} : d[i] = c[i]
  OBVIOUS
<1>2. Valid(d, k)
  BY <1>1 DEF Valid
<1>3. IsNewest(d, k)
  <2>1. \A j \in Copies \ {k} : Valid(d, j) => d[j].counter < d[k].counter
    BY <1>1 DEF Valid
  <2>2. d[k].counter = d[k].counter /\ k <= k
    BY CopiesAre
  <2> QED BY <1>2, <2>1, <2>2 DEF IsNewest
<1>4. Newest(d) = k
  BY <1>1, <1>3, NewestIs
<1> HIDE DEF d
<1>5. Held(d) = row.payload
  BY <1>1, <1>2, <1>4 DEF Held
<1> QED BY <1>2, <1>5 DEF d

\* The begin of an update leaves what the records hold, and decides what the
\* record will hold: one field of it is new.
LEMMA BeginIsBegin ==
  ASSUME StatusInv, NEW r \in Records, NEW cell \in Cells, NEW value \in Values,
         BeginUpdate(r, cell, value)
  PROVE  Partition!Begin(r, cell, value)
<1> DEFINE payload == [ReadPayload(r) EXCEPT ![cell] = value]
<1>1. \A s \in Records : (HasValid(s)' <=> HasValid(s)) /\ Held(copies'[s]) = Held(copies[s])
  BY ErasedIsRow, BeginHolds DEF BeginUpdate, StatusInv
<1>2. live' = live /\ content' = content
  BY <1>1, HoldsIsStutter
<1>3. ReadPayload(r) \in Payloads
  BY ReadType DEF StatusInv
<1>4. payload \in [Cells -> Values] /\ payload[cell] = value
      /\ \A c \in Cells \ {cell} : payload[c] = ReadPayload(r)[c]
  BY <1>3 DEF Payloads
<1>5. r \in live => content[r] = ReadPayload(r)
  BY DEF live, content
<1>6. update = NoRow
  BY DEF BeginUpdate, update
<1>7. update' = [record |-> r, payload |-> payload]
  <2>1. writing' # NoRow /\ writing'.record = r /\ writing'.row.payload = payload
    BY DEF BeginUpdate, NoRow
  <2> QED BY <2>1 DEF update
<1> HIDE DEF payload
<1> QED BY <1>2, <1>4, <1>5, <1>6, <1>7
        DEF Partition!Begin, Partition!NoUpdate, Partition!Payloads, NoRow, live, content, update

\* The end of an update is the end of one for the partition.
\* The end of an update makes its record hold the row that was written.
LEMMA EndHolds ==
  ASSUME StatusInv, EndUpdate
  PROVE  /\ (\E i \in Copies : Valid(copies'[writing.record], i))
         /\ Held(copies'[writing.record]) = writing.row.payload
         /\ \A s \in Records \ {writing.record} : copies'[s] = copies[s]
<1> DEFINE r == writing.record
           payload == writing.row.payload
<1>1. r \in Records /\ writing.copy \in Copies /\ writing.row \in Rows
  BY PendingType DEF EndUpdate
<1>2. copies \in [Records -> [Copies -> Rows]] /\ copies' \in [Records -> [Copies -> Rows]]
  BY <1>1 DEF EndUpdate, StatusInv, StatusTypeOK
<1>3. copies'[r] = [copies[r] EXCEPT ![writing.copy] = writing.row]
  BY <1>1, <1>2 DEF EndUpdate
<1>4. writing.row.magic /\ writing.row.crc
      /\ \A i \in Copies : Valid(copies[r], i) => copies[r][i].counter < writing.row.counter
  BY DEF EndUpdate, StatusInv, WritesObsoleteCopy
<1>5. (\E i \in Copies : Valid(copies'[r], i)) /\ Held(copies'[r]) = payload
  <2>1. copies[r] \in [Copies -> Rows]
    BY <1>1, <1>2
  <2> DEFINE c == copies[r]
             k == writing.copy
             row == writing.row
  <2>2. c \in [Copies -> Rows] /\ k \in Copies /\ row \in Rows /\ row.magic /\ row.crc
        /\ \A i \in Copies : Valid(c, i) => c[i].counter < row.counter
    BY <1>1, <1>4, <2>1
  <2>3. copies'[r] = [c EXCEPT ![k] = row] /\ payload = row.payload
    BY <1>3
  <2> HIDE DEF r, c, k, row, payload
  <2>4. (\E i \in Copies : Valid([c EXCEPT ![k] = row], i)) /\ Held([c EXCEPT ![k] = row]) = row.payload
    BY <2>2, WrittenIsHeld
  <2> QED BY <2>3, <2>4, Zenon
<1>6. \A s \in Records \ {r} : copies'[s] = copies[s]
  BY <1>1, <1>2 DEF EndUpdate
<1> QED BY <1>5, <1>6

LEMMA EndIsEnd ==
  ASSUME StatusInv, EndUpdate
  PROVE  Partition!End
<1> DEFINE r == writing.record
           payload == writing.row.payload
<1>1. r \in Records
  BY PendingType DEF EndUpdate
<1>5. (\E i \in Copies : Valid(copies'[r], i)) /\ Held(copies'[r]) = payload
  BY EndHolds
<1>6. \A s \in Records \ {r} : copies'[s] = copies[s]
  BY EndHolds
<1>7. live' = live \cup {r}
  BY <1>1, <1>5, <1>6 DEF live, HasValid
<1>8. content' = [content EXCEPT ![r] = payload]
  BY <1>1, <1>5, <1>6, ContentIsHeld, ContentIsHeldNext
<1>9. update # NoRow /\ update.record = r /\ update.payload = payload /\ update' = NoRow
  BY DEF EndUpdate, update, NoRow
<1> HIDE DEF r, payload
<1> QED BY <1>7, <1>8, <1>9 DEF Partition!End, Partition!NoUpdate, NoRow, live, content, update

\* A write that was cut leaves in every record what it held.
LEMMA CutWriteHolds ==
  ASSUME StatusInv, CutWrite
  PROVE  \A s \in Records : /\ HasValid(s)' <=> HasValid(s)
                            /\ Held(copies'[s]) = Held(copies[s])
<1> DEFINE r == writing.record
           k == writing.copy
<1>0. copies \in [Records -> [Copies -> Rows]] /\ copies' \in [Records -> [Copies -> Rows]]
  BY PendingType, ErasedIsRow DEF CutWrite, StatusInv, StatusTypeOK
<1>1. r \in Records /\ k \in Copies /\ copies[r][k] = ErasedRow
  BY PendingType DEF CutWrite, StatusInv, WritesObsoleteCopy
<1>2. /\ copies'[r] = [copies[r] EXCEPT ![k] = TornRow]
      /\ \A s \in Records \ {r} : copies'[s] = copies[s]
  BY <1>0, <1>1 DEF CutWrite
<1>3. (\E i \in Copies : Valid(copies[r], i)) => k # Newest(copies[r])
  BY <1>0, <1>1, NewestExists, ErasedIsRow DEF IsNewest, Valid
<1>4. /\ (\E i \in Copies : Valid(copies'[r], i)) <=> (\E i \in Copies : Valid(copies[r], i))
      /\ Held(copies'[r]) = Held(copies[r])
  <2>1. copies[r] \in [Copies -> Rows] /\ copies'[r] \in [Copies -> Rows]
        /\ copies'[r][k] = TornRow /\ ~copies'[r][k].crc
    BY <1>0, <1>1, <1>2, ErasedIsRow
  <2> QED BY <1>1, <1>2, <1>3, <2>1, ReplaceObsolete
<1> QED BY <1>2, <1>4 DEF HasValid

\* So does an erase before a write that was cut.
LEMMA CutEraseHolds ==
  ASSUME StatusInv, NEW r \in Records, CutErase(r)
  PROVE  \A s \in Records : /\ HasValid(s)' <=> HasValid(s)
                            /\ Held(copies'[s]) = Held(copies[s])
<1>1. NextCopy(ReadCopy(r)) \in Copies
  BY ReadType, NextIsOther DEF StatusInv
<1>2. copies' = [copies EXCEPT ![r][NextCopy(ReadCopy(r))] =
                   ErasedInPart(copies[r][NextCopy(ReadCopy(r))])]
  BY DEF CutErase, StatusInv, StatusTypeOK
<1>3. /\ ErasedInPart(copies[r][NextCopy(ReadCopy(r))]) \in Rows
      /\ ~ErasedInPart(copies[r][NextCopy(ReadCopy(r))]).crc
  BY ErasedIsRow DEF ErasedInPart
<1> QED BY <1>2, <1>3, BeginHolds DEF StatusInv

\* An erase of an area, complete or cut, is an erase of the partition.
LEMMA EraseIsErase ==
  ASSUME NEW a \in Areas, writing = NoRow, writing' = NoRow,
         copies' \in [Records -> [Copies -> Rows]],
         \A s \in Records : AreaOf[s] # a => copies'[s] = copies[s],
         \A s \in Records, i \in Copies : Valid(copies'[s], i) => copies'[s][i] = copies[s][i]
  PROVE  Partition!Erase(a)
<1>1. live' \subseteq live
  BY DEF live, HasValid, Valid
<1>2. live \ live' \subseteq {r \in Records : AreaOf[r] = a}
  BY DEF live, HasValid
<1>3. content' \in [Records -> [Cells -> Values]]
  BY ContentType
<1>4. \A s \in Records \ {r \in Records : AreaOf[r] = a} : content'[s] = content[s]
  BY ContentIsHeld, ContentIsHeldNext
<1>5. update = NoRow /\ update' = NoRow
  BY DEF update
<1> QED
  BY <1>1, <1>2, <1>3, <1>4, <1>5
     DEF Partition!Erase, Partition!Contents, Partition!Payloads, Partition!NoUpdate, NoRow,
         live, content, update

LEMMA StatusStepIsPartition ==
  StatusInv /\ StatusInv' /\ [StatusNext]_statusVars => [Partition!Next]_<<live, content, update>>
<1> SUFFICES ASSUME StatusInv, StatusInv', [StatusNext]_statusVars
             PROVE  [Partition!Next]_<<live, content, update>>
  OBVIOUS
<1>0. copies \in [Records -> [Copies -> Rows]] /\ copies' \in [Records -> [Copies -> Rows]]
  BY DEF StatusInv, StatusTypeOK
<1>1. ASSUME NEW r \in Records, NEW cell \in Cells, NEW value \in Values,
             BeginUpdate(r, cell, value)
      PROVE  Partition!Begin(r, cell, value)
  BY <1>1, BeginIsBegin
<1>2. CASE EndUpdate
  BY <1>2, EndIsEnd DEF Partition!Next
<1>3. ASSUME NEW a \in Areas, EraseArea(a) PROVE Partition!Erase(a)
  <2>1. \A s \in Records : AreaOf[s] # a => copies'[s] = copies[s]
    BY <1>3 DEF EraseArea
  <2>2. \A s \in Records, i \in Copies : Valid(copies'[s], i) => copies'[s][i] = copies[s][i]
    BY <1>3, ErasedIsRow DEF EraseArea, Valid
  <2> QED BY <1>0, <1>3, <2>1, <2>2, EraseIsErase DEF EraseArea
<1>4. ASSUME CutBetween PROVE Partition!Cut
  <2>1. \A s \in Records : (HasValid(s)' <=> HasValid(s)) /\ Held(copies'[s]) = Held(copies[s])
    BY <1>4 DEF CutBetween, HasValid
  <2>2. update' = NoRow
    BY <1>4 DEF CutBetween, update
  <2> QED BY <2>1, <2>2, HoldsIsStutter DEF Partition!Cut, Partition!NoUpdate, NoRow, live, content, update
<1>5. ASSUME NEW r \in Records, CutErase(r)
      PROVE  live' = live /\ content' = content /\ update' = update
  BY <1>5, CutEraseHolds, HoldsIsStutter DEF CutErase, update
<1>6. ASSUME CutWrite PROVE Partition!Cut
  <2>1. update' = NoRow
    BY <1>6 DEF CutWrite, update
  <2> QED BY <1>6, <2>1, CutWriteHolds, HoldsIsStutter
          DEF Partition!Cut, Partition!NoUpdate, NoRow, live, content, update
<1>7. ASSUME NEW a \in Areas, CutArea(a) PROVE Partition!Erase(a)
  <2>1. PICK r \in {s \in Records : AreaOf[s] = a}, i \in Copies :
          \E row \in {ErasedRow, ErasedInPart(copies[r][i])} : CutAreaAt(r, i, row)
    BY <1>7 DEF CutArea
  <2>2. PICK row \in {ErasedRow, ErasedInPart(copies[r][i])} : CutAreaAt(r, i, row)
    BY <2>1
  <2>3. ~row.crc
    BY <2>2, ErasedIsRow DEF ErasedInPart
  <2>4. \A s \in Records : AreaOf[s] # a => copies'[s] = copies[s]
    <3>1. \A s \in Records : AreaOf[s] # a => copies'[s] = [j \in Copies |-> copies[s][j]]
      BY <2>1, <2>2 DEF CutAreaAt
    <3> QED BY <1>0, <3>1
  <2>5. \A s \in Records, j \in Copies :
          copies'[s][j] \in {ErasedRow, row, copies[s][j]}
    BY <2>2 DEF CutAreaAt
  <2>6. \A s \in Records, j \in Copies : Valid(copies'[s], j) => copies'[s][j] = copies[s][j]
    BY <2>3, <2>5, ErasedIsRow DEF Valid
  <2>7. writing = NoRow /\ writing' = NoRow
    BY <1>7 DEF CutArea
  <2> QED BY <1>0, <2>4, <2>6, <2>7, EraseIsErase
<1>8. CASE UNCHANGED statusVars
  <2>1. \A s \in Records : (HasValid(s)' <=> HasValid(s)) /\ Held(copies'[s]) = Held(copies[s])
    BY <1>8 DEF statusVars, HasValid
  <2> QED BY <1>8, <2>1, HoldsIsStutter DEF statusVars, update
<1> QED BY <1>1, <1>2, <1>3, <1>4, <1>5, <1>6, <1>7, <1>8 DEF StatusNext, Partition!Next

LEMMA StatusInitIsPartition == StatusInit => Partition!Init
<1> SUFFICES ASSUME StatusInit PROVE Partition!Init
  OBVIOUS
<1>1. \A r \in Records : ~HasValid(r)
  BY ErasedIsRow DEF StatusInit, HasValid, Valid
<1>2. content \in [Records -> [Cells -> Values]]
  BY <1>1, ErasedIsRow DEF content, Payloads
<1> QED BY <1>1, <1>2
        DEF StatusInit, Partition!Init, Partition!Contents, Partition!Payloads, Partition!NoUpdate, NoRow,
            live, content

\* The partition keeps its invariant, whatever its users do and whenever the
\* power fails.
THEOREM StatusInvariant == StatusSpec => []StatusInv
<1>1. StatusInit => StatusInv
  BY StatusInvInit
<1>2. StatusInv /\ [StatusNext]_statusVars => StatusInv'
  BY StatusInvNext
<1> QED BY <1>1, <1>2, PTL DEF StatusSpec

\* The copies of a record, their counters and their CRCs, as swap_status_update()
\* uses them, make a partition whose updates happen as a whole or not at all.
THEOREM StatusImplementsPartition == StatusSpec => UpdatesAreAtomic
<1>1. StatusInit => Partition!Init
  BY StatusInitIsPartition
<1>2. StatusInv /\ StatusInv' /\ [StatusNext]_statusVars => [Partition!Next]_<<live, content, update>>
  BY StatusStepIsPartition
<1>3. StatusSpec => []StatusInv
  BY StatusInvariant
<1> QED BY <1>1, <1>2, <1>3, PTL DEF StatusSpec, UpdatesAreAtomic, Partition!Spec, live, content, update

---------------------------------------------------------------------------
(* The functions of the library are sequences of accesses to the flash *)

AnAccess == StatusAccess \cup SlotAccess

LEMMA Names ==
  /\ Primary \in Areas /\ Secondary \in Areas /\ Primary # Secondary
  /\ \A a \in Areas : a \in {Primary, Secondary} /\ Trailer(a) \in Records
  /\ SwapRow \in Records
  /\ {"status", "swap_size", "swap_info", "copy_done", "image_ok", "magic"} \subseteq Cells
  /\ {"set", "TEST", "PERM"} \subseteq Values
  BY TrailerAssumption DEF Primary, Secondary

LEMMA UpdateTyped ==
  ASSUME NEW r \in Records, NEW cell \in Cells, NEW value \in Values, NEW c \in Completions
  PROVE  StatusUpdate(r, cell, value, c) \in AnAccess
  BY DEF StatusUpdate, Access, StatusAccess, AnAccess

LEMMA SlotTyped ==
  ASSUME NEW a \in Areas,
         NEW op \in {"erase_area", "slot", "erase_trailer", "erase_slot", "fill_slot", "copy_trailer"},
         NEW cell \in {"magic", "image_ok", "-"}, NEW value \in {"set", "-"}, NEW c \in Completions
  PROVE  Access(op, a, cell, value, c) \in AnAccess
  BY DEF Access, SlotAccess, AnAccess

LEMMA Typed0 == <<>> \in Seq(AnAccess)
  OBVIOUS

LEMMA Typed1 == ASSUME NEW x \in AnAccess PROVE <<x>> \in Seq(AnAccess)
  OBVIOUS

LEMMA Joined ==
  ASSUME NEW s \in Seq(AnAccess), NEW t \in Seq(AnAccess)
  PROVE  s \o t \in Seq(AnAccess)
  OBVIOUS

LEMMA WhenTyped ==
  ASSUME NEW condition, NEW s \in Seq(AnAccess)
  PROVE  When(condition, s) \in Seq(AnAccess)
  BY DEF When

\* Reading the state of a slot.
LEMMA ReadTyped ==
  ASSUME NEW a \in Areas
  PROVE  ReadSwapState(a) \in Seq(AnAccess)
<1>1. <<StatusUpdate(Trailer(a), "magic", "set", "-")>> \in Seq(AnAccess)
  BY Names, UpdateTyped, Typed1 DEF Completions
<1>2. <<StatusUpdate(Trailer(a), "image_ok", "set", "-")>> \in Seq(AnAccess)
  BY Names, UpdateTyped, Typed1 DEF Completions
<1>3. <<EraseTrailer(a)>> \in Seq(AnAccess)
  BY SlotTyped, Typed1 DEF EraseTrailer, Completions
<1> QED BY <1>1, <1>2, <1>3, WhenTyped, Joined DEF ReadSwapState

LEMMA EraseTyped ==
  ASSUME NEW a \in Areas
  PROVE  EraseTrailerSectors(a) \in Seq(AnAccess)
<1>1. EraseStatus(a) \in AnAccess /\ EraseTrailer(a) \in AnAccess
  BY SlotTyped DEF EraseTrailer, EraseStatus, Completions
<1> QED BY <1>1 DEF EraseTrailerSectors

LEMMA InitStepsTyped ==
  ASSUME NEW type \in {"TEST", "PERM"}, NEW image_ok
  PROVE  StatusInitSteps(type, image_ok) \in Seq(AnAccess)
<1>1. <<StatusUpdate(Trailer(Primary), "swap_info", type, "-")>> \in Seq(AnAccess)
  BY Names, UpdateTyped, Typed1 DEF Completions
<1>2. <<StatusUpdate(Trailer(Primary), "image_ok", "set", "-")>> \in Seq(AnAccess)
  BY Names, UpdateTyped, Typed1 DEF Completions
<1>3. /\ StatusUpdate(Trailer(Primary), "swap_size", "set", "-") \in AnAccess
      /\ StatusUpdate(Trailer(Primary), "magic", "set", "-") \in AnAccess
  BY Names, UpdateTyped DEF Completions
<1>4. <<StatusUpdate(Trailer(Primary), "swap_size", "set", "-"),
        StatusUpdate(Trailer(Primary), "magic", "set", "-")>> \in Seq(AnAccess)
  BY <1>3
<1> QED BY <1>1, <1>2, <1>4, WhenTyped, Joined DEF StatusInitSteps

LEMMA FinishTyped == Exchange \in Seq(AnAccess) /\ FinishSwap \in Seq(AnAccess)
<1>1. Exchange \in Seq(AnAccess)
  BY Names, UpdateTyped, Typed1 DEF Exchange, Completions
<1>2. /\ EraseTrailer(Primary) \in AnAccess
      /\ Access("copy_trailer", Primary, "-", "-", "-") \in AnAccess
      /\ StatusUpdate(Trailer(Primary), "copy_done", "set", "-") \in AnAccess
  BY Names, UpdateTyped, SlotTyped DEF EraseTrailer, Completions
<1>3. CopyDoneSteps \in Seq(AnAccess)
  BY <1>2 DEF CopyDoneSteps
<1> QED BY <1>1, <1>3, Names, EraseTyped, Joined DEF FinishSwap

LEMMA LoaderTyped == LoaderSteps \in Seq(AnAccess)
<1>1. ReadBoth \in Seq(AnAccess)
  BY Names, ReadTyped, Joined DEF ReadBoth
<1>2. When(~Exchanged, Exchange) \o FinishSwap \in Seq(AnAccess)
  BY FinishTyped, WhenTyped, Joined
<1>3. ReadBoth \o EraseTrailerSectors(Secondary) \in Seq(AnAccess)
  BY <1>1, Names, EraseTyped, Joined
<1>4. Decision \in {"TEST", "PERM"} =>
        ReadBoth \o EraseTrailerSectors(Primary)
          \o StatusInitSteps(Decision, SwapState(Secondary).image_ok)
          \o Exchange \o FinishSwap \in Seq(AnAccess)
  BY <1>1, Names, EraseTyped, InitStepsTyped, FinishTyped, Joined
<1>5. <<StatusUpdate(Trailer(Primary), "image_ok", "set", "revert")>> \in Seq(AnAccess)
  BY Names, UpdateTyped, Typed1 DEF Completions
<1>6. ReadBoth \o <<StatusUpdate(Trailer(Primary), "image_ok", "set", "revert")>> \in Seq(AnAccess)
  BY <1>1, <1>5, Joined
<1> QED BY <1>1, <1>2, <1>3, <1>4, <1>6 DEF LoaderSteps

---------------------------------------------------------------------------
(* The library uses the partition as it is meant to be used *)

Inv == TypeOK /\ WritesObsoleteCopy

\* The access that runs is one of the partition or one of a slot.
LEMMA RunningTyped ==
  ASSUME TypeOK, NEW op, Running(op)
  PROVE  /\ Head(todo) \in AnAccess /\ Tail(todo) \in Seq(AnAccess)
         /\ op = "status" => /\ Head(todo).at \in Records /\ Head(todo).cell \in Cells
                             /\ Head(todo).value \in Values
         /\ op # "status" => Head(todo).at \in Areas
<1>1. todo \in Seq(AnAccess) /\ todo # <<>> /\ Head(todo).op = op
  BY DEF TypeOK, Running, AnAccess
<1>2. Head(todo) \in AnAccess /\ Tail(todo) \in Seq(AnAccess)
  BY <1>1
<1> HIDE DEF AnAccess
<1>3. \A x \in AnAccess : x.op = "status" => x.at \in Records /\ x.cell \in Cells /\ x.value \in Values
  BY DEF AnAccess, StatusAccess, SlotAccess
<1>4. \A x \in AnAccess : x.op # "status" => x.at \in Areas
  BY DEF AnAccess, StatusAccess, SlotAccess
<1> QED BY <1>1, <1>2, <1>3, <1>4

\* Every step of the program is a step of the partition, or leaves it alone.
LEMMA StepIsStatusStep ==
  ASSUME TypeOK, [Next]_vars
  PROVE  [StatusNext]_statusVars
<1> USE DEF statusVars
<1>1. CASE Accesses
  <2>1. CASE UpdateBegins
    BY <2>1, RunningTyped DEF UpdateBegins, StatusNext
  <2>2. CASE UpdateEnds
    BY <2>2 DEF UpdateEnds, StatusNext
  <2>3. CASE AreaErased
    BY <2>3, RunningTyped DEF AreaErased, StatusNext
  <2>4. CASE UpdateFails \/ SlotWritten \/ TrailerErased \/ TrailerCopied \/ SlotErased \/ SlotFilled
    BY <2>4 DEF UpdateFails, SlotWritten, TrailerErased, TrailerCopied, SlotErased, SlotFilled,
                SlotTrailer
  <2> QED BY <1>1, <2>1, <2>2, <2>3, <2>4 DEF Accesses
<1>2. CASE PowerFailure
  <2>1. CASE PowerFailsInUpdate
    BY <2>1, RunningTyped DEF PowerFailsInUpdate, StatusNext
  <2>2. CASE PowerFailsInErase
    BY <2>2, RunningTyped DEF PowerFailsInErase, StatusNext
  <2>3. CASE PowerFailsBetween \/ PowerFailsInWrite \/ PowerFailsInMagic \/ PowerFailsInSlot
    BY <2>3 DEF PowerFailsBetween, PowerFailsInWrite, PowerFailsInMagic, PowerFailsInSlot, StatusNext
  <2> QED BY <1>2, <2>1, <2>2, <2>3 DEF PowerFailure
<1>3. CASE Application
  BY <1>3 DEF Application, Download, cy_ota_storage_validated, boot_set_pending, boot_set_confirmed,
              Restart, Call
<1>4. CASE Boot \/ StartApp
  BY <1>4 DEF Boot, StartApp
<1>5. CASE UNCHANGED vars
  BY <1>5 DEF vars
<1> QED BY <1>1, <1>2, <1>3, <1>4, <1>5 DEF Next

LEMMA InvInit == Init => Inv
<1> SUFFICES ASSUME Init PROVE Inv
  OBVIOUS
<1>1. StatusTypeOK /\ WritesObsoleteCopy
  BY StatusInvInit DEF Init, StatusInv
<1>2. slot \in [Areas -> [magic : {"unset", "good", "bad"}, image_ok : BOOLEAN]]
  BY DEF Init, ErasedSlot
<1>3. image \in [Areas -> Images]
  BY TrailerAssumption DEF Init, Images, NoImage
<1>4. bounds \in [downloads : 0..MaxDownloads, calls : 0..MaxCalls, cuts : 0..MaxCuts]
  BY TrailerAssumption DEF Init
<1>5. todo \in Seq(StatusAccess \cup SlotAccess)
  BY DEF Init
<1>6. harm \in [first : SUBSET Records, area : BOOLEAN, stale : BOOLEAN]
  BY DEF Init
<1>7. /\ mode \in {"reset", "boot", "app", "panic"} /\ asked \in {"none", "TEST", "PERM"}
      /\ trial \in BOOLEAN /\ confirmed \in BOOLEAN
  BY DEF Init
<1> QED BY <1>1, <1>2, <1>3, <1>4, <1>5, <1>6, <1>7 DEF Inv, TypeOK

SlotTrailers == [magic : {"unset", "good", "bad"}, image_ok : BOOLEAN]

\* An access that writes one slot keeps the types of the slots.
LEMMA SlotsTyped ==
  ASSUME TypeOK, NEW trailer \in SlotTrailers, SlotTrailer(trailer)
  PROVE  slot' \in [Areas -> SlotTrailers]
  BY DEF SlotTrailer, TypeOK, SlotTrailers

\* What an access completes keeps its types.
LEMMA CompletedTyped ==
  ASSUME TypeOK, NEW c, Completed(c)
  PROVE  /\ image' \in [Areas -> Images] /\ asked' \in {"none", "TEST", "PERM"}
         /\ trial' \in BOOLEAN /\ confirmed' \in BOOLEAN /\ harm' = harm
<1>1. image' \in [Areas -> Images]
  BY Names DEF Completed, TypeOK
<1>2. asked' \in {"none", "TEST", "PERM"}
  BY DEF Completed, TypeOK
<1>3. trial' \in BOOLEAN /\ confirmed' \in BOOLEAN
  BY DEF Completed, TypeOK
<1> QED BY <1>1, <1>2, <1>3 DEF Completed

\* So does the use of a bound.
LEMMA BoundTyped ==
  ASSUME TypeOK, NEW b \in {"downloads", "calls", "cuts"}, UseBound(b)
  PROVE  bounds' \in [downloads : 0..MaxDownloads, calls : 0..MaxCalls, cuts : 0..MaxCuts]
<1>1. bounds[b] \in Nat /\ bounds[b] > 0
  BY TrailerAssumption DEF TypeOK, UseBound
<1> QED BY <1>1, TrailerAssumption DEF TypeOK, UseBound

LEMMA AccessTyped ==
  ASSUME TypeOK, StatusTypeOK', Accesses
  PROVE  TypeOK'
<1> USE DEF AnAccess
<1>1. CASE UpdateBegins \/ UpdateFails
  <2>1. todo' \in Seq(AnAccess) /\ mode' \in {"reset", "boot", "app", "panic"}
    BY <1>1, Typed0 DEF UpdateBegins, UpdateFails, TypeOK
  <2> QED BY <1>1, <2>1 DEF UpdateBegins, UpdateFails, TypeOK, flash, history
<1>2. CASE UpdateEnds
  BY <1>2, RunningTyped, CompletedTyped DEF UpdateEnds, TypeOK
<1>3. CASE AreaErased
  BY <1>3, RunningTyped DEF AreaErased, TypeOK, flash, history
<1>4. CASE SlotWritten
  <2> DEFINE x == slot[Head(todo).at]
             y == [x EXCEPT !.magic    = IF Head(todo).cell = "magic" THEN "good" ELSE @,
                            !.image_ok = @ \/ Head(todo).cell = "image_ok"]
  <2>1. x \in SlotTrailers
    BY <1>4, RunningTyped DEF SlotWritten, TypeOK, SlotTrailers
  <2>2. y \in SlotTrailers
    <3> HIDE DEF x
    <3>1. (x.image_ok \/ Head(todo).cell = "image_ok") \in BOOLEAN
      OBVIOUS
    <3> QED BY <2>1, <3>1 DEF SlotTrailers
  <2>3. SlotTrailer(y)
    BY <1>4 DEF SlotWritten
  <2> HIDE DEF y
  <2>4. slot' \in [Areas -> SlotTrailers]
    BY <2>2, <2>3, SlotsTyped
  <2> QED BY <1>4, <2>4, RunningTyped, CompletedTyped
          DEF SlotWritten, SlotTrailer, TypeOK, SlotTrailers
<1>5. CASE TrailerErased \/ TrailerCopied
  <2>1. ErasedSlot \in SlotTrailers
        /\ [magic |-> "good", image_ok |-> Field(Primary, "image_ok") # Erased] \in SlotTrailers
    BY DEF ErasedSlot, SlotTrailers
  <2>2. slot' \in [Areas -> SlotTrailers]
    BY <1>5, <2>1, SlotsTyped DEF TrailerErased, TrailerCopied
  <2>3. todo' \in Seq(AnAccess)
    BY <1>5, RunningTyped DEF TrailerErased, TrailerCopied, SlotTrailer
  <2> QED BY <1>5, <2>2, <2>3
          DEF TrailerErased, TrailerCopied, SlotTrailer, TypeOK, history, SlotTrailers
<1>6. CASE SlotErased \/ SlotFilled
  <2>1. ErasedSlot \in SlotTrailers /\ slot[Secondary] \in SlotTrailers
    BY Names DEF ErasedSlot, SlotTrailers, TypeOK
  <2>2. slot' \in [Areas -> SlotTrailers]
    BY <1>6, <2>1, SlotsTyped DEF SlotErased, SlotFilled
  <2>3. todo' \in Seq(AnAccess)
    BY <1>6, RunningTyped DEF SlotErased, SlotFilled, SlotTrailer
  <2>4. NoImage \in Images /\ 1 + MaxDownloads - bounds["downloads"] \in Images
    BY TrailerAssumption DEF TypeOK, Images, NoImage
  <2>5. image' \in [Areas -> Images]
    BY <1>6, <2>4 DEF SlotErased, SlotFilled, TypeOK
  <2> QED BY <1>6, <2>2, <2>3, <2>5
          DEF SlotErased, SlotFilled, SlotTrailer, TypeOK, history, SlotTrailers
<1> QED BY <1>1, <1>2, <1>3, <1>4, <1>5, <1>6 DEF Accesses

LEMMA PowerTyped ==
  ASSUME TypeOK, StatusTypeOK', PowerFailure
  PROVE  TypeOK'
<1>1. PowerFails
  BY DEF PowerFailure, PowerFailsBetween, PowerFailsInUpdate, PowerFailsInWrite, PowerFailsInErase,
         PowerFailsInMagic, PowerFailsInSlot
<1>2. bounds' \in [downloads : 0..MaxDownloads, calls : 0..MaxCalls, cuts : 0..MaxCuts]
  BY <1>1, BoundTyped DEF PowerFails
<1>3. todo' \in Seq(StatusAccess \cup SlotAccess) /\ mode' = "reset"
      /\ trial' = trial /\ confirmed' = confirmed
  BY <1>1 DEF PowerFails
<1>4. CASE PowerFailsBetween \/ PowerFailsInUpdate \/ PowerFailsInErase
  BY <1>2, <1>3, <1>4 DEF PowerFailsBetween, PowerFailsInUpdate, PowerFailsInErase, TypeOK, flash
<1>5. CASE PowerFailsInWrite
  <2>1. Head(todo).at \in Records
    BY <1>5, RunningTyped DEF PowerFailsInWrite
  <2> QED BY <1>2, <1>3, <1>5, <2>1 DEF PowerFailsInWrite, TypeOK, flash
<1>6. CASE PowerFailsInMagic
  <2>1. slot' \in [Areas -> [magic : {"unset", "good", "bad"}, image_ok : BOOLEAN]]
    BY <1>6 DEF PowerFailsInMagic, TypeOK
  <2> QED BY <1>2, <1>3, <1>6, <2>1 DEF PowerFailsInMagic, TypeOK
<1>7. CASE PowerFailsInSlot
  <2>1. image' \in [Areas -> Images]
    BY <1>7, TrailerAssumption DEF PowerFailsInSlot, TypeOK, Images, NoImage
  <2> QED BY <1>2, <1>3, <1>7, <2>1 DEF PowerFailsInSlot, TypeOK
<1> QED BY <1>4, <1>5, <1>6, <1>7 DEF PowerFailure

LEMMA CallTyped ==
  ASSUME TypeOK, StatusTypeOK', Application
  PROVE  TypeOK'
<1> USE DEF flash, history
<1>1. CASE Download
  <2>1. /\ Access("erase_slot", Secondary, "-", "-", "-") \in AnAccess
        /\ Access("fill_slot", Secondary, "-", "-", "-") \in AnAccess
        /\ SlotWrite(Secondary, "magic", "TEST") \in AnAccess
    BY Names, SlotTyped DEF SlotWrite, Completions
  <2>2. todo' \in Seq(AnAccess)
    BY <1>1, <2>1 DEF Download, Call
  <2>3. harm' \in [first : SUBSET Records, area : BOOLEAN, stale : BOOLEAN]
    BY <1>1 DEF Download, TypeOK
  <2> QED BY <1>1, <2>2, <2>3, BoundTyped DEF Download, Call, TypeOK, AnAccess
<1>2. CASE cy_ota_storage_validated
  <2>1. SlotWrite(Primary, "magic", "-") \in AnAccess /\ SlotWrite(Primary, "image_ok", "confirm") \in AnAccess
    BY Names, SlotTyped DEF SlotWrite, Completions
  <2>2. todo' \in Seq(AnAccess)
    BY <1>2, <2>1 DEF cy_ota_storage_validated, Call
  <2> QED BY <1>2, <2>2, BoundTyped DEF cy_ota_storage_validated, Call, TypeOK, AnAccess
<1>3. ASSUME NEW permanent \in BOOLEAN, boot_set_pending(permanent) PROVE TypeOK'
  <2>1. ReadSwapState(Secondary) \in Seq(AnAccess)
    BY Names, ReadTyped
  <2>2. <<StatusUpdate(Trailer(Secondary), "magic", "set", "TEST")>> \in Seq(AnAccess)
    BY Names, UpdateTyped, Typed1 DEF Completions
  <2>3. When(permanent, <<StatusUpdate(Trailer(Secondary), "image_ok", "set", "PERM")>>) \in Seq(AnAccess)
    BY Names, UpdateTyped, Typed1, WhenTyped DEF Completions
  <2>4. <<StatusUpdate(Trailer(Secondary), "swap_info", IF permanent THEN "PERM" ELSE "TEST", "-")>>
          \in Seq(AnAccess)
    BY Names, UpdateTyped, Typed1 DEF Completions
  <2>5. <<Access("erase_slot", Secondary, "-", "-", "-")>> \in Seq(AnAccess)
    BY Names, SlotTyped, Typed1 DEF Completions
  <2>6. SwapState(Secondary).magic \in {"good", "unset", "bad"}
    BY Names DEF SwapState, MagicInSlot, TypeOK
  <2>7. todo' \in Seq(AnAccess)
    BY <1>3, <2>1, <2>2, <2>3, <2>4, <2>5, <2>6, Typed0, Joined DEF boot_set_pending, Call
  <2> QED BY <1>3, <2>7, BoundTyped DEF boot_set_pending, Call, TypeOK, AnAccess
<1>4. CASE boot_set_confirmed
  <2>1. <<StatusUpdate(Trailer(Primary), "image_ok", "set", "confirm")>> \in Seq(AnAccess)
    BY Names, UpdateTyped, Typed1 DEF Completions
  <2>2. todo' \in Seq(AnAccess)
    BY <1>4, <2>1, Names, ReadTyped, WhenTyped, Joined DEF boot_set_confirmed, Call
  <2> QED BY <1>4, <2>2, BoundTyped DEF boot_set_confirmed, Call, TypeOK, AnAccess
<1>5. CASE Restart
  BY <1>5 DEF Restart, TypeOK
<1> QED BY <1>1, <1>2, <1>3, <1>4, <1>5 DEF Application

LEMMA InvNext == Inv /\ [Next]_vars => Inv'
<1> SUFFICES ASSUME Inv, [Next]_vars PROVE Inv'
  OBVIOUS
<1>1. StatusInv'
  BY StepIsStatusStep, StatusInvNext DEF Inv, TypeOK, StatusInv
<1>2. CASE Accesses
  BY <1>1, <1>2, AccessTyped DEF Inv, StatusInv
<1>3. CASE PowerFailure
  BY <1>1, <1>3, PowerTyped DEF Inv, StatusInv
<1>4. CASE Application
  BY <1>1, <1>4, CallTyped DEF Inv, StatusInv
<1>5. CASE Boot \/ StartApp
  BY <1>1, <1>5, LoaderTyped, Typed0 DEF Inv, StatusInv, Boot, StartApp, TypeOK, AnAccess, flash, history
<1>6. CASE UNCHANGED vars
  BY <1>1, <1>6 DEF Inv, StatusInv, TypeOK, vars, flash, history
<1> QED BY <1>2, <1>3, <1>4, <1>5, <1>6 DEF Next

\* The types hold, and every write to the partition goes to a copy nobody needs
\* (swap_status_update(), boot_read_swap_state(), boot_set_pending(),
\* boot_set_confirmed() and the boot loader).
THEOREM TrailerInvariant == Spec => [](TypeOK /\ WritesObsoleteCopy)
<1>1. Init => Inv
  BY InvInit
<1>2. Inv /\ [Next]_vars => Inv'
  BY InvNext
<1> QED BY <1>1, <1>2, PTL DEF Spec, Inv

\* The program, with the failures of its power, uses the partition as SwapStatus
\* says it may be used ...
THEOREM TrailerUsesStatus == Spec => StatusSpec
<1>1. Init => StatusInit
  BY DEF Init
<1>2. TypeOK /\ [Next]_vars => [StatusNext]_statusVars
  BY StepIsStatusStep
<1> QED BY <1>1, <1>2, TrailerInvariant, PTL DEF Spec, StatusSpec

\* ... so that each update of a trailer happens as a whole or not at all.
THEOREM TrailerUpdatesAreAtomic == Spec => UpdatesAreAtomic
  BY TrailerUsesStatus, StatusImplementsPartition, PTL
=============================================================================
