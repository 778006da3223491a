----------------------------- MODULE FlashAreas -----------------------------
(* The flash under the slots.  Internal flash is written and erased by rows   *)
(* (cy_flash_psoc6.c), so that what shares a row is saved and put back;       *)
(* external flash is erased by sectors (ota_serial_flash.c) behind a map that *)
(* keeps an access in its area (cy_flash_map.c of the 20829).  A flash is a   *)
(* function from offsets to bytes, and so is what is written: data[i] is the  *)
(* byte meant for offset i.                                                   *)
EXTENDS Integers, FiniteSets

CONSTANTS
  Row,        \* CY_FLASH_SIZEOF_ROW
  Sector,     \* the erase size of the external flash, a power of two
  Size,       \* bytes of the flash
  Width,      \* of an offset, 2^32 in the code
  Erased      \* the byte that an erase leaves

ASSUME FlashAssumption ==
  /\ Row \in Nat \ {0} /\ Sector \in Nat \ {0} /\ Size \in Nat /\ Width \in Nat
  /\ Size % Row = 0 /\ Size % Sector = 0
  /\ 2 * Size <= Width

RowOf(address) == address \div Row
Bytes(from, length) == from..(from + length - 1)
EraseRows(flash, rows) == [i \in DOMAIN flash |-> IF RowOf(i) \in rows THEN Erased ELSE flash[i]]

------------------------------------------------------------------------------
(* Internal flash                                                             *)

\* psoc6_flash_write_hal(): rows with nothing new are skipped, the others are
\* written with what they held around the data, up to the first that fails.
WriteHal(flash, data, address, length, fails) ==
  LET new(i) == i \in Bytes(address, length) /\ flash[i] # data[i]
      differing == {RowOf(i) : i \in {j \in DOMAIN flash : new(j)}}
      done == {r \in differing : \A f \in fails \cap differing : r < f}
  IN  IF address + length > Size THEN flash
      ELSE [i \in DOMAIN flash |-> IF i \in Bytes(address, length) /\ RowOf(i) \in done
                                   THEN data[i] ELSE flash[i]]

\* psoc6_flash_erase(): the whole rows, then the first and the last if the area
\* takes part of them.  The count of whole rows wraps when the area lies within
\* one row and does not begin it: the rows to the end of the flash go.
WholeRows(address, size) ==
  LET first == RowOf(address) + (IF address % Row # 0 THEN 1 ELSE 0)
      end == RowOf(address + size)
  IN  IF first <= end THEN first..(end - 1) ELSE first..(RowOf(Size) - 1)
RowErase(flash, address, size) ==
  LET end == address + size
      whole == EraseRows(flash, WholeRows(address, size))
      start == EraseRows(whole, {RowOf(address)})
      first == IF address % Row = 0 THEN whole
               ELSE WriteHal(start, whole, RowOf(address) * Row, address % Row, {})
      last == EraseRows(first, {RowOf(end)})
  IN  IF end % Row = 0 THEN first ELSE WriteHal(last, first, end, Row - (end % Row), {})

------------------------------------------------------------------------------
(* External flash                                                             *)

\* The sectors that ota_smif_erase() erases: it moves the offset down to its
\* sector and the length up to the next one, but takes the whole chip as it is.
SectorRange(offset, length) ==
  LET diff == offset % Sector
      up == (length + diff + Sector - 1) % Width
  IN  IF offset = 0 /\ length = Size THEN 0..(Size - 1)
      ELSE Bytes(offset - diff, up - (up % Sector))
\* The driver refuses what goes past the end of the flash.
SectorErase(flash, offset, length) ==
  IF SectorRange(offset, length) \subseteq DOMAIN flash
  THEN [i \in DOMAIN flash |-> IF i \in SectorRange(offset, length) THEN Erased ELSE flash[i]]
  ELSE flash

\* Mutant of OutOfBounds: only the end is compared, and it wraps.
OutOfBoundsEnd(area, offset, length) == (offset + length) % Width > area.size
\* The check before every access to an area; the sum wraps as the code's does.
OutOfBounds(area, offset, length) ==
  \/ offset > area.size
  \/ length > area.size
  \/ (offset + length) % Width > area.size

\* flash_area_write() and flash_area_erase() of an external area.
AreaWrite(flash, area, data, offset, length) ==
  IF OutOfBounds(area, offset, length) THEN flash
  ELSE [i \in DOMAIN flash |-> IF i \in Bytes(area.off + offset, length) THEN data[i] ELSE flash[i]]
AreaErase(flash, area, offset, length) ==
  IF OutOfBounds(area, offset, length) THEN flash
  ELSE SectorErase(flash, area.off + offset, length)
=============================================================================
