---------------------------- MODULE AlgorithmProofs ----------------------------
(* Theorems about the algorithms below the slots and below the signature      *)
(* check: writing and erasing the flash keeps what lies beside it, for every  *)
(* row, sector, size and content.                                             *)
EXTENDS MCAlgorithms, WellFoundedInduction, TLAPS

------------------------------------------------------------------------------
(* Division                                                                   *)

LEMMA DivMod ==
  ASSUME NEW n \in Nat, NEW r \in Nat \ {0}
  PROVE  /\ n \div r \in Nat /\ n % r \in 0..(r - 1)
         /\ n = (n \div r) * r + (n % r)
  BY Z3T(30)

LEMMA ProductsOrdered ==
  ASSUME NEW a \in Nat, NEW b \in Nat, NEW r \in Nat, a <= b
  PROVE  a * r <= b * r
<1>1. (b - a) * r >= 0
  BY Z3
<1>2. (b - a) * r = b * r - a * r
  BY Z3
<1>3. a * r \in Nat /\ b * r \in Nat
  BY Z3
<1> QED BY <1>1, <1>2, <1>3

LEMMA ProductNext ==
  ASSUME NEW a \in Nat, NEW r \in Nat
  PROVE  (a + 1) * r = a * r + r /\ a * r \in Nat
  BY Z3

\* The quotient is the number of whole parts.
LEMMA QuotientOrdered ==
  ASSUME NEW i \in Nat, NEW r \in Nat \ {0}, NEW k \in Nat
  PROVE  k <= i \div r <=> k * r <= i
<1> DEFINE q == i \div r
<1>1. q \in Nat /\ q * r <= i /\ i < q * r + r /\ q * r \in Nat
  BY DivMod, ProductNext
<1> HIDE DEF q
<1>2. ASSUME k <= q PROVE k * r <= i
  BY <1>1, <1>2, ProductsOrdered, ProductNext
<1>3. ASSUME ~(k <= q) PROVE ~(k * r <= i)
  <2>1. q + 1 <= k
    BY <1>1, <1>3
  <2>2. (q + 1) * r <= k * r
    BY <1>1, <2>1, ProductsOrdered
  <2> QED BY <1>1, <2>2, ProductNext
<1> QED BY <1>2, <1>3 DEF q

------------------------------------------------------------------------------
(* Rows of the internal flash                                                 *)

\* A flash of this size; what it holds may be anything.
IsFlash(flash) == flash = [i \in 0..(Size - 1) |-> flash[i]]

LEMMA RowOfIs ==
  ASSUME NEW i \in Nat
  PROVE  /\ RowOf(i) \in Nat /\ RowOf(i) * Row \in Nat
         /\ i % Row \in 0..(Row - 1)
         /\ i = RowOf(i) * Row + (i % Row)
         /\ \A r \in Nat : r <= RowOf(i) <=> r * Row <= i
  BY FlashAssumption, DivMod, ProductNext, QuotientOrdered DEF RowOf

LEMMA FlashDomain ==
  ASSUME NEW flash, IsFlash(flash)
  PROVE  DOMAIN flash = 0..(Size - 1)
  BY DEF IsFlash

\* A write keeps the size of the flash.
LEMMA WriteKeepsSize ==
  ASSUME NEW flash, NEW data, NEW address, NEW length, NEW fails, IsFlash(flash)
  PROVE  IsFlash(WriteHal(flash, data, address, length, fails))
  BY FlashDomain DEF IsFlash, WriteHal

\* Where all the rows are written, the data is in its place.
LEMMA WriteIs ==
  ASSUME NEW flash, NEW data, NEW address, NEW length, NEW i,
         IsFlash(flash), address \in Nat, length \in Nat, address + length <= Size,
         i \in 0..(Size - 1)
  PROVE  WriteHal(flash, data, address, length, {})[i]
           = IF i \in Bytes(address, length) THEN data[i] ELSE flash[i]
<1> DEFINE new(j) == j \in Bytes(address, length) /\ flash[j] # data[j]
           differing == {RowOf(k) : k \in {j \in DOMAIN flash : new(j)}}
           done == {r \in differing : \A f \in {} \cap differing : r < f}
<1>0. DOMAIN flash = 0..(Size - 1)
  BY FlashDomain
<1>1. done = differing
  OBVIOUS
<1>2. i \in Bytes(address, length) /\ RowOf(i) \notin done => data[i] = flash[i]
  BY <1>0, <1>1
<1>3. WriteHal(flash, data, address, length, {})
        = [j \in 0..(Size - 1) |-> IF j \in Bytes(address, length) /\ RowOf(j) \in done
                                   THEN data[j] ELSE flash[j]]
  <2>1. ~(address + length > Size)
    BY FlashAssumption
  <2> QED BY <1>0, <2>1, Zenon DEF WriteHal
<1> HIDE DEF done
<1> QED BY <1>2, <1>3

\* Two flashes with the same bytes are the same.
LEMMA SameFlash ==
  ASSUME NEW f, NEW g, IsFlash(f), IsFlash(g), \A i \in 0..(Size - 1) : f[i] = g[i]
  PROVE  f = g
  BY DEF IsFlash

\* Whatever fails, a byte stays or is the data meant for it.
LEMMA WriteChanges ==
  ASSUME NEW flash, NEW data, NEW address, NEW length, NEW fails, NEW i,
         IsFlash(flash), i \in 0..(Size - 1),
         WriteHal(flash, data, address, length, fails)[i] # flash[i]
  PROVE  /\ i \in Bytes(address, length)
         /\ WriteHal(flash, data, address, length, fails)[i] = data[i]
  BY FlashDomain DEF WriteHal

\* The rows of the internal flash end with the flash.
LEMMA RowFits ==
  ASSUME NEW end \in Nat, end <= Size, end % Row # 0
  PROVE  end + (Row - (end % Row)) = RowOf(end) * Row + Row /\ RowOf(end) * Row + Row <= Size
<1> DEFINE e == RowOf(end)
           s == RowOf(Size)
<1>1. /\ e \in Nat /\ e * Row \in Nat /\ end % Row \in Nat /\ end = e * Row + (end % Row)
      /\ \A r \in Nat : r <= e <=> r * Row <= end
  <2>1. end % Row \in 0..(Row - 1) /\ Row \in Nat
    BY RowOfIs, FlashAssumption
  <2> QED BY <2>1, RowOfIs
<1>2. s \in Nat /\ s * Row \in Nat /\ Size = s * Row + (Size % Row) /\ Size % Row = 0
  BY RowOfIs, FlashAssumption
<1> HIDE DEF e, s
<1>3. Row \in Nat \ {0} /\ Size \in Nat
  BY FlashAssumption
<1>4. end < Size
  <2>1. end # Size
    BY <1>2
  <2> QED BY <2>1, <1>3
<1>5. ~(s <= e)
  BY <1>1, <1>2, <1>4
<1>6. (e + 1) * Row <= s * Row
  BY <1>1, <1>2, <1>3, <1>5, ProductsOrdered
<1>7. e * Row + Row <= Size
  BY <1>1, <1>2, <1>3, <1>6, ProductNext
<1> QED BY <1>1, <1>3, <1>7 DEF e

\* An area that begins a row, or leaves its first, is erased and nothing else.
LEMMA EraseIs ==
  ASSUME NEW flash, IsFlash(flash), NEW address \in Nat, NEW size \in Nat, address + size <= Size,
         address % Row = 0 \/ RowOf(address) < RowOf(address + size)
  PROVE  RowErase(flash, address, size)
           = [i \in 0..(Size - 1) |-> IF i \in Bytes(address, size) THEN Erased ELSE flash[i]]
<1> DEFINE end == address + size
           a == RowOf(address)
           e == RowOf(end)
           lo == IF address % Row # 0 THEN a + 1 ELSE a
           whole == EraseRows(flash, WholeRows(address, size))
           start == EraseRows(whole, {a})
           first == IF address % Row = 0 THEN whole ELSE WriteHal(start, whole, a * Row, address % Row, {})
           last == EraseRows(first, {e})
           erased == IF end % Row = 0 THEN first ELSE WriteHal(last, first, end, Row - (end % Row), {})
<1>0. RowErase(flash, address, size) = erased
  BY DEF RowErase
<1>c. Row \in Nat \ {0} /\ Size \in Nat
  BY FlashAssumption
<1>a. /\ a \in Nat /\ a * Row \in Nat /\ address % Row \in 0..(Row - 1)
      /\ address = a * Row + (address % Row)
      /\ \A r \in Nat : r <= a <=> r * Row <= address
  BY RowOfIs
<1>e. /\ end \in Nat /\ e \in Nat /\ e * Row \in Nat /\ end % Row \in 0..(Row - 1)
      /\ end = e * Row + (end % Row)
      /\ \A r \in Nat : r <= e <=> r * Row <= end
  BY RowOfIs
<1>i. \A i \in 0..(Size - 1) :
        /\ i \in Nat /\ RowOf(i) \in Nat
        /\ \A r \in Nat : r <= RowOf(i) <=> r * Row <= i
  <2> TAKE i \in 0..(Size - 1)
  <2>1. i \in Nat
    BY <1>c
  <2> QED BY <2>1, RowOfIs
<1>1. a <= e /\ lo \in Nat /\ lo <= e
  <2>1. a <= e
    BY <1>a, <1>e
  <2>2. address % Row # 0 => a < e
    OBVIOUS
  <2> QED BY <1>a, <1>e, <2>1, <2>2
<1>2. WholeRows(address, size) = lo..(e - 1)
  <2>1. a + (IF address % Row # 0 THEN 1 ELSE 0) = lo
    BY <1>a
  <2> HIDE DEF lo
  <2> QED BY <1>1, <2>1 DEF WholeRows
<1>3. whole = [i \in 0..(Size - 1) |-> IF lo <= RowOf(i) /\ RowOf(i) < e THEN Erased ELSE flash[i]]
  <2>1. \A i \in 0..(Size - 1) : RowOf(i) \in WholeRows(address, size) <=> lo <= RowOf(i) /\ RowOf(i) < e
    <3> HIDE DEF lo, e
    <3> QED BY <1>2, <1>1, <1>i, <1>e
  <2>2. DOMAIN flash = 0..(Size - 1)
    BY DEF IsFlash
  <2> HIDE DEF lo, e
  <2> QED BY <2>1, <2>2 DEF EraseRows
<1>4. IsFlash(whole)
  <2> HIDE DEF whole, lo, e
  <2> QED BY <1>3 DEF IsFlash
<1> HIDE DEF lo
<1>5. /\ IsFlash(first)
      /\ \A i \in 0..(Size - 1) :
           first[i] = IF address % Row # 0 /\ RowOf(i) = a /\ address <= i THEN Erased ELSE whole[i]
  <2> HIDE DEF a, e, whole
  <2>1. CASE address % Row = 0
    BY <2>1, <1>4 DEF IsFlash
  <2>2. CASE address % Row # 0
    <3>1. start = [i \in 0..(Size - 1) |-> IF RowOf(i) = a THEN Erased ELSE whole[i]]
      <4>1. DOMAIN whole = 0..(Size - 1)
        BY <1>4 DEF IsFlash
      <4> QED BY <4>1 DEF EraseRows
    <3> HIDE DEF start
    <3>2. IsFlash(start)
      BY <3>1 DEF IsFlash
    <3>3. address % Row \in Nat /\ a * Row + (address % Row) <= Size
      BY <1>a, <1>c
    <3>4. /\ IsFlash(WriteHal(start, whole, a * Row, address % Row, {}))
          /\ \A i \in 0..(Size - 1) :
               WriteHal(start, whole, a * Row, address % Row, {})[i]
                 = IF i \in Bytes(a * Row, address % Row) THEN whole[i] ELSE start[i]
      <4> DEFINE from == a * Row
                 length == address % Row
      <4>1. from \in Nat /\ length \in Nat /\ from + length <= Size
        BY <3>3, <1>a
      <4> HIDE DEF from, length
      <4>2. IsFlash(WriteHal(start, whole, from, length, {}))
        BY <3>2, WriteKeepsSize
      <4>3. DOMAIN WriteHal(start, whole, from, length, {}) = 0..(Size - 1)
        BY <4>2, FlashDomain
      <4>4. ASSUME NEW i \in 0..(Size - 1)
            PROVE  WriteHal(start, whole, from, length, {})[i]
                     = IF i \in Bytes(from, length) THEN whole[i] ELSE start[i]
        BY <3>2, <4>1, <4>3, WriteIs
      <4> QED BY <4>2, <4>4 DEF from, length
    <3>5. \A i \in 0..(Size - 1) : i \in Bytes(a * Row, address % Row) <=> a * Row <= i /\ i < address
      BY <1>a, <1>i DEF Bytes
    <3>6. \A i \in 0..(Size - 1) : RowOf(i) = a => a * Row <= i
      BY <1>a, <1>i
    <3>7. \A i \in 0..(Size - 1) :
            (IF i \in Bytes(a * Row, address % Row) THEN whole[i] ELSE start[i])
              = IF RowOf(i) = a /\ address <= i THEN Erased ELSE whole[i]
      BY <3>1, <3>5, <3>6, <1>a, <1>i
    <3> QED BY <2>2, <3>4, <3>7
  <2> QED BY <2>1, <2>2
<1>6. IsFlash(first)
  BY <1>5
<1>7. /\ IsFlash(erased)
      /\ \A i \in 0..(Size - 1) :
           erased[i] = IF end % Row # 0 /\ RowOf(i) = e /\ i < end THEN Erased ELSE first[i]
  <2> HIDE DEF a, e, first, end
  <2>1. CASE end % Row = 0
    BY <2>1, <1>6 DEF IsFlash
  <2>2. CASE end % Row # 0
    <3>0. end <= Size
      BY DEF end
    <3>1. last = [i \in 0..(Size - 1) |-> IF RowOf(i) = e THEN Erased ELSE first[i]]
      <4>1. DOMAIN first = 0..(Size - 1)
        BY <1>6 DEF IsFlash
      <4> QED BY <4>1 DEF EraseRows
    <3> HIDE DEF last
    <3>2. IsFlash(last)
      BY <3>1 DEF IsFlash
    <3>3. end + (Row - (end % Row)) = e * Row + Row /\ e * Row + Row <= Size
      BY <2>2, <3>0, <1>e, RowFits DEF e
    <3>4. Row - (end % Row) \in Nat
      BY <1>e, <1>c
    <3>5. /\ IsFlash(WriteHal(last, first, end, Row - (end % Row), {}))
          /\ \A i \in 0..(Size - 1) :
               WriteHal(last, first, end, Row - (end % Row), {})[i]
                 = IF i \in Bytes(end, Row - (end % Row)) THEN first[i] ELSE last[i]
      <4> DEFINE length == Row - (end % Row)
      <4>1. end \in Nat /\ length \in Nat /\ end + length <= Size
        BY <3>3, <3>4, <1>e, <1>c
      <4> HIDE DEF length
      <4>2. IsFlash(WriteHal(last, first, end, length, {}))
        BY <3>2, WriteKeepsSize
      <4>3. DOMAIN WriteHal(last, first, end, length, {}) = 0..(Size - 1)
        BY <4>2, FlashDomain
      <4>4. ASSUME NEW i \in 0..(Size - 1)
            PROVE  WriteHal(last, first, end, length, {})[i]
                     = IF i \in Bytes(end, length) THEN first[i] ELSE last[i]
        BY <3>2, <4>1, <4>3, WriteIs
      <4> QED BY <4>2, <4>4 DEF length
    <3>6. \A i \in 0..(Size - 1) : RowOf(i) = e => i < e * Row + Row
      <4> TAKE i \in 0..(Size - 1)
      <4>1. ~(e + 1 <= RowOf(i)) => ~((e + 1) * Row <= i)
        BY <1>i, <1>e
      <4>2. (e + 1) * Row = e * Row + Row
        BY ProductNext, <1>e, <1>c
      <4> QED BY <4>1, <4>2, <1>i, <1>e, <1>c
    <3>7. \A i \in 0..(Size - 1) :
            i \in Bytes(end, Row - (end % Row)) <=> end <= i /\ i < e * Row + Row
      BY <3>3, <3>4, <1>e, <1>i DEF Bytes
    <3>8. \A i \in 0..(Size - 1) :
            (IF i \in Bytes(end, Row - (end % Row)) THEN first[i] ELSE last[i])
              = IF RowOf(i) = e /\ i < end THEN Erased ELSE first[i]
      BY <3>1, <3>6, <3>7, <1>e, <1>i
    <3> QED BY <2>2, <3>5, <3>8
  <2> QED BY <2>1, <2>2
<1>8. ASSUME NEW i \in 0..(Size - 1)
      PROVE  erased[i] = IF i \in Bytes(address, size) THEN Erased ELSE flash[i]
  <2>1. erased[i] = IF \/ end % Row # 0 /\ RowOf(i) = e /\ i < end
                       \/ address % Row # 0 /\ RowOf(i) = a /\ address <= i
                       \/ lo <= RowOf(i) /\ RowOf(i) < e
                    THEN Erased ELSE flash[i]
    <3> HIDE DEF erased, first, whole, a, e, end
    <3> QED BY <1>3, <1>5, <1>7
  <2> HIDE DEF erased, first, whole, a, e
  <2>2. i \in Bytes(address, size) <=> address <= i /\ i < end
    BY <1>i DEF Bytes
  <2> HIDE DEF end
  <2>3. /\ RowOf(i) \in Nat /\ i \in Nat
        /\ a <= RowOf(i) <=> a * Row <= i
        /\ e <= RowOf(i) <=> e * Row <= i
        /\ a + 1 <= RowOf(i) <=> a * Row + Row <= i
        /\ e + 1 <= RowOf(i) <=> e * Row + Row <= i
    BY <1>i, <1>a, <1>e, <1>c, ProductNext
  <2>4. address % Row # 0 => a < e
    BY DEF a, e, end
  <2>5. address <= end
    BY DEF end
  <2>6. (\/ end % Row # 0 /\ RowOf(i) = e /\ i < end
         \/ address % Row # 0 /\ RowOf(i) = a /\ address <= i
         \/ lo <= RowOf(i) /\ RowOf(i) < e)
        <=> (address <= i /\ i < end)
    <3> DEFINE q == RowOf(i)
               ra == address % Row
               re == end % Row
               pa == a * Row
               pe == e * Row
    <3>1. /\ q \in Nat /\ pa \in Nat /\ pe \in Nat /\ ra \in 0..(Row - 1) /\ re \in 0..(Row - 1)
          /\ address = pa + ra /\ end = pe + re
      BY <1>a, <1>e, <2>3
    <3>2. /\ a <= q <=> pa <= i
          /\ e <= q <=> pe <= i
          /\ a + 1 <= q <=> pa + Row <= i
          /\ e + 1 <= q <=> pe + Row <= i
      BY <2>3
    <3>3. ra # 0 => a < e
      BY <2>4
    <3>4. lo = IF ra # 0 THEN a + 1 ELSE a
      BY DEF lo
    <3> HIDE DEF q, ra, re, pa, pe
    <3>5. a \in Nat /\ e \in Nat /\ i \in Nat /\ Row \in Nat
      BY <1>a, <1>e, <1>c, <2>3
    <3>6. ra \in Nat /\ re \in Nat /\ ra < Row /\ re < Row /\ address \in Nat /\ end \in Nat
      BY <3>1, <3>5
    <3>7. ASSUME i < end PROVE q <= e
      BY <3>1, <3>2, <3>5, <3>6, <3>7
    <3>8. ASSUME address <= i PROVE a <= q
      BY <3>1, <3>2, <3>5, <3>6, <3>8
    <3>9. ASSUME q < e PROVE i < end
      BY <3>1, <3>2, <3>5, <3>6, <3>9
    <3>10. ASSUME a + 1 <= q PROVE address <= i
      BY <3>1, <3>2, <3>5, <3>6, <3>10
    <3>11. ASSUME re = 0, i < end PROVE q < e
      BY <3>1, <3>2, <3>5, <3>6, <3>11
    <3>12. ASSUME ra = 0, a <= q PROVE address <= i
      BY <3>1, <3>2, <3>5, <3>6, <3>12
    <3>13. (\/ re # 0 /\ q = e /\ i < end
            \/ ra # 0 /\ q = a /\ address <= i
            \/ lo <= q /\ q < e)
           => (address <= i /\ i < end)
      <4>1. CASE re # 0 /\ q = e /\ i < end
        <5>1. a <= e
          BY <1>1
        <5> QED BY <4>1, <5>1, <3>3, <3>5, <3>10, <3>12
      <4>2. CASE ra # 0 /\ q = a /\ address <= i
        BY <4>2, <3>3, <3>9
      <4>3. CASE lo <= q /\ q < e
        BY <4>3, <3>4, <3>5, <3>9, <3>10, <3>12
      <4> QED BY <4>1, <4>2, <4>3
    <3>14. (address <= i /\ i < end)
           => (\/ re # 0 /\ q = e /\ i < end
               \/ ra # 0 /\ q = a /\ address <= i
               \/ lo <= q /\ q < e)
      <4> SUFFICES ASSUME address <= i, i < end
                   PROVE  \/ re # 0 /\ q = e
                          \/ ra # 0 /\ q = a
                          \/ lo <= q /\ q < e
        OBVIOUS
      <4>1. a <= q /\ q <= e
        BY <3>7, <3>8
      <4>2. CASE q = e
        BY <4>2, <3>5, <3>11
      <4>3. CASE q # e
        BY <4>1, <4>3, <3>4, <3>1, <3>5
      <4> QED BY <4>2, <4>3
    <3> QED BY <3>13, <3>14 DEF q, ra, re
  <2> QED BY <2>1, <2>2, <2>6
<1>9. erased = [i \in 0..(Size - 1) |-> IF i \in Bytes(address, size) THEN Erased ELSE flash[i]]
  <2> DEFINE g == [i \in 0..(Size - 1) |-> IF i \in Bytes(address, size) THEN Erased ELSE flash[i]]
  <2>1. IsFlash(g) /\ \A i \in 0..(Size - 1) : g[i] = IF i \in Bytes(address, size) THEN Erased ELSE flash[i]
    BY DEF IsFlash
  <2>2. IsFlash(erased)
    BY <1>7
  <2> HIDE DEF erased, g
  <2>3. \A i \in 0..(Size - 1) : erased[i] = g[i]
    BY <1>8, <2>1
  <2> QED BY <2>1, <2>2, <2>3, SameFlash DEF g
<1> QED BY <1>0, <1>9

\* The rows that a write or an erase shares keep what is not its own.
LEMMA RowsKept ==
  ASSUME NEW flash, NEW data, NEW address, NEW length, NEW fails,
         IsFlash(flash), address \in Nat, length \in Nat
  PROVE  RowsAreKept(flash, data, address, length, fails)
<1> DEFINE end == address + length
           written == WriteHal(flash, data, address, length, fails)
<1> SUFFICES ASSUME end <= Size
             PROVE  /\ \A i \in 0..(Size - 1) :
                         written[i] # flash[i] => i \in Bytes(address, length) /\ written[i] = data[i]
                    /\ fails = {} => written = Changed(flash, Bytes(address, length), data)
                    /\ address % Row = 0 \/ RowOf(address) < RowOf(end)
                         => RowErase(flash, address, length) = Changed(flash, Bytes(address, length), Blank)
  BY DEF RowsAreKept
<1>1. ASSUME NEW i \in 0..(Size - 1), written[i] # flash[i]
      PROVE  i \in Bytes(address, length) /\ written[i] = data[i]
  BY <1>1, WriteChanges
<1>2. ASSUME fails = {} PROVE written = Changed(flash, Bytes(address, length), data)
  <2> DEFINE to == Changed(flash, Bytes(address, length), data)
  <2>1. IsFlash(to)
    BY DEF Changed, IsFlash
  <2>2. IsFlash(written)
    BY WriteKeepsSize
  <2>3. ASSUME NEW i \in 0..(Size - 1) PROVE written[i] = to[i]
    <3>1. to[i] = IF i \in Bytes(address, length) THEN data[i] ELSE flash[i]
      BY DEF Changed
    <3>2. DOMAIN written = 0..(Size - 1)
      BY <2>2, FlashDomain
    <3> HIDE DEF to
    <3>3. WriteHal(flash, data, address, length, {})[i]
            = IF i \in Bytes(address, length) THEN data[i] ELSE flash[i]
      BY <1>2, <3>2, WriteIs
    <3> QED BY <1>2, <3>1, <3>3
  <2> HIDE DEF to, written
  <2> QED BY <2>1, <2>2, <2>3, SameFlash DEF to
<1>3. ASSUME address % Row = 0 \/ RowOf(address) < RowOf(end)
      PROVE  RowErase(flash, address, length) = Changed(flash, Bytes(address, length), Blank)
  <2>1. RowErase(flash, address, length)
          = [i \in 0..(Size - 1) |-> IF i \in Bytes(address, length) THEN Erased ELSE flash[i]]
    BY <1>3, EraseIs
  <2>2. Changed(flash, Bytes(address, length), Blank)
          = [i \in 0..(Size - 1) |-> IF i \in Bytes(address, length) THEN Erased ELSE flash[i]]
    BY DEF Changed, Blank
  <2> QED BY <2>1, <2>2
<1> HIDE DEF written
<1> QED BY <1>1, <1>2, <1>3

------------------------------------------------------------------------------
(* Areas of the external flash                                                *)

\* An area begins and ends with a sector.
IsArea(area) ==
  /\ area.off \in Nat /\ area.size \in Nat /\ area.off + area.size <= Size
  /\ \E m \in Nat : area.off = m * Sector
  /\ \E m \in Nat : area.off + area.size = m * Sector

LEMMA AreasAre == \A area \in Areas : IsArea(area)
<1>0. Sector \in Nat \ {0} /\ Size \in Nat /\ 2 * Sector <= Size
  BY FlashAssumption, AreasAssumption
<1>1. PICK s \in Nat : Size = s * Sector /\ 2 <= s
  <2>1. Size \div Sector \in Nat /\ Size = (Size \div Sector) * Sector
    BY DivMod, FlashAssumption
  <2>2. 2 <= Size \div Sector
    BY QuotientOrdered, <1>0
  <2> QED BY <2>1, <2>2
<1>2. /\ 0 = 0 * Sector /\ Sector = 1 * Sector /\ 2 * Sector \in Nat
      /\ Size - 2 * Sector = (s - 2) * Sector
  BY <1>0, <1>1, Z3
<1>3. IsArea([off |-> 0, size |-> 2 * Sector])
  BY <1>0, <1>2 DEF IsArea
<1>4. IsArea([off |-> Sector, size |-> Sector])
  <2>1. Sector + Sector = 2 * Sector
    BY <1>0
  <2> QED BY <1>0, <1>2, <2>1 DEF IsArea
<1>5. IsArea([off |-> Size - 2 * Sector, size |-> 2 * Sector])
  <2>1. Size - 2 * Sector \in Nat /\ (Size - 2 * Sector) + 2 * Sector = Size /\ s - 2 \in Nat
    BY <1>0, <1>1
  <2> QED BY <1>0, <1>1, <1>2, <2>1 DEF IsArea
<1> QED BY <1>3, <1>4, <1>5 DEF Areas

\* The rounding of an access within the flash: down to a sector, up to a sector.
LEMMA Rounded ==
  ASSUME NEW x \in Nat, NEW length \in Nat, x + length <= Size, ~(x = 0 /\ length = Size)
  PROVE  \E p, k \in Nat :
           /\ SectorRange(x, length) = (p * Sector)..((p + k) * Sector - 1)
           /\ p = x \div Sector /\ p * Sector <= x /\ x < p * Sector + Sector
           /\ x + length <= (p + k) * Sector /\ (p + k) * Sector <= x + length + Sector - 1
<1>0. Sector \in Nat \ {0} /\ Size \in Nat /\ Width \in Nat /\ 2 * Size <= Width
  BY FlashAssumption
<1>1. Sector <= Size
  <2>1. 2 * Sector = Sector + Sector
    BY <1>0
  <2> QED BY <1>0, <2>1, AreasAssumption
<1>2. PICK p \in Nat : p = x \div Sector
  BY <1>0, DivMod
<1>3. PICK d \in 0..(Sector - 1) : d = x % Sector
  BY <1>0, DivMod
<1>4. PICK f \in Nat : f = p * Sector
  BY <1>0, ProductNext
<1>5. x = f + d
  <2>1. x = (x \div Sector) * Sector + (x % Sector)
    BY <1>0, DivMod
  <2> QED BY <2>1, <1>2, <1>3, <1>4
<1>6. PICK sum \in Nat : sum = length + d + Sector - 1
  BY <1>0, <1>3
<1>7. sum < Width
  BY <1>0, <1>1, <1>5, <1>6, <1>3, <1>4
<1>8. sum % Width = sum
  BY <1>0, <1>7
<1>9. PICK k \in Nat : k = sum \div Sector
  BY <1>0, DivMod
<1>10. PICK g \in Nat : g = k * Sector
  BY <1>0, ProductNext
<1>11. PICK e \in 0..(Sector - 1) : e = sum % Sector
  BY <1>0, DivMod
<1>12. sum = g + e
  <2>1. sum = (sum \div Sector) * Sector + (sum % Sector)
    BY <1>0, DivMod
  <2> QED BY <2>1, <1>9, <1>10, <1>11
<1>13. (p + k) * Sector = f + g
  <2>1. (p + k) * Sector = p * Sector + k * Sector
    BY <1>0, Z3
  <2> QED BY <2>1, <1>4, <1>10
<1>14. SectorRange(x, length) = f..(f + g - 1)
  <2>1. SectorRange(x, length) = Bytes(x - d, sum - e)
    <3>1. (length + (x % Sector) + Sector - 1) % Width = sum
      BY <1>3, <1>6, <1>8
    <3> QED BY <3>1, <1>3, <1>11 DEF SectorRange
  <2>2. x - d = f /\ sum - e = g
    BY <1>0, <1>3, <1>5, <1>11, <1>12
  <2> QED BY <2>1, <2>2 DEF Bytes
<1>15. f <= x /\ x < f + Sector /\ x + length <= f + g /\ f + g <= x + length + Sector - 1
  BY <1>0, <1>3, <1>5, <1>6, <1>11, <1>12
<1> QED BY <1>2, <1>4, <1>13, <1>14, <1>15

\* From one byte to another: the sectors of an access, around its bytes and no
\* further than the area.
WholeSectors(area, offset, length, from, to) ==
  /\ SectorRange(area.off + offset, length) = from..(to - 1)
  /\ area.off <= from /\ from <= area.off + offset
  /\ (area.off + offset) + length <= to /\ to <= area.off + area.size
  /\ \A i \in from..(to - 1) :
       i \div Sector = (area.off + offset) \div Sector
         \/ \E j \in Bytes(area.off + offset, length) : i \div Sector = j \div Sector

\* An access that stays in its area erases whole sectors of it.
LEMMA SectorsAre ==
  ASSUME NEW area, NEW offset, NEW length, IsArea(area), offset \in Nat, length \in Nat,
         offset + length <= area.size, ~(area.off + offset = 0 /\ length = Size)
  PROVE  \E from, to \in Nat : WholeSectors(area, offset, length, from, to)
<1>0. Sector \in Nat \ {0} /\ Size \in Nat
  BY FlashAssumption
<1>1. PICK m, n \in Nat : /\ area.off = m * Sector /\ area.off \in Nat
                          /\ area.off + area.size = n * Sector /\ area.size \in Nat
                          /\ area.off + area.size <= Size
  BY DEF IsArea
<1>2. PICK x \in Nat : x = area.off + offset
  BY <1>1
<1>3. PICK w \in Nat : w = n * Sector
  BY <1>0, ProductNext
<1>4. x + length <= w /\ x + length <= Size /\ area.off <= x /\ m * Sector <= x /\ area.off + area.size = w
  <2>1. PICK o, s \in Nat : o = area.off /\ s = area.size
    BY <1>1
  <2>2. o + s = w /\ o + s <= Size /\ offset + length <= s /\ x = o + offset
    BY <1>1, <1>2, <1>3, <2>1
  <2>3. x + length <= w /\ x + length <= Size /\ o <= x
    BY <1>0, <2>2
  <2> QED BY <1>1, <2>1, <2>2, <2>3
<1>5. ~(x = 0 /\ length = Size)
  BY <1>2
<1>6. PICK p, k \in Nat :
        /\ SectorRange(x, length) = (p * Sector)..((p + k) * Sector - 1)
        /\ p = x \div Sector /\ p * Sector <= x /\ x < p * Sector + Sector
        /\ x + length <= (p + k) * Sector /\ (p + k) * Sector <= x + length + Sector - 1
  BY <1>4, <1>5, Rounded
<1>7. PICK c \in Nat : c = p + k
  OBVIOUS
<1>8. PICK from \in Nat : from = p * Sector
  BY <1>0, ProductNext
<1>9. PICK to \in Nat : to = c * Sector
  BY <1>0, ProductNext
<1>10. /\ SectorRange(x, length) = from..(to - 1)
       /\ from <= x /\ x < from + Sector /\ x + length <= to /\ to <= x + length + Sector - 1
  BY <1>6, <1>7, <1>8, <1>9
<1>11. area.off <= from
  <2>1. m <= p
    BY <1>0, <1>4, <1>6, QuotientOrdered
  <2> QED BY <1>0, <1>1, <1>8, <2>1, ProductsOrdered
<1>12. to <= w
  <2>1. CASE c <= n
    BY <2>1, <1>0, <1>3, <1>9, ProductsOrdered
  <2>2. CASE n + 1 <= c
    <3>1. (n + 1) * Sector <= to
      BY <2>2, <1>0, <1>9, ProductsOrdered
    <3>2. w + Sector <= to
      BY <3>1, <1>0, <1>3, ProductNext
    <3> QED BY <3>2, <1>0, <1>4, <1>10
  <2> QED BY <2>1, <2>2
<1>13. ASSUME NEW i \in from..(to - 1)
       PROVE  i \div Sector = p \/ \E j \in Bytes(x, length) : i \div Sector = j \div Sector
  <2>1. i \in Nat /\ from <= i /\ i < to
    OBVIOUS
  <2>2. PICK q \in Nat : q = i \div Sector
    BY <2>1, <1>0, DivMod
  <2>3. PICK j \in Nat : j = q * Sector
    BY <1>0, ProductNext
  <2>4. j <= i /\ i < j + Sector
    <3>1. i = (i \div Sector) * Sector + (i % Sector) /\ i % Sector \in 0..(Sector - 1)
      BY <1>0, <2>1, DivMod
    <3>2. i = j + (i % Sector)
      BY <2>2, <2>3, <3>1
    <3> QED BY <1>0, <3>1, <3>2
  <2>5. p <= q
    BY <1>0, <1>8, <2>1, <2>2, QuotientOrdered
  <2>6. CASE q = p
    BY <2>6, <2>2
  <2>7. CASE p + 1 <= q
    <3>1. x < j
      <4>1. (p + 1) * Sector <= j
        BY <1>0, <2>3, <2>7, ProductsOrdered
      <4> QED BY <4>1, <1>0, <1>8, <1>10, ProductNext
    <3>2. ~(c <= q)
      <4>1. c <= q => to <= j
        BY <1>0, <1>9, <2>3, ProductsOrdered
      <4> QED BY <4>1, <2>1, <2>4
    <3>3. j + Sector <= to
      <4>1. q + 1 <= c /\ q + 1 \in Nat
        BY <3>2
      <4>2. (q + 1) * Sector <= to
        BY <4>1, <1>0, <1>9, ProductsOrdered
      <4> QED BY <4>2, <2>3, <1>0, ProductNext
    <3>4. j \in Bytes(x, length)
      BY <3>1, <3>3, <1>0, <1>10 DEF Bytes
    <3>5. j \div Sector = q
      <4>1. q <= j \div Sector
        BY <1>0, <2>3, QuotientOrdered
      <4>2. ~(q + 1 <= j \div Sector)
        <5>1. (q + 1) * Sector = j + Sector /\ q + 1 \in Nat
          BY <2>3, <1>0, ProductNext
        <5>2. ~((q + 1) * Sector <= j)
          BY <5>1, <1>0
        <5> QED BY <5>1, <5>2, <1>0, QuotientOrdered
      <4>3. j \div Sector \in Nat
        BY <1>0, DivMod
      <4> QED BY <4>1, <4>2, <4>3
    <3> QED BY <3>4, <3>5, <2>2
  <2> QED BY <2>5, <2>6, <2>7
<1>14. /\ SectorRange(area.off + offset, length) = from..(to - 1)
       /\ area.off <= from /\ from <= area.off + offset
       /\ (area.off + offset) + length <= to /\ to <= area.off + area.size
  BY <1>2, <1>4, <1>10, <1>11, <1>12
<1>15. \A i \in from..(to - 1) :
         i \div Sector = (area.off + offset) \div Sector
           \/ \E j \in Bytes(area.off + offset, length) : i \div Sector = j \div Sector
  BY <1>2, <1>6, <1>13
<1> QED BY <1>14, <1>15 DEF WholeSectors

\* An access that its area refuses changes nothing; only an access of the whole
\* flash twice over gets by the check, and the driver refuses to erase it.
LEMMA RefusedAccess ==
  ASSUME NEW flash, NEW area, NEW offset, NEW length, IsFlash(flash), IsArea(area),
         offset \in 0..(Width - 1), length \in 0..(Width - 1), offset + length > area.size,
         ~OutOfBounds(area, offset, length)
  PROVE  /\ area.off = 0 /\ area.size = Size /\ offset = Size /\ length = Size /\ 0 < Size
         /\ Bytes(offset, length) \cap 0..(Size - 1) = {}
<1>1. PICK o, s \in Nat : o = area.off /\ s = area.size
  BY DEF IsArea
<1>2. o + s <= Size /\ Size \in Nat /\ Width \in Nat /\ 2 * Size <= Width
  BY <1>1, FlashAssumption DEF IsArea
<1>3. PICK a, b \in Nat : a = offset /\ b = length
  OBVIOUS
<1>4. a + b > s /\ a <= s /\ b <= s /\ (a + b) % Width <= s
  <2>1. (a + b) % Width \in Nat
    BY <1>2
  <2> QED BY <1>1, <1>3, <2>1 DEF OutOfBounds
<1>5. ~(a + b < Width)
  <2>1. a + b < Width => (a + b) % Width = a + b
    BY <1>2
  <2> QED BY <2>1, <1>4
<1>6. o = 0 /\ s = Size /\ a = Size /\ b = Size /\ 0 < Size
  BY <1>2, <1>4, <1>5
<1>7. Bytes(offset, length) \cap 0..(Size - 1) = {}
  BY <1>2, <1>3, <1>6 DEF Bytes
<1> QED BY <1>1, <1>3, <1>6, <1>7

\* An access to an area erases and writes what it says, within the sectors of
\* its bytes and within its area, or is refused.
LEMMA AreasKept ==
  ASSUME NEW flash, NEW data, NEW area, NEW offset, NEW length, IsFlash(flash), IsArea(area),
         offset \in 0..(Width - 1), length \in 0..(Width - 1)
  PROVE  AreasAreKept(flash, data, area, offset, length)
<1> DEFINE bytes == Bytes(area.off + offset, length)
           own == Bytes(area.off, area.size)
           erased == AreaErase(flash, area, offset, length)
           near == {i \in 0..(Size - 1) :
                      i \div Sector \in {j \div Sector : j \in bytes \cup {area.off + offset}}}
           written == AreaWrite(flash, area, data, offset, length)
<1>0. /\ area.off \in Nat /\ area.size \in Nat /\ area.off + area.size <= Size
      /\ Size \in Nat /\ Width \in Nat /\ 2 * Size <= Width /\ Sector \in Nat \ {0}
      /\ offset \in Nat /\ length \in Nat /\ DOMAIN flash = 0..(Size - 1)
  BY FlashAssumption, FlashDomain DEF IsArea
<1>1. ASSUME offset + length > area.size PROVE erased = flash /\ written = flash
  <2>1. CASE OutOfBounds(area, offset, length)
    BY <2>1 DEF AreaErase, AreaWrite
  <2>2. CASE ~OutOfBounds(area, offset, length)
    <3>1. /\ area.off = 0 /\ offset = Size /\ length = Size /\ 0 < Size
          /\ Bytes(offset, length) \cap 0..(Size - 1) = {}
      BY <1>1, <2>2, RefusedAccess
    <3>2. area.off + offset = offset
      BY <1>0, <3>1
    <3>3. written = flash
      <4>1. written = [i \in 0..(Size - 1) |-> IF i \in Bytes(offset, length) THEN data[i] ELSE flash[i]]
        BY <1>0, <2>2, <3>2 DEF AreaWrite
      <4>2. IsFlash(written)
        BY <4>1 DEF IsFlash
      <4>3. \A i \in 0..(Size - 1) : written[i] = flash[i]
        BY <3>1, <4>1
      <4> HIDE DEF written
      <4> QED BY <4>2, <4>3, SameFlash
    <3>4. erased = flash
      <4>1. erased = SectorErase(flash, offset, length)
        BY <2>2, <3>2 DEF AreaErase
      <4>2. IsFlash(erased)
        BY <4>1, <1>0 DEF IsFlash, SectorErase
      <4>3. ASSUME NEW i \in 0..(Size - 1), i \in SectorRange(offset, length),
                   SectorRange(offset, length) \subseteq 0..(Size - 1)
            PROVE  FALSE
        <5>1. Size % Sector = 0 /\ ~(offset = 0 /\ length = Size)
          BY <1>0, <3>1, FlashAssumption
        <5>2. i \in Bytes(Size, ((length + (offset % Sector) + Sector - 1) % Width)
                        - (((length + (offset % Sector) + Sector - 1) % Width) % Sector))
          BY <4>3, <5>1, <3>1, <1>0 DEF SectorRange
        <5> QED BY <5>2, <1>0 DEF Bytes
      <4>4. \A i \in 0..(Size - 1) : erased[i] = flash[i]
        BY <4>1, <4>3, <1>0 DEF SectorErase
      <4> HIDE DEF erased
      <4> QED BY <4>2, <4>4, SameFlash
    <3> QED BY <3>3, <3>4
  <2> QED BY <2>1, <2>2
<1>2. ASSUME offset + length <= area.size
      PROVE  /\ written = Changed(flash, bytes, data)
             /\ erased = SectorErase(flash, area.off + offset, length)
  <2>1. ~OutOfBounds(area, offset, length)
    <3>1. PICK a, b, s \in Nat : a = offset /\ b = length /\ s = area.size
      BY <1>0
    <3>2. a + b < Width
      <4>1. a + b <= s /\ s <= Size /\ 0 < Width
        BY <1>0, <1>2, <3>1
      <4> QED BY <4>1, <1>0
    <3>3. (a + b) % Width = a + b
      BY <1>0, <1>2, <3>1, <3>2
    <3> QED BY <3>1, <3>3, <1>2 DEF OutOfBounds
  <2> QED BY <2>1, <1>0, Zenon DEF AreaWrite, AreaErase, Changed
<1>3. ASSUME offset + length <= area.size, area.off + offset = 0, length = Size
      PROVE  /\ \A i \in bytes : erased[i] = Erased
             /\ \A i \in 0..(Size - 1) : erased[i] # flash[i] => i \in own \cap near
  <2>1. bytes = 0..(Size - 1) /\ own = 0..(Size - 1)
    <3>1. area.off = 0 /\ area.size = Size
      BY <1>0, <1>3
    <3> QED BY <3>1, <1>0, <1>3 DEF Bytes
  <2>2. SectorRange(area.off + offset, length) = 0..(Size - 1)
    BY <1>3 DEF SectorRange
  <2>3. \A i \in 0..(Size - 1) : erased[i] = Erased
    BY <2>2, <1>0, <1>2, <1>3 DEF SectorErase
  <2>4. \A i \in 0..(Size - 1) : i \in near
    BY <2>1
  <2> QED BY <2>1, <2>3, <2>4
<1>4. ASSUME offset + length <= area.size, ~(area.off + offset = 0 /\ length = Size)
      PROVE  /\ \A i \in bytes : erased[i] = Erased
             /\ \A i \in 0..(Size - 1) : erased[i] # flash[i] => i \in own \cap near
  <2>1. PICK from, to \in Nat : WholeSectors(area, offset, length, from, to)
    BY <1>0, <1>4, SectorsAre
  <2> DEFINE x == area.off + offset
             last == area.off + area.size
  <2>0. PICK o, s \in Nat : o = area.off /\ s = area.size
    BY <1>0
  <2>9. /\ x \in Nat /\ last \in Nat /\ area.off <= from /\ from <= x
        /\ x + length <= to /\ to <= last /\ last <= Size
    <3>1. /\ x \in Nat /\ last \in Nat /\ last <= Size
      BY <2>0, <1>0
    <3>2. /\ area.off <= from /\ from <= x /\ x + length <= to /\ to <= last
      BY <2>1 DEF WholeSectors
    <3> QED BY <3>1, <3>2
  <2>2. from..(to - 1) \subseteq 0..(Size - 1)
    <3> HIDE DEF x, last
    <3> QED BY <2>9, <1>0
  <2>3. erased = [i \in 0..(Size - 1) |-> IF i \in from..(to - 1) THEN Erased ELSE flash[i]]
    BY <2>1, <2>2, <1>0, <1>2, <1>4 DEF SectorErase, WholeSectors
  <2>4. bytes \subseteq from..(to - 1)
    <3>1. bytes = x..(x + length - 1)
      BY DEF Bytes
    <3> HIDE DEF x, last, bytes
    <3> QED BY <3>1, <2>9, <1>0
  <2>5. from..(to - 1) \subseteq own
    <3>1. own = area.off..(last - 1)
      BY <2>0, <1>0 DEF Bytes
    <3> HIDE DEF x, last, own
    <3> QED BY <3>1, <2>9, <1>0
  <2>6. \A i \in 0..(Size - 1) : i \in from..(to - 1) => i \in near
    BY <2>1 DEF WholeSectors
  <2> HIDE DEF erased, bytes, own, near
  <2>7. \A i \in bytes : erased[i] = Erased
    BY <2>2, <2>3, <2>4
  <2>8. \A i \in 0..(Size - 1) : erased[i] # flash[i] => i \in own \cap near
    BY <2>3, <2>5, <2>6
  <2> QED BY <2>7, <2>8
<1>5. CASE offset + length > area.size
  BY <1>1, <1>5 DEF AreasAreKept
<1>6. CASE offset + length <= area.size
  <2>1. ~(offset + length > area.size)
    BY <1>0, <1>6
  <2>2. /\ \A i \in bytes : erased[i] = Erased
        /\ \A i \in 0..(Size - 1) : erased[i] # flash[i] => i \in own \cap near
        /\ written = Changed(flash, bytes, data)
    BY <1>2, <1>3, <1>4, <1>6
  <2> QED BY <2>1, <2>2 DEF AreasAreKept
<1> QED BY <1>0, <1>5, <1>6

------------------------------------------------------------------------------
(* The calls                                                                  *)

\* Writing and erasing rows and areas keeps the bytes of the neighbours
\* (psoc6_flash_write_hal, psoc6_flash_erase, flash_area_erase, ota_smif_erase),
\* for every flash, row, sector, address and length.
THEOREM FlashKept == Spec => []FlashKeepsNeighbours
<1>1. Init => FlashKeepsNeighbours
  <2> SUFFICES ASSUME call \in Calls PROVE FlashKeepsNeighbours
    BY DEF Init
  <2>1. IsFlash(Before)
    BY DEF IsFlash, Before
  <2>2. ASSUME call.f = "rows" PROVE RowsAreKept(Before, Data, call.address, call.length, call.fails)
    <3>1. call \in [f : {"rows"}, address : 0..Size, length : 0..Size, fails : {{}, {1}, {0, 2}}]
      BY <2>2 DEF Calls
    <3>2. call.address \in Nat /\ call.length \in Nat
      BY <3>1
    <3> QED BY <2>1, <3>2, RowsKept
  <2>3. ASSUME call.f = "area" PROVE AreasAreKept(Before, Data, call.area, call.offset, call.length)
    <3>1. call \in [f : {"area"}, area : Areas, offset : 0..(Width - 1), length : 0..(Width - 1)]
      BY <2>3 DEF Calls
    <3>2. IsArea(call.area) /\ call.offset \in 0..(Width - 1) /\ call.length \in 0..(Width - 1)
      BY <3>1, AreasAre
    <3> QED BY <2>1, <3>2, AreasKept
  <2> QED BY <2>2, <2>3 DEF FlashKeepsNeighbours
<1>2. FlashKeepsNeighbours /\ [Next]_call => FlashKeepsNeighbours'
  BY DEF Next, FlashKeepsNeighbours
<1> QED BY <1>1, <1>2, PTL DEF Spec
=============================================================================
