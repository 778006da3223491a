---------------------------- MODULE MCAlgorithms ----------------------------
(* The algorithms below the signature check and the slots, each called on     *)
(* bounded inputs and compared with what it is to compute.                    *)
EXTENDS MultiPrecision, CurvePoints, FlashAreas

VARIABLE call

------------------------------------------------------------------------------
(* The calls                                                                  *)

\* Numbers of two words, and odd moduli of two words.
Pairs == [1..2 -> 0..(Word - 1)]
Moduli == {<<1, 1>>, <<5, 2>>, <<3, 4>>, <<7, 7>>}
\* Sixteen words, scattered over their values by a seed.
Scattered(seed) ==
  [k \in 1..16 |-> (seed * (k * k + 7 * k + 3) + (seed \div 5) * k + (seed * seed) \div (k + 2)) % Word]

Points == {q \in [x : 0..(P - 1), y : 0..(P - 1), z : {1}] :
             (Squa(q.y) - Squa(q.x) * q.x + 3 * q.x - CurveB) % P = 0}
Order == Cardinality(Points) + 1

\* The areas begin and end with a sector: the flash has at least two.
ASSUME AreasAssumption == 2 * Sector <= Size
Areas == {[off |-> 0, size |-> 2 * Sector], [off |-> Sector, size |-> Sector],
          [off |-> Size - 2 * Sector, size |-> 2 * Sector]}

Calls ==
  [f : {"words"}, a : Pairs, b : Pairs]
    \cup [f : {"modulo"}, a : Pairs, m : Moduli]
    \cup [f : {"reduce"}, seed : 1..2000]
    \cup [f : {"ladder"}, point : Points, behind : {0, 1, 5}]
    \cup [f : {"rows"}, address : 0..Size, length : 0..Size, fails : {{}, {1}, {0, 2}}]
    \cup [f : {"area"}, area : Areas, offset : 0..(Width - 1), length : 0..(Width - 1)]

Init == call \in Calls
Next == UNCHANGED call
Spec == Init /\ [][Next]_call

------------------------------------------------------------------------------
(* What the arithmetic is to compute                                          *)

WordsAreRight(a, b) ==
  LET sum == Add(a, b)
      difference == Sub(a, b)
      double == LShift(a)
      top == Word * Word
  IN  /\ Value(sum.words) + top * sum.out = Value(a) + Value(b)
      /\ Value(difference.words) - top * difference.out = Value(a) - Value(b)
      /\ Value(double.words) + top * double.out = 2 * Value(a)
      /\ Value(RShift(a)) = Value(a) \div 2
      /\ Value(Mult(a, b)) = Value(a) * Value(b)
      /\ CMP(a, b) = (IF a = b THEN 0 ELSE IF Value(a) < Value(b) THEN -1 ELSE 1)

Coprime(v, w) == \A d \in 2..w : v % d # 0 \/ w % d # 0
\* -1/n modulo the words' top, as ota_nprime is for ota_curve.n.
Prime(n) == CHOOSE q \in Pairs : (Value(q) * Value(n) + 1) % (Word * Word) = 0

ModuloIsRight(a, m) ==
  LET v == Value(a)
      n == Value(m)
  IN  v < n =>
        /\ Value(LShiftMod(a, m)) = (2 * v) % n
        /\ v > 0 /\ Coprime(v, n) => (Value(InvMod(a, m)) * v) % n = 1 /\ Value(InvMod(a, m)) < n
        /\ \A b \in Pairs :
             Value(b) < n =>
               /\ Value(AddMod(a, b, m)) = (v + Value(b)) % n
               /\ Value(SubMod(a, b, m)) = (v - Value(b)) % n
               /\ LET q == Value(MultMont(a, b, m, Prime(m)))
                  IN  q <= n /\ (q * Word * Word - v * Value(b)) % n = 0

\* The reduction is right where no column meets a count too large for its word,
\* and the sum settles within the eight words.
Settles(a) ==
  LET x == ReduceColumns(a)
      top == Value(Modp) + Value(<<1, 0, 0, Word - 1, Word - 1, Word - 1, Word - 2, 0>>)
      sum == Value(x.c) + x.u * (top - Value(Modp))
  IN  ~x.late /\ 0 <= sum /\ sum < top
ReductionIsRight(a) == Settles(a) => Value(FastMod_P256(a)) = Residue(a, Value(Modp))

\* The group of the curve; (0, 0) stands for the point at infinity.
Infinity == [x |-> 0, y |-> 0, z |-> 1]
Slope(p, q) ==
  IF p = q THEN ((3 * Squa(p.x) - 3) * Inv((2 * p.y) % P)) % P
  ELSE ((q.y - p.y) * Inv((q.x - p.x) % P)) % P
Plus(p, q) ==
  IF p = Infinity THEN q ELSE IF q = Infinity THEN p
  ELSE IF p.x = q.x /\ (p.y + q.y) % P = 0 THEN Infinity
  ELSE LET l == Slope(p, q)
           x == (Squa(l) - p.x - q.x) % P
       IN  [x |-> x, y |-> (l * (p.x - x) - p.y) % P, z |-> 1]
Times(n, p) == FoldLeft(LAMBDA q, i : Plus(q, p), Infinity, Indices(n))

\* All scalars below the order but the one whose ladder comes to double -p.
LadderIsRight(p, behind) ==
  \A n \in 0..(Order - 1) : n # Order - 2 => Ladder(p, n, behind) = Times(n, p)

\* The arithmetic of the signature check computes sums, products, remainders,
\* inverses and multiples of points (ota_multprecision.c, ota_ecc_pp.c), for
\* words whose carries chain, operands that alias and points at infinity.
ArithmeticIsRight ==
  /\ call.f = "words" => WordsAreRight(call.a, call.b)
  /\ call.f = "modulo" => ModuloIsRight(call.a, call.m)
  /\ call.f = "reduce" => ReductionIsRight(Scattered(call.seed))
  /\ call.f = "ladder" => LadderIsRight(call.point, call.behind)

\* "c = a * b mod p" (ota_multprecision.h), for every a and b.
ProductIsReduced ==
  call.f = "reduce" =>
    LET a == SubSeq(Scattered(call.seed), 1, 8)
        b == SubSeq(Scattered(call.seed), 9, 16)
    IN  CMP(a, Modp) < 0 /\ CMP(b, Modp) < 0 =>
          Value(MersennsMultMod(a, b)) = ProductResidue(a, b, Value(Modp))

------------------------------------------------------------------------------
(* What writing and erasing are to do                                         *)

Before == [i \in 0..(Size - 1) |-> i + 1]
Data == [i \in 0..(Size - 1) |-> IF i % 3 = 0 THEN i + 1 ELSE Size + i + 1]

Changed(flash, bytes, to) == [i \in 0..(Size - 1) |-> IF i \in bytes THEN to[i] ELSE flash[i]]
Blank == [i \in 0..(Size - 1) |-> Erased]

RowsAreKept(flash, data, address, length, fails) ==
  LET end == address + length
      written == WriteHal(flash, data, address, length, fails)
  IN  end <= Size =>
        /\ \A i \in 0..(Size - 1) :
             written[i] # flash[i] => i \in Bytes(address, length) /\ written[i] = data[i]
        /\ fails = {} => written = Changed(flash, Bytes(address, length), data)
        /\ address % Row = 0 \/ RowOf(address) < RowOf(end)
             => RowErase(flash, address, length) = Changed(flash, Bytes(address, length), Blank)

AreasAreKept(flash, data, area, offset, length) ==
  LET bytes == Bytes(area.off + offset, length)
      own == Bytes(area.off, area.size)
      erased == AreaErase(flash, area, offset, length)
      near == {i \in 0..(Size - 1) : i \div Sector \in {j \div Sector : j \in bytes \cup {area.off + offset}}}
  IN  IF offset + length > area.size
      THEN erased = flash /\ AreaWrite(flash, area, data, offset, length) = flash
      ELSE /\ \A i \in bytes : erased[i] = Erased
           /\ \A i \in 0..(Size - 1) : erased[i] # flash[i] => i \in own \cap near
           /\ AreaWrite(flash, area, data, offset, length) = Changed(flash, bytes, data)

\* A write or an erase does to its bytes what it says and keeps those of its
\* neighbours: of the rows it shares (psoc6_flash_write_hal, psoc6_flash_erase,
\* also when a row fails), and of the areas beside its own, whatever offset and
\* length it is called with (flash_area_erase, ota_smif_erase).  The rows' erase
\* needs an area that begins a row or leaves its first.
FlashKeepsNeighbours ==
  /\ call.f = "rows" => RowsAreKept(Before, Data, call.address, call.length, call.fails)
  /\ call.f = "area" => AreasAreKept(Before, Data, call.area, call.offset, call.length)
=============================================================================
