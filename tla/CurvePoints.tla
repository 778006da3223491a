---------------------------- MODULE CurvePoints ----------------------------
(* Points of the curve of the signature check (ota_ecc_pp.c): a ladder over   *)
(* the signed digits of a scalar, on points with a third coordinate z, whose  *)
(* z = 0 stands for the point at infinity.  The coordinates are elements of a *)
(* field here, what MultiPrecision computes on words: any prime P > 3 serves. *)
EXTENDS Integers, Sequences, SequencesExt

CONSTANTS P, CurveB        \* y^2 = x^3 - 3x + CurveB modulo P

ASSUME CurveAssumption == P \in Nat /\ P > 3 /\ CurveB \in 0..(P - 1)

Squa(x) == (x * x) % P
Inv(z) == IF z = 0 THEN 0 ELSE CHOOSE w \in 1..(P - 1) : (w * z) % P = 1

\* ota_ECC_Double(q, p): an infinite p clears z and leaves x and y of q alone.
Double(q, p) ==
  IF p.z = 0 THEN [q EXCEPT !.z = 0]
  ELSE LET t1 == Squa(p.z)
           t2 == (3 * ((p.x - t1) * (p.x + t1) % P)) % P
           y2 == (2 * Squa(p.y)) % P
           t3 == (2 * y2 * p.x) % P
           x3 == (Squa(t2) - 2 * t3) % P
       IN  [x |-> x3, y |-> ((t3 - x3) * t2 - 2 * Squa(y2)) % P, z |-> (2 * p.y * p.z) % P]

\* ota_ECC_Add(p, p, q), q affine.  For equal points q is doubled as if it had
\* a z of its own: what lies behind it in memory.
AddPoint(p, q) ==
  LET t1 == (q.x * Squa(p.z) - p.x) % P
      t2 == (((q.y * Squa(p.z)) % P) * p.z - p.y) % P
      s == (Squa(t1) * p.x) % P
      k == (Squa(t1) * t1) % P
      x3 == (Squa(t2) - 2 * s - k) % P
  IN  IF p.z = 0 THEN [q EXCEPT !.z = 1]
      ELSE IF t1 = 0 THEN (IF t2 = 0 THEN Double(p, q) ELSE [p EXCEPT !.z = 0])
      ELSE [x |-> x3, y |-> ((s - x3) * t2 - k * p.y) % P, z |-> (p.z * t1) % P]

\* ota_ECC_NAF: the digits -1, 0, 1 of k, the lowest first.
NAF[k \in Nat] ==
  IF k = 0 THEN <<>>
  ELSE LET digit == IF k % 2 = 0 THEN 0 ELSE IF k % 4 = 1 THEN 1 ELSE -1
       IN  <<digit>> \o NAF[(k - digit) \div 2]

\* ota_ECC_PRJ_TO_AFF; of infinity it makes the point (0, 0).
ToAffine(q) ==
  LET w == Inv(q.z) IN [x |-> (q.x * Squa(w)) % P, y |-> (((q.y * Squa(w)) % P) * w) % P, z |-> 1]

\* ota_ECC_PM_B_NAF: n times p.  behind is what lies behind the affine -p.
Ladder(p, n, behind) ==
  LET minus == [x |-> p.x, y |-> P - p.y, z |-> behind]
      Step(q, digit) ==
        CASE digit = 0  -> Double(q, q)
          [] digit = 1  -> AddPoint(Double(q, q), p)
          [] digit = -1 -> AddPoint(Double(q, q), minus)
  IN  ToAffine(FoldLeft(Step, [x |-> 0, y |-> 0, z |-> 0], Reverse(NAF[n])))
=============================================================================
