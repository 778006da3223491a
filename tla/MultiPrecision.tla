--------------------------- MODULE MultiPrecision ---------------------------
(* The arithmetic below the signature check of a download over Bluetooth LE   *)
(* (ota_multprecision.c).  A number is the sequence of its words, the lowest  *)
(* first: word i of the code is a[i + 1].  A word counts modulo Word, 2^32 in *)
(* the code; the code keeps carries by comparing words after they wrapped, so *)
(* what it does is the same for every Word above the few carries of a column. *)
EXTENDS Integers, Sequences, SequencesExt

CONSTANT Word

ASSUME WordAssumption == Word \in Nat /\ Word > 7 /\ Word % 2 = 0

Bit(test) == IF test THEN 1 ELSE 0
Indices(n) == [i \in 1..n |-> i]
Zero(n) == [i \in 1..n |-> 0]
Unit(n) == [Zero(n) EXCEPT ![1] = 1]

\* What a number stands for, and its remainder; the code has neither.
Value(a) == FoldLeft(LAMBDA v, w : v * Word + w, 0, Reverse(a))
Residue(a, m) == FoldLeft(LAMBDA v, w : (v * Word + w) % m, 0, Reverse(a))
ProductResidue(a, b, m) == FoldLeft(LAMBDA v, w : (v * Word + w * Residue(b, m)) % m, 0, Reverse(a))

------------------------------------------------------------------------------
\* Addition and subtraction of words: the carry is read off the wrapped word.
AddWord(a, b, carrier) ==
  LET temp == (a + carrier) % Word
      c == (temp + b) % Word
  IN  [word |-> c, out |-> Bit(temp < carrier \/ c < b)]
\* Mutant of SubWord: the borrow of a borrow is lost.
SubWordOnce(a, b, borrow) ==
  LET c == (a - borrow - b) % Word
  IN  [word |-> c, out |-> Bit(c > (a - borrow) % Word)]
SubWord(a, b, borrow) ==
  LET temp == (a - borrow) % Word
      c == (temp - b) % Word
  IN  [word |-> c, out |-> Bit(temp > a \/ c > temp)]

Ripple(adds, a, b) ==
  LET Step(i, carry) == IF adds THEN AddWord(a[i], b[i], carry) ELSE SubWord(a[i], b[i], carry)
  IN  FoldLeft(LAMBDA acc, i : LET s == Step(i, acc.out)
                               IN  [words |-> Append(acc.words, s.word), out |-> s.out],
               [words |-> <<>>, out |-> 0], Indices(Len(a)))
Add(a, b) == Ripple(TRUE, a, b)
Sub(a, b) == Ripple(FALSE, a, b)
LAdd(a, b) == Ripple(TRUE, a, b)

CMP(a, b) ==
  LET differ == {i \in 1..Len(a) : a[i] # b[i]}
      top == CHOOSE i \in differ : \A j \in differ : j <= i
  IN  IF differ = {} THEN 0 ELSE IF a[top] < b[top] THEN -1 ELSE 1
IsZero(a) == a = Zero(Len(a))

\* One bit to the left and to the right, through the words.
LShift(a) ==
  [words |-> [i \in 1..Len(a) |-> ((2 * a[i]) % Word) + (IF i = 1 THEN 0 ELSE (2 * a[i - 1]) \div Word)],
   out |-> (2 * a[Len(a)]) \div Word]
RShift(a) ==
  [i \in 1..Len(a) |-> (a[i] \div 2) + (IF i = Len(a) THEN 0 ELSE (a[i + 1] % 2) * (Word \div 2))]

\* The schoolbook product, row by row, into twice the words.
MultRow(c, i, a, b) ==
  LET Step(acc, j) ==
        LET product == a[i] * b[j]
            v == ((product % Word) + acc.u) % Word
            w == (v + acc.c[i + j - 1]) % Word
        IN  [c |-> [acc.c EXCEPT ![i + j - 1] = w],
             u |-> (Bit(v < acc.u) + (product \div Word) + Bit(w < acc.c[i + j - 1])) % Word]
      row[j \in 0..Len(b)] == IF j = 0 THEN [c |-> c, u |-> 0] ELSE Step(row[j - 1], j)
  IN  [row[Len(b)].c EXCEPT ![i + Len(b)] = row[Len(b)].u]
Mult(a, b) ==
  LET rows[i \in 0..Len(a)] == IF i = 0 THEN Zero(2 * Len(a)) ELSE MultRow(rows[i - 1], i, a, b)
  IN  rows[Len(a)]

------------------------------------------------------------------------------
\* Modulo a number of as many words.
AddMod(a, b, m) ==
  LET s == Add(a, b) IN IF s.out = 1 \/ CMP(s.words, m) >= 0 THEN Sub(s.words, m).words ELSE s.words
SubMod(a, b, m) ==
  LET d == Sub(a, b) IN IF d.out = 1 THEN Add(d.words, m).words ELSE d.words
LShiftMod(a, m) ==
  LET s == LShift(a) IN IF s.out = 1 \/ CMP(s.words, m) >= 0 THEN Sub(s.words, m).words ELSE s.words

\* Half of a modulo m: the carry of a + m becomes the highest bit.
HalfMod(a, m) ==
  LET s == Add(a, m)
      half == RShift(s.words)
  IN  IF a[1] % 2 = 0 THEN RShift(a)
      ELSE [half EXCEPT ![Len(a)] = @ + s.out * (Word \div 2)]

\* Takes the factors of two out of u, its cofactor following.
TakeTwos(u, A, m) ==
  LET take[x \in [u : Seq(Nat), A : Seq(Nat)]] ==
        IF x.u[1] % 2 = 1 THEN x ELSE take[[u |-> RShift(x.u), A |-> HalfMod(x.A, m)]]
  IN  take[[u |-> u, A |-> A]]

\* The binary extended Euclid: u and v lose their twos, the larger the smaller.
InvLoop(u, v, A, C, m) ==
  LET loop[x \in [u : Seq(Nat), v : Seq(Nat), A : Seq(Nat), C : Seq(Nat)]] ==
        IF IsZero(x.u) THEN x.C
        ELSE LET uu == TakeTwos(x.u, x.A, m)
                 vv == TakeTwos(x.v, x.C, m)
             IN  IF CMP(uu.u, vv.u) >= 0
                 THEN loop[[u |-> Sub(uu.u, vv.u).words, v |-> vv.u,
                            A |-> SubMod(uu.A, vv.A, m), C |-> vv.A]]
                 ELSE loop[[u |-> uu.u, v |-> Sub(vv.u, uu.u).words,
                            A |-> uu.A, C |-> SubMod(vv.A, uu.A, m)]]
  IN  loop[[u |-> u, v |-> v, A |-> A, C |-> C]]
InvMod(u, m) ==
  LET C == InvLoop(u, m, Unit(Len(u)), Zero(Len(u)), m)
  IN  IF CMP(C, m) >= 0 THEN Sub(C, m).words ELSE C

\* Montgomery: adds the multiple of n that makes the low half zero.
LowHalf(c) == [i \in 1..(Len(c) \div 2) |-> c[i]]
HighHalf(c) == [i \in 1..(Len(c) \div 2) |-> c[i + Len(c) \div 2]]
MontReduction(c, n, nprime) ==
  LET multiple == Mult(LowHalf(Mult(LowHalf(c), nprime)), n)
      sum == LAdd(c, multiple)
      q == HighHalf(sum.words)
  IN  IF sum.out = 1 \/ CMP(q, n) > 0 THEN Sub(q, n).words ELSE q
MultMont(a, b, n, nprime) == MontReduction(Mult(a, b), n, nprime)

------------------------------------------------------------------------------
\* The reduction modulo p = W^8 - W^7 + W^6 + W^3 - 1 of 16 words.  Each column
\* adds and subtracts words and sums of words, and counts what it carries.
Modp == <<Word - 1, Word - 1, Word - 1, 0, 0, 0, 1, Word - 1>>

PlusW(x, w, u) == [w |-> (x.w + w) % Word, u |-> x.u + Bit((x.w + w) % Word < w) + u]
MinusW(x, w, u) == [w |-> (x.w - w) % Word, u |-> x.u - Bit(x.w < w) - u]
Sums(a) ==
  LET at(i) == a[i + 1]
      W(i) == [w |-> at(i), u |-> 0]
      C == PlusW(PlusW(W(13), at(14), 0), at(15), 0)
      B == PlusW(C, at(12), 0)
      A == MinusW(PlusW(B, at(11), 0), at(15), 0)
      D == MinusW(PlusW(A, at(10), 0), at(14), 0)
  IN  [A |-> A, B |-> B, C |-> C, D |-> D, E |-> PlusW(W(8), at(9), 0),
       F |-> PlusW(W(9), at(10), 0), G |-> PlusW(W(10), at(11), 0)]

\* The columns: what is added to word k and taken from it, in the code's order.
Columns(a) ==
  LET s == Sums(a)
      Pos(t) == [plus |-> TRUE, t |-> t]
      Neg(t) == [plus |-> FALSE, t |-> t]
      W(i) == [w |-> a[i + 1], u |-> 0]
  IN  << <<Pos(s.E), Neg(s.A)>>,
         <<Pos(s.F), Neg(s.B)>>,
         <<Pos(s.G), Neg(s.C)>>,
         <<Pos(s.A), Pos(W(11)), Pos(W(12)), Neg(W(14)), Neg(W(15)), Neg(s.E)>>,
         <<Pos(s.B), Neg(W(15)), Pos(W(12)), Pos(W(13)), Neg(s.F)>>,
         <<Pos(s.C), Pos(W(13)), Pos(W(14)), Neg(s.G)>>,
         <<Pos(s.C), Pos(W(14)), Pos(W(14)), Pos(W(15)), Neg(s.E)>>,
         <<Pos(W(15)), Pos(W(15)), Pos(W(15)), Pos(W(8)), Neg(s.D)>> >>

\* The count of a column goes into the next word.  A negative count that this
\* word is too small for comes out as 1, not as -1.
CarryIn(word, u) ==
  [w |-> (word + u) % Word,
   u |-> IF u < 0 THEN Bit(word < -u) ELSE Bit((word + u) % Word < word)]
Column(word, u, terms) ==
  FoldLeft(LAMBDA x, term : IF term.plus THEN PlusW(x, term.t.w, term.t.u) ELSE MinusW(x, term.t.w, term.t.u),
           CarryIn(word, u), terms)

\* The columns one after the other; late: a column met such a word.
ReduceColumns(a) ==
  FoldLeft(LAMBDA acc, k : LET x == Column(a[k], acc.u, Columns(a)[k])
                           IN  [c |-> Append(acc.c, x.w), u |-> x.u,
                                late |-> acc.late \/ a[k] < -acc.u],
           [c |-> <<>>, u |-> 0, late |-> FALSE], Indices(8))
\* p once for each count, whatever comes out at the top, and once if needed.
Settle(c, u) ==
  FoldLeft(LAMBDA d, i : IF u < 0 THEN Add(d, Modp).words ELSE Sub(d, Modp).words,
           c, Indices(IF u < 0 THEN -u ELSE u))
FastMod_P256(a) ==
  LET x == ReduceColumns(a)
      c == Settle(x.c, x.u)
  IN  IF CMP(c, Modp) >= 0 THEN Sub(c, Modp).words ELSE c
MersennsMultMod(a, b) == FastMod_P256(Mult(a, b))
=============================================================================
