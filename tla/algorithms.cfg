SPECIFICATION Spec
CONSTANTS
  Word = 8
  P = 11
  CurveB = 1
  Row = 4
  Sector = 4
  Size = 16
  Width = 32
  Erased = 0
INVARIANTS ArithmeticIsRight FlashKeepsNeighbours
