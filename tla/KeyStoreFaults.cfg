CONSTANTS
  Models = {m1}
  Users = {u1}
  Calls = {c1, c2}
  Keys = {k1, k2}
  NoKey = NoKey
  CountedWith <- MCCountedWith
  MaxSeq = 2
  ConflictNamed = {m1}
  Deletable = {m1}
  Faulty = TRUE
SPECIFICATION Spec
SYMMETRY Symmetry
INVARIANT TypeOK RetiredStaysRetired IssuedIsListed IssuedUntilRetired
PROPERTY ImplementsLedger
