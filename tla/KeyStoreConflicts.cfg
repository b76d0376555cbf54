CONSTANTS
  Models = {m1}
  Users = {u1}
  Calls = {c1, c2}
  Keys = {k1, k2}
  NoKey = NoKey
  CountedWith <- MCCountedWith
  MaxSeq = 2
  ConflictNamed = {}
  Deletable = {}
  Faulty = FALSE
SPECIFICATION Spec
INVARIANTS ConflictsAreRetried
