SPECIFICATION Spec
CONSTANTS
  alice = alice
  bob = bob
  staff = staff
  guests = guests
  chat = chat
  r1 = r1
  r2 = r2
  Users <- MCUsers
  Groups <- MCOneGroup
  Names <- MCNames
  Requests <- MCRequests
  LookupWorks = TRUE
  MaxSeq = 1
  MaxChanges = 1
SYMMETRY Symmetric
INVARIANTS
  TypeOK
  KeysWereEntitled
PROPERTIES
  RequestsTakeOwnKeys
  RevocationsHadReason
