SPECIFICATION Spec
CONSTANTS
  ValidBytes <- MCValidBytes
  Bytes <- MCBytes
  Usernames <- MCUsernames
  ModelNames <- MCModelNames
  Digest <- MCDigest
  HashLen = 4
  Decimal <- MCDecimal
  MaxSeq = 3
  MaxMints = 3
  KeyLimit = 25
INVARIANTS
  PooledIDsDiffer
  IDsNameOnePrincipal
  RefusedForLength
