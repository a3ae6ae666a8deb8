SPECIFICATION Spec
CONSTANTS
  c1 = c1
  c2 = c2
  u1 = u1
  u2 = u2
  NoContent = NoContent
  Contents = {c1, c2}
  Uploaders = {u1, u2}
  MaxJobs = 3
  MaxIndexJobs = 2
SYMMETRY LedgerSymmetry
INVARIANTS TypeOK LedgerAgrees BytesAccounted
PROPERTY DeletedForGood
