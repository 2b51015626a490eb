CONSTANTS
  Task = {t1, t2}
  BUFFER_COUNT = 3
  Nobody = Nobody
SPECIFICATION Spec
INVARIANTS
  TypeOK
  InUseMeansOwned
  BorrowNeverPanics
  NoDataRace
  NoneMeansFull
PROPERTY PoolIsExclusive
