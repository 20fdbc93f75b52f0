\* Writes, reads, snapshots, scans and crashes at any moment.
SPECIFICATION IteratorSpec
CONSTANTS
  f1 = f1
  f2 = f2
  x = x
  y = y
  v = v
  w = w
  NoValue = NoValue
  Nobody = Nobody
  Fiber <- MCFiber
  Key <- MCKey
  KeyOrder <- MCKeyOrder
  Value <- MCValue
  Batch <- MCBatch
  RecordParts = 2
  MaxRecords = 3
  MaxSnapshots = 1
INVARIANTS Recovered SnapshotIsPast TornRecordIsLast LogTellsHistory ScanIsOfThePast
PROPERTIES ImplementsDurableMap WriteEnds
