SPECIFICATION Spec
CONSTANTS
  r1 = r1  r2 = r2  r3 = r3  r4 = r4
  Receipts = {r1, r2, r3}
  ByteLength <- SomeBytes
  MaxItems = 3
  MaxBytes = 4
  MaxBatchSize = 2
  MaxRestarts = 1
INVARIANT DurableReadable
CHECK_DEADLOCK FALSE
