SPECIFICATION FairSpec
CONSTANTS
  t1 = t1
  t2 = t2
  Terminals <- TwoTerminals
  ChunkBytes = 2
  MaxBytes = 3
  MaxChunks = 2
  LowBytes = 1
  LowChunks = 1
  BatchBytes = 2
  BatchChunks = 2
  Paced = TRUE
  MaxProduced <- ThreeAndOne
  MaxGen <- OneEach
  MaxDoc = 1
CHECK_DEADLOCK FALSE
INVARIANTS Lossless HighWater DeliveredTail NoLostResume
PROPERTIES SentIsImmutable FinishCompletes
