SPECIFICATION Spec
CONSTANTS
  Count = 3
  ChunkBytes = 2
  BatchBytes = 4
  BatchChunks = 3
PROPERTIES EveryTerminalServed
