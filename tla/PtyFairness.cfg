SPECIFICATION Spec
CONSTANTS
  Count = 3
  ChunkBytes = 3
  BatchBytes = 2
  BatchChunks = 3
PROPERTIES FrameServes EveryTerminalPicked
