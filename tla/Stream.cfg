CONSTANTS
  k1 = k1
  k2 = k2
  Writers <- TwoWriters
  FrameLen = 3
  OutputBuffer = 2
  MaxWrites = 1
  MaxOpens = 2
  Bytes <- SyncBytes
  Sessions <- AllSessions
  extract_frame_length <- LengthByte
  max_buffer_size = 6
  MaxChunk = 3
  MaxStream = 7
SPECIFICATION StreamSpec
INVARIANTS ChunkingIsInvisible OverrunOnlyInFrame PortInUseIsOpen LineIntact
PROPERTIES PushDataReturns SerialStopReturns
