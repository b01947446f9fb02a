SPECIFICATION Spec
CONSTANTS
  ReaderCap = 1
  WriterCap = 1
  KernelCap = 2
  ChunkLen = 2
  MaxOut = 2
  MaxIn = 2
  Holders = {"bg"}
  Faults = {"fcntl", "poll", "read", "write"}
CONSTRAINT Traffic
INVARIANTS TypeOK BytesKept NoLostWake StatusKept ShutdownInOrder
PROPERTY AreByteStreams
