SPECIFICATION LiveSpec
CONSTANTS
  ReaderCap = 1
  WriterCap = 1
  KernelCap = 1
  ChunkLen = 2
  MaxOut = 2
  MaxIn = 3
  Holders = {"bg"}
  Faults = {}
PROPERTIES CallsReturn ListenerHears
