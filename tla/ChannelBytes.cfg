\* Time-outs at every byte, bodies with and without magic characters.
SPECIFICATION Spec
CONSTANTS
  Base = 4
  Magic = 3
  ChunkSize = 4
  BufferSize = 9
  LittleEndian = TRUE
  Outgoing <- Written
  Incoming <- Received
  MaxMessages = 3
  KnownTypes = {2, 8, 9, 10}
INVARIANTS
  WrittenWhole
  ReadInOrder
  NothingMadeUp
  BufferFits
CHECK_DEADLOCK FALSE
