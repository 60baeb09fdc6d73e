SPECIFICATION Spec
CONSTANTS
  BufferSize = 23
  MaxRead = 12
  Stream <- MCStreams
  Crc <- MCCrc
  JsonKind <- MCJsonKind
INVARIANTS
  TypeOK
  FramesAsReceived
PROPERTIES
  ImplementsFifo
  NoCompleteFrameSkipped
  CleanStreamDelivered
