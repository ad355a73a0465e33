CONSTANTS
  cli = cli
  srv = srv
  aux = aux
  Thread = {cli, srv}
  Host <- HostOf
  Writers = {cli, srv}
  Readers = {srv}
  Closers = {}
  MSS = 2
  BufSize = 3
  MagicNum = 2
  WriteSizes = {1, 2, 3}
  ReadSizes = {2}
  MaxBytes <- Bytes31
  Retry = FALSE
  Dup = TRUE
  MaxLoss = 0
  Patient = FALSE
SPECIFICATION Spec
INVARIANTS
  TypeOK
  UnreadIsKept
  StreamIntegrity
  AckedIsReceived
  WriteDelivers
  OneChunkOutstanding
  ReadsAreTheStream
PROPERTY AckEndsChunk
