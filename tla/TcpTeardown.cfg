CONSTANTS
  cli = cli
  srv = srv
  aux = aux
  Thread = {cli, srv}
  Host <- HostOf
  Writers = {cli, srv}
  Readers = {srv}
  Closers = {cli, srv}
  MSS = 2
  BufSize = 3
  MagicNum = 2
  WriteSizes = {1}
  ReadSizes = {2}
  MaxBytes <- Bytes11
  Retry = FALSE
  Dup = TRUE
  MaxLoss = 0
  Patient = FALSE
SPECIFICATION Spec
INVARIANTS
  EofIsComplete
  AckedFinWasTaken
PROPERTIES
  IsByteStream
