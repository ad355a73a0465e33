CONSTANTS
  cli = cli
  srv = srv
  aux = aux
  Thread = {cli, srv}
  Host <- HostOf
  Writers = {}
  Readers = {}
  Closers = {cli, srv}
  MSS = 2
  BufSize = 3
  MagicNum = 4
  WriteSizes = {1}
  ReadSizes = {2}
  MaxBytes <- Bytes11
  Retry = FALSE
  Dup = FALSE
  MaxLoss = 1
  Patient = TRUE
SPECIFICATION Spec
INVARIANT TeardownCanFinish
