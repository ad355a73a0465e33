CONSTANTS
  cli = cli
  srv = srv
  aux = aux
  Thread = {cli, srv, aux}
  Host <- HostOf
  Writers = {cli}
  Readers = {srv}
  Closers = {cli, srv, aux}
  MSS = 2
  BufSize = 3
  MagicNum = 2
  WriteSizes = {1}
  ReadSizes = {2}
  MaxBytes <- Bytes10
  Retry = FALSE
  Dup = FALSE
  MaxLoss = 1
  Patient = FALSE
SPECIFICATION FairSpec
PROPERTY CallsReturn
