SPECIFICATION Spec
CONSTANTS
  MAX_SUBCHANNELS = 2
  FRAGMENT_SIZE = 1
  NET_MAX_PAYLOAD = 4
  MaxFragments = 2
  COMPRESS_MIN = 2
  UseCompression = FALSE
  Background = TRUE
  CHOKE_WRAP = 256
  NULL = NULL
  MessageBytes = {3}
  FileBytes = {3}
  Outcomes = {"ok", "clear", "fail"}
  MaxMessages <- OneFile
  MaxSeq <- Seq34
  MaxClears = 1
  MaxChokes = 0
INVARIANTS
  SeqOrder
  ReliableBits
  AssertsHold
  FragmentsAccounted
CHECK_DEADLOCK FALSE
