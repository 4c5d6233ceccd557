SPECIFICATION RoundsSpec
CONSTANTS
  MAX_SUBCHANNELS = 3
  FRAGMENT_SIZE = 1
  NET_MAX_PAYLOAD = 8
  MaxFragments = 2
  COMPRESS_MIN = 2
  UseCompression = FALSE
  Background = FALSE
  CHOKE_WRAP = 256
  NULL = NULL
  MessageBytes = {3}
  FileBytes = {3}
  Outcomes = {"ok"}
  MaxMessages <- MessagesBothStreams
  MaxSeq <- Rounds15
  MaxClears = 0
  MaxChokes = 0
  MaxLosses = 2
  QueueUntil = 3
INVARIANTS
  ConfirmedMeansDelivered
CHECK_DEADLOCK FALSE
