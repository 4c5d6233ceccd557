SPECIFICATION Spec
CONSTANTS
  MAX_SUBCHANNELS = 2
  FRAGMENT_SIZE = 1
  NET_MAX_PAYLOAD = 4
  MaxFragments = 2
  COMPRESS_MIN = 2
  UseCompression = FALSE
  Background = FALSE
  CHOKE_WRAP = 256
  NULL = NULL
  MessageBytes = {2}
  FileBytes = {1}
  Outcomes = {"ok", "clear"}
  MaxMessages <- TwoAndFile
  MaxSeq <- Seq42
  MaxClears = 1
  MaxChokes = 0
PROPERTIES
  StreamsReliable
CHECK_DEADLOCK FALSE
