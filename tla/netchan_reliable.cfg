SPECIFICATION Spec
CONSTANTS
  MAX_SUBCHANNELS = 2
  FRAGMENT_SIZE = 1
  NET_MAX_PAYLOAD = 5
  MaxFragments = 2
  COMPRESS_MIN = 3
  UseCompression = TRUE
  Background = FALSE
  CHOKE_WRAP = 256
  NULL = NULL
  MessageBytes = {1, 3}
  FileBytes = {}
  Outcomes = {"ok"}
  MaxMessages <- OneWay
  MaxSeq <- Seq43
  MaxClears = 0
  MaxChokes = 1
INVARIANTS
  HeaderComing
  ConfirmedMeansDelivered
PROPERTIES
  StreamsReliable
  DropsCounted
CHECK_DEADLOCK FALSE
