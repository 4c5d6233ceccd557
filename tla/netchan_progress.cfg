SPECIFICATION RoundsSpec
CONSTANTS
  MAX_SUBCHANNELS = 2
  FRAGMENT_SIZE = 1
  NET_MAX_PAYLOAD = 5
  MaxFragments = 2
  COMPRESS_MIN = 2
  UseCompression = FALSE
  Background = FALSE
  CHOKE_WRAP = 256
  NULL = NULL
  MessageBytes = {2}
  FileBytes = {}
  Outcomes = {"ok"}
  MaxMessages <- MessagesOneWay
  MaxSeq <- Rounds15
  MaxClears = 0
  MaxChokes = 0
  MaxLosses = 2
  QueueUntil = 3
PROPERTIES
  EventuallyConfirmed
CHECK_DEADLOCK FALSE
