SPECIFICATION DecodingSpec
CONSTANTS
  Types <- MCTypes
  ReplyTypes <- MCReplyTypes
  DaemonBits <- MCMaxOutputBits
  Oddities = {}
  MaxLength = 1
CHECK_DEADLOCK FALSE
INVARIANT OutputsReadable
