SPECIFICATION DecodingSpec
CONSTANTS
  Types <- MCTypes
  ReplyTypes <- MCReplyTypes
  DaemonBits <- MCDaemonBits
  Oddities = {"null", "kind", "wide", "missing", "unknown", "unquoted"}
  MaxLength = 2
CHECK_DEADLOCK FALSE
INVARIANTS DecodingTypeOK ValueIsWhole NullIsDeserved
