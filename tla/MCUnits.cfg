SPECIFICATION Spec
CONSTANTS
  Select = Select
  Frame = Frame
  Codec = Codec
  Config = Config
  Pool = Pool
  MaxInt = 31
  MaxNodes = 3
  Loads <- MCLoads
  IDs <- MCIDs
  MaxPayload = 3
  Values <- MCValues
  MetaKeys <- MCMetaKeys
  MaxMetadata = 2
  Numbers <- MCNumbers
  Texts = {""}
  MaxLines = 2
  MaxLoads = 2
  Threads = {t1, t2, t3}
  Buffers = 2
  MaxRegions = 4
CHECK_DEADLOCK FALSE
INVARIANTS
  SelectsBest
  ArrivesAsSent
  ReportKeepsOutput
  ReadBack
  ConfigIsLastGiven
  NoKeyLost
  Exclusive
