SPECIFICATION Spec
CONSTANTS
  Node <- TheNode
  Links <- TheLinks
  Block <- TheBlock
  Genesis = "g"
  PathTo <- ThePathTo
  Txs <- TheTxs
  Tx = {"t1", "t2"}
  MaxMissing = 1
  HeadersLimit = 3
  Gated = FALSE
  AllowedLag = 0
  KnownLimit = 1
  MaxFaults = 1
  MaxApp = 1
  Garbage = {"listener"}
INVARIANTS
  
  HandshakeSound
PROPERTIES
  BlocksSpread
  HalfOpenEnds
CHECK_DEADLOCK FALSE
