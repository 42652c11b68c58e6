SPECIFICATION FairSpec
CONSTANTS
  g = g
  p1 = p1
  a2 = a2
  a3 = a3
  x3 = x3
  b2 = b2
  b3 = b3
  b4 = b4
  Block <- TheBlock
  Genesis <- g
  Parent <- TheParent
  Anc <- TheAnc
  Work <- UnitWork
  TotalWork <- UnitTotal
  Tx <- TheTx
  Outpoint <- TheTx
  TxSeq <- TheTxSeq
  TxIn <- TheTxIn
  TxOut <- TheTxOut
  RuleBad = {a3}
  TipBad = {}
  Peer = {h1, h2}
  NoPeer = NoPeer
  MaxOrphans = 2
  MaxOrphansPerPeer = 1
  MaxReorgDepth = 1
  ReadsMayFail = TRUE
INVARIANTS
  IndexMatchesTip
PROPERTIES
  HandlersFinish
