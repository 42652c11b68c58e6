SPECIFICATION FairAdmissionSpec
CONSTANTS
  Block <- TheBlock
  Genesis = "g"
  Parent <- TheParent
  Anc <- TheAnc
  Work <- UnitWork
  TotalWork <- UnitTotal
  Tx <- TheTx
  Outpoint <- TheOutpoint
  TxSeq <- TheTxSeq
  TxIn <- TheTxIn
  TxOut <- TheTxOut
  RuleBad = {}
  TipBad = {}
  Fee <- TheFee
  VSize <- TheVSize
  Signals = {"A"}
  Nonstandard = {}
  Unfit <- TheUnfit
  IdOrder <- TheIdOrder
  MinRelayFee = 1
  MaxTransactions = 3
  MaxLoad = 7
  MaxAncestors = 2
  MaxAncestorSize = 8
  MaxDescendants = 1
  MaxDescendantSize = 3
  MaxReplaced = 2
  MaxPackageCount = 2
  MaxPackageSize = 9
  Handler = {h1, h2}
  NoHandler = NoHandler
  Loose = {"A", "B", "C", "R", "H"}
  Packages = {{"D", "E"}}
INVARIANTS
  LoadExact
  WithinLimits
  NeverConfirmed
PROPERTIES
  SectionsEnd
