SPECIFICATION AdmissionSpec
CONSTANTS
  Block <- TheBlock
  Genesis = "g"
  Parent <- TheParent
  Anc <- TheAnc
  Work <- UnitWork
  TotalWork <- UnitTotal
  Tx <- TheTx
  Outpoint <- TheOutpoint
  TxSeq <- TheTxSeq
  TxIn <- TheTxIn
  TxOut <- TheTxOut
  RuleBad = {}
  TipBad = {}
  Fee <- TheFee
  VSize <- TheVSize
  Signals = {"A"}
  Nonstandard = {}
  Unfit <- TheUnfit
  IdOrder <- TheIdOrder
  MinRelayFee = 1
  MaxTransactions = 5
  MaxLoad = 8
  MaxAncestors = 2
  MaxAncestorSize = 3
  MaxDescendants = 1
  MaxDescendantSize = 4
  MaxReplaced = 2
  MaxPackageCount = 2
  MaxPackageSize = 3
  Handler = {h1, h2}
  NoHandler = NoHandler
  Loose = {"A", "B", "C", "R"}
  Packages = {{"D", "E"}, {"A", "B"}}
INVARIANTS
  SpendsExact
  LinksMirror
  
PROPERTIES
  ReplacementPaysMore
