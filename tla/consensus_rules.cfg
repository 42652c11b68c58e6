SPECIFICATION Spec
CONSTANTS
  FlagSets <- TheFlagSets
  InitialStacks <- TheInitialStacks
  ValidSig <- TheValidSigs
  LockTime = 1
  Sequence = 0
  MaxItems = 4
  MaxElement = 2
  MaxOps = 6
  MaxScript = 9
  Key <- TheKeys
  SpentOutputs <- TheOutputs
  Transactions <- TheTransactions
  SighashTypes <- TheSighashTypes
  SigForms = {"der", "high"}
  Annexes = {NoAnnex, "annex"}
  NoAnnex = NoAnnex
  NoCode = NoCode
  RedeemScripts <- TheRedeemScripts
  Leaves <- TheLeaves
  ControlBlocks <- TheControlBlocks
  MaxPath = 2
  MaxSigned = 1
  Base = 4
  MaxDigits = 5
  PowLimit = 511
  GenesisTarget = 300
  Interval = 2
  TargetSpan = 4
  Gaps = {1, 4}
  StartTime = 1
  Timeout = 9
  MinActivation = 0
  Window = 2
  Threshold = 2
  MaxHeight = 4
  MaxBlocks = 6
INVARIANTS
  TapscriptSound
  
  PrimitivesExact
  
  DifficultyAgrees
CHECK_DEADLOCK FALSE
