SPECIFICATION Spec
CONSTANTS
  g = g
  p1 = p1
  a2 = a2
  a3 = a3
  a4 = a4
  b2 = b2
  b3 = b3
  Block <- NodeBlock
  Genesis = g
  Parent <- NodeParent
  Anc <- NodeAnc
  Work <- NodeWork
  TotalWork <- NodeTotal
  Tx <- NodeTx
  Outpoint <- NodeTx
  TxSeq <- NodeTxSeq
  TxIn <- NodeTxIn
  TxOut <- NodeTxOut
  RuleBad = {}
  TipBad = {}
  StartupModes = {"fast", "verify", "recovery"}
  Bodies = {TRUE, FALSE}
  ActivationHeight = 2
  ConsensusVersion = 1
  PoolTx = {"tb", "td"}
  Arriving = {p1, a2}
  NoFile = NoFile
  Torn = Torn
  MaxStarts = 3
  Holder = {"A", "B", "C"}
  HolderOf <- TheHolderOf
  AmountOf <- TheAmountOf
  Delivered <- TheDelivered
  CacheSize = 3
  Coin = {"c1"}
  CoinValue = 10
  MTx = {"p", "q"}
  Inputs <- TheInputs
  OutValue <- TheOutValue
  RewardAddress = {"x", "y"}
  InitialSubsidy = 20
  HalvingInterval = 3
  MaxBlockTxs = 2
  Loops = 2
  MaxChain = 3
  Seed = {"s1"}
  XPub = {"x"}
  RawKey = {"r"}
  Pass = {"p", "q"}
  MaxIndex = 1
  UnlockTime = 2
  MaxClock = 3
  FirstCoins <- TheFirstCoins
  PayAmount = {1, 4, 8}
  CoinbaseMaturity = 2
  DustThreshold = 2
  RelayFee = 1
  MaxTip = 3
  Caller = {c1, c2, c3}
  AllowedCallers = {c1, c2}
  UserName = {"alice"}
  Password = {"pw", "other"}
  RpcBodies <- TheBodies
  Garbage = Garbage
  NoCookie = NoCookie
  EmptyFile = EmptyFile
  MaxSecrets = 3
INVARIANTS
  SurvivesRestart
CHECK_DEADLOCK FALSE
