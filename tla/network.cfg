SPECIFICATION NetSpec
CONSTANTS
  Address <- TheAddress
  HostOf <- TheHostOf
  GroupOf <- TheGroupOf
  MaxTime = 2
  Penalty <- ThePenalty
  FailureCost = 5
  SuccessGain = 15
  TempScore <- ScoreOfTempBan
  LongScore <- ScoreOfLongBan
  PermScore <- ScoreOfPermBan
  TempFailures = 2
  LongFailures = 3
  PermFailures = 4
  ShortOffenses = 1
  DayOffenses = 2
  PermOffenses = 3
  Hour = 1
  Day = 2
  Week = 3
  MaxFailures = 3
  MaxScore = 0
  MaxOffenses = 3
  MinScore <- ScoreOfPermBan
  MaxAddresses = 2
  Configured <- TheConfigured
  Routable = {"a1", "b1"}
  MaxAccept = 2
  NetgroupCap = 1
  RetryBackoff <- TheRetryBackoff
  MaxTries = 1
  NodeId = {"n1", "n2"}
  Key = {"k1", "k2"}
  IdAt <- TheIdAt
  NormOf <- TheNormOf
  Trusted = {"self", "b"}
  Self = "self"
  MinVotes = 2
  ChallengeLife = 1
  MaxSkew = 1
  JoinWindow = 2
  JoinMax = 1
  MaxLag = 2
  MaxChallenges = 3
  Conn = {c1, c2, c3}
  MaxConnections = 2
  MaxInboundPerHost = 1
  MaxInboundPerGroup = 2
  MaxOutbound = 2
  MaxOutboundPerGroup = 2
  MinOutboundGroups = 1
  TargetAnchors = 1
  TargetBlockRelay = 0
  MinAnchorGroups = 1
  MaxAccepting = 2
INVARIANTS
  
  OneKeyPerNode
  VotesEarned
  
  LimitsBounded
PROPERTIES
  BansHold
CHECK_DEADLOCK FALSE
