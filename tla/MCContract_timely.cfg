CONSTANTS
  UCMin = 3
  UCMax = 4
  SCCap = 5
  Account <- MCAccount
  Councils <- MCCouncils
  SysWitnesses <- MCSysWitnesses
  UserWitnesses <- MCUserWitnesses
  CouncilMargin = 100
  SysMargin = 60
  UserMargin = 40
  SCWitness = 3
  MaxMainBeat = 1
  MaxBeat = 1
  ExitWait = 2
  Loads <- LoadsSilent
  Coin <- MCCoin
  Config <- MCConfig
  Changes <- MCChanges
  Bids = {0, 1}
  MaxRaise = 1
  TimeApprove = 1
  TimeVoting = 1
  TimeCampaign = 1
  User = {13, 14}
  GenesisUser = {13}
  Contracts = {20}
  SCAccount = 0
  Unit = {u1, u2}
  MaxHeight = 2
  SCMin = 2
  ReplaceInterval = 2
  ReplaceWait = 1
  Stored <- MCStored
  Lib <- MCLib
  BillingPeriod = 2
  MaxSettlement = 3
SPECIFICATION Spec
PROPERTIES
  TimelyStay
SYMMETRY Symmetry
CHECK_DEADLOCK FALSE
