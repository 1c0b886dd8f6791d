SPECIFICATION MCSpec
CONSTANTS
  ann = ann  bob = bob
  trial = trial  year = year  rival = rival
  first = first  second = second  again = again  team = team
  None = None
  Clients = {ann, bob, eve}
  Envs = {e1, e2}
  Orders <- MCOrders
  Owner <- MCOwner
  Purpose <- MCPurpose
  Trial <- MCTrial
  Organizations = {team}
  SeatLimit <- MCLimit
  MaxEnvs = 1
  MaxPeriods = 1
INVARIANTS
  TypeOK MoneyBackIsRevoked RevokedIsEmpty SeatsHoldTheirLimits TrialEndsWithJoin
  NobodyEarnsOnOwnOrder
PROPERTIES
  StopReachesProvider KeepsPaidAccess
CHECK_DEADLOCK FALSE
