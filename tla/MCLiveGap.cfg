SPECIFICATION LiveSpec
CONSTANTS
  None = None
  Clients = {c1}
  Instances = {i1}
  First = i1
  Rounds = {0}
  BattlesPerRound = 1
  MaxTicks = 3
  MAX_SUBSCRIPTIONS = 3
  MaxFetches = 1
  MaxFaults = 1
  StepsOutliveLease = FALSE
INVARIANTS AwaitingHasRequest
CHECK_DEADLOCK FALSE
