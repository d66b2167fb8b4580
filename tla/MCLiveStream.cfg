SPECIFICATION LiveSpec
CONSTANTS
  None = None
  Clients = {c1}
  Instances = {i1, i2}
  First = i1
  Rounds = {0}
  BattlesPerRound = 1
  MaxTicks = 3
  MAX_SUBSCRIPTIONS = 3
  MaxFetches = 1
  MaxFaults = 1
  StepsOutliveLease = TRUE
INVARIANTS ShownIsStored NoSilentLoss
CHECK_DEADLOCK FALSE
