SPECIFICATION RoundSpec
CONSTANTS
  w1 = w1
  w2 = w2
  s1 = s1
  s2 = s2
  k1 = k1
  i1 = i1
  i2 = i2
  None = None
  Wallets = {w1}
  Slots = {s1}
  Rounds = {0}
  Keys = {k1}
  InitialUses <- MCInitialUses
  TieBreak <- MCTieBreak
  Labels = {"WIN"}
  PickPhase = 1
  RoundLength = 2
  MaxTime = 2
  MaxCalls = 1
  Instances = {i1, i2}
  MaxTicks = 1
  MaxOutages = 1
  StepsOutliveLease = TRUE
PROPERTIES SettledRoundsFinal
CHECK_DEADLOCK FALSE
