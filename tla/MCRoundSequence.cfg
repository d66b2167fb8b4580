SPECIFICATION RoundSpec
CONSTANTS
  w1 = w1
  w2 = w2
  s1 = s1
  s2 = s2
  k1 = k1
  i1 = i1
  i2 = i2
  None = None
  Wallets = {w1}
  Slots = {s1}
  Rounds = {0, 1}
  Keys = {k1}
  InitialUses <- MCInitialUses
  TieBreak <- MCTieBreak
  Labels = {"WIN"}
  PickPhase = 1
  RoundLength = 2
  MaxTime = 4
  MaxCalls = 0
  Instances = {i1, i2}
  MaxTicks = 2
  MaxOutages = 2
  StepsOutliveLease = FALSE
INVARIANTS RoundsInSequence PublishedIsStored
PROPERTIES EveryRoundSettles
CHECK_DEADLOCK FALSE
