CONSTANTS
  w1 = w1
  w2 = w2
  s1 = s1
  s2 = s2
  k1 = k1
  k2 = k2
  None = None
  Wallets = {w1}
  Slots = {s1, s2}
  Rounds = {0, 1}
  Keys = {k1, k2}
  InitialUses <- MCInitialUses
  PickPhase = 1
  RoundLength = 2
  MaxTime = 3
  MaxCalls = 2
SPECIFICATION PickSpec
SYMMETRY MCSymmetry
INVARIANTS ChargesConserved LedgerMatchesPicks
PROPERTIES FrozenPicksFinal ReplacedStaysReplaced
CHECK_DEADLOCK FALSE
