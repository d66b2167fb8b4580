SPECIFICATION GenesisSpec
CONSTANTS
  Wallets = {w1}
  REWARD_AMOUNT = 1
  MaxFunded = 1
  Processes = {p1, p2, p3}
  Keyed = {p1, p2}
  Calls = {c1, c2}
  SecretDraws <- OddDraws
  ENTROPY_TARGET_DISTANCE = 2
  RESERVATION_LOOKBACK_BLOCKS = 0
  MaxLag = 1
  MaxBlock = 4
  MaxTx = 4
  MaxFaults = 2
INVARIANTS SecretIsReserved CardFromItsBlock
PROPERTIES NoReroll EveryRequestSettles ImplementsVault
