SPECIFICATION GenesisSafety
CONSTANTS
  Wallets = {w1}
  REWARD_AMOUNT = 1
  MaxFunded = 1
  Processes = {p1}
  Keyed = {p1}
  Calls = {c1, c2}
  SecretDraws <- EveryDraw
  ENTROPY_TARGET_DISTANCE = 2
  RESERVATION_LOOKBACK_BLOCKS = 1
  MaxLag = 1
  MaxBlock = 3
  MaxTx = 1
  MaxFaults = 0
INVARIANTS ReservationsAreOwed
