SPECIFICATION MCSpec
CONSTANTS
  w1 = w1
  w2 = w2
  Accounts = {w1, w2}
  Ids = {1, 2}
  None = None
  NoTx = NoTx
  Multisig = Multisig
  Worker = worker
  Takers = {worker, operator}
  Awards <- MCAwards
  MaxSupply = 4
  Amounts = {4}
  DISTRIBUTION_WINDOW = 1
  MinimumClaim = 1
  MinimumClaims = {2}
  PoolBalances = {6}
  POOL_DISTRIBUTABLE_BPS = 8000
  PER_WALLET_CAP_BPS = 10000
  MIN_QUALIFYING_WP = 1
  REWARD_WEIGHT_SCALE = 10
  MaxNow = 2
  MaxTx = 2
  MaxFailures = 1
  Wallets = {w1, w2}
  Dists = {1, 2}
  Secret = Secret
  Entitled <- MCEntitled
  Foreign <- MCForeign
  Readers = {r1, r2}
  NONE = NONE
  MAX_BLOCKS_PER_READ = 2
  LogCap = 1
  MaxBlock = 3
  MaxSends = 1
  MaxTokens = 2
  MaxFaults = 1
INVARIANTS WindowIsReproducible FullyBacked ClaimsFollowTheChain
CHECK_DEADLOCK FALSE
