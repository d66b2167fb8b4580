SPECIFICATION MCSpec
CONSTANTS
  None = None
  Conns = {c1}
  Wallets = {w1, w2}
  PublicChannels = {world, round}
  MAX_SUBSCRIPTIONS = 2
  MAX_PENDING_FRAMES = 2
  MaxFrames = 3
  Addresses = {a1, a2}
  NoOne = NoOne
  Page = page
  Rotation = rotation
  Other = other
  Slots = {page, rotation, other}
  Threads = 2
  CHALLENGE_TTL = 1
  SESSION_TTL = 2
  MaxNonces = 2
  MaxTokens = 3
  MaxClock = 1
  MaxDeaths = 1
SYMMETRY MCSymmetry
INVARIANTS ListenersAreProved FramesInOrder CredentialsAreSpent TokenIsTheWallets
CHECK_DEADLOCK FALSE
