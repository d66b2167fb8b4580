SPECIFICATION MCSpec
CONSTANTS
    POOL_DISTRIBUTABLE_BPS = 8000
    PER_WALLET_CAP_BPS = 4500
    MIN_QUALIFYING_WP = 1
    REWARD_WEIGHT_SCALE = 10
    RATIO_SCALE = 10
    POINT_SCALE = 2
    ROUND_DURATION = 5
    PICK_DURATION = 2
    PRICE_SCALE = 100
    RATE_SCALE = 100
    BPS = 10000
    BAR = 2
    HOUR = 2
    DAY = 4
    WEEK = 4
    SEARCH_STEPS = 60
    Tickers = {1, 2, 3, 4, 5, 6}
    MATCHUP_COOLDOWN_ROUNDS = 2
    MaxDrawn = 1
    HISTORY_LENGTH = 2
    Logs <- MCLogs
    MINUTE = 2
    TRADE_RETENTION = 2
    VOLUME_RETENTION = 4
    PONS_RETENTION = 1
    MIN_TRADE_QUOTE = 2
    MAX_BLOCKS_PER_POLL = 2
    FINE_ANCHOR_BLOCKS = 1
    COARSE_ANCHOR_BLOCKS = 2
    BLOCK_SEARCH_TOLERANCE = 1
    SEEN_CAP = 1
    SENDERS_CAP = 1
    NOT_CURVES_CAP = 0
    HEAD_LAG = 0
    MaxBlocks = 4
    MaxTime = 4
    MaxPollFaults = 1
    Calls = {c1, c2, c3}
    MIN_INTERVAL = 1
    MAX_INTERVAL = 3
    THROTTLED_FLOOR = 1
    RECOVERY_DIVISOR = 2
    RETRIES = 1
    BACKOFF = 2
    MAX_BACKOFF = 2
    OVERLAP = 1
    RETENTION = 2
    POLL_SPAN = 2
    WARMUP = 1
    ROUND_LENGTH = 1
    MaxTrades = 2
    MaxWall = 4
    MaxMarks = 4
    MaxCrashes = 1
    Kinds = {"server", "gateway", "no-sockets"}
    StuckAfter = 1
    RoundTime = 1
    MaxRounds = 1
    MaxClock = 3
    MaxCover = 2
    Instances = {"a", "b"}
    Skew <- MCSkew
    LIMIT = 2
    WINDOW = 3
    MaxRateTime = 8
    Jobs = {j1, j2}
    Images <- MCImages
    NONE = NONE
    Holders <- MCHolders
    Keys = {"k1", "k2"}
    Backed = {"x", "y"}
    MaxStoreTime = 2
INVARIANTS StoresAgree CoveredIsRead ReplayIsWhatWasRead AlertsBracket RateIsKept LedgerIsTheSchema
PROPERTIES AuditsAreSound ReadingsAreSound BattlesAreDecided AnswersAreHonest StartsAreSpaced
CHECK_DEADLOCK FALSE
