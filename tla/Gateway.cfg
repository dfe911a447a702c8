\* Workers start and fail beside the operator's CLI; then an ingest and
\* a batch share the counters of their token.
SPECIFICATION FairSpec
CONSTANTS
    w1 = w1  w2 = w2  r1 = r1  r2 = r2  r3 = r3  env = env  cli = cli
    Worker = {w1, w2}
    Plain = {env, cli}
    EnvToken = env
    ScopeSets <- Scopes
    MaxCreated = 1
    MaxRevoked = 1
    MaxDeaths = 1
    MaxUnlocked = 1
    BootFaults = {"lock", "commit"}
    None = None
    Request = {r2, r3}
    HostOf <- Hosts
    RouteOf <- Routes
    VideosOf <- Videos
    RedisFaults = TRUE
    Limit <- Limits
    Window = 1
CHECK_DEADLOCK FALSE
CONSTRAINT Bounded
INVARIANTS TwinsAreUnlocked LimitHolds
PROPERTIES WorkersServe LimitedRecovers RequestsEnd
