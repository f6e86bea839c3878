SPECIFICATION MCSpec
CONSTANTS
    MaxUpload = 2
    MaxAddrs = 3
    b1 = b1
    b2 = b2
    Bodies = {b1, b2}
    FramesOf <- MCFramesOf
    BytesPerSec = 3
    TicksPerSec = 4
    a = a
    b = b
    o1 = o1
    o2 = o2
    c1 = c1
    c2 = c2
    Calls = {c1, c2}
    Uris = {a, b}
    OriginOf <- MCOriginOf
    MaxRetries = 1
    MaxRedirects = 1
    RetryTokens = 1
    DepositAmount = 1
    NoRequest = NoRequest
    MaxSize = 5
    MaxChunks = 3
INVARIANTS
    DetachedUploadKept
    TokensKept
    RetriesSafe
    CredentialsStayHome
    AssembledWhole
PROPERTIES
    AbandonedUploadStops
    UploadedRequestEnds
    ReachableWins
    FramesDelivered
    CallsEnd
    ChunkDownloadEnds
CHECK_DEADLOCK FALSE
