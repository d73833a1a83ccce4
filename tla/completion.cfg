SPECIFICATION FairSpec
CONSTANTS
    MaxRateLimitRetries = 3
    Buffer = 1
    Retries = 5
    Timeout = 600
    Backoff = 10
    Delays = {0, 7, 45, 600}
    NoDelay = NoDelay
INVARIANTS
    RequestsBounded
    ClientsClosed
    RetriesAfterWindow
PROPERTIES
    CompletionEnds
