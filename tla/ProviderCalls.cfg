SPECIFICATION FairSpec
CONSTANTS
    Calls <- MCCalls
    Endpoints <- MCEndpoints
    Candidates <- MCCandidates
    Attempts = 2
    RetryAfterTimeout = FALSE
    Rated <- MCRated
    Burst <- MCBurst
    Amount <- MCAmount
INVARIANTS TypeOK RejectedTriedOnce LineIsWaiting
PROPERTY EveryCallEnds
