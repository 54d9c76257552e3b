SPECIFICATION FairSpec
INVARIANT
    AwaitsTheLiving
    ClosedAfterServers
    FailureIsReported
PROPERTY
    ServerEnds
    ImplementsLife
