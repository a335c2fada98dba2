SPECIFICATION FairSpec
CONSTANTS
    Requests = {r1, r2}
    Posts <- Sent
    Names <- People
    NormalAgent <- Underscored
    Configs <- Deployments
    MaxMishaps = 2
INVARIANTS IInv TypeOK AcceptedOnce RefusedNotRecorded SessionsApart
PROPERTIES EveryPostJudged
