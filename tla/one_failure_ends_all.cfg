SPECIFICATION FairSpec
CONSTANTS
    Requests = {r1, r2}
    Posts <- Sent
    Names <- People
    NormalAgent <- Underscored
    Configs <- Deployments
    MaxMishaps = 1
PROPERTIES FailureStaysLocal
