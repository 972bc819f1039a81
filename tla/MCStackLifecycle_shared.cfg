SPECIFICATION FairSpec
CONSTANTS
    prd = prd  e1 = e1  e2 = e2  c1 = c1  c2 = c2  c3 = c3
    NoName = NoName
    Envs = {prd}
    Slugs = {e1}
    Commands = {c1, c2}
    Ttl = 1
    MaxTime = 3
    MaxUps = 2
    MaxDeaths = 1
    MaxFailures = 1
INVARIANT TypeOK OneUp BillableIsReapable ManifestsDieWithEnv OneEngineAtATime
PROPERTY PermanentSpared
PROPERTY ExpiredIsReaped
