\* One API process with two connections: the promise to retrying clients, and
\* no request waits forever.
SPECIFICATION FairSpec
CONSTANTS
    q1 = q1
    q2 = q2
    q3 = q3
    a1 = a1
    a2 = a2
    c1 = c1
    c2 = c2
    k1 = k1
    h1 = h1
    h2 = h2
    NoKey = NoKey
    NoRequest = NoRequest
    Request <- ThreeRequests
    Key <- OneKey
    Hash <- TwoHashes
    Api <- OneApi
    Client <- OneClient
    PoolSize = 2
    MaxFaults = 1
PROPERTIES
    ImplementsPromise
    EveryRequestAnswered
