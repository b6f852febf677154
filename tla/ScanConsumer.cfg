\* Three messages of any content, two scans with a row and one without, two
\* workers with two deliveries each.
SPECIFICATION FairSpec
CONSTANTS
    s1 = s1
    s2 = s2
    gone = gone
    w1 = w1
    w2 = w2
    Message = {1, 2, 3}
    Scan = {s1, s2, gone}
    Known = {s1, s2}
    Worker = {w1, w2}
    Prefetch = 2
INVARIANTS
    WorkersGoOn
    SettledRightly
PROPERTIES
    DeathCost
    QueueDrains
\* Without a message to handle the workers wait.
CHECK_DEADLOCK FALSE
