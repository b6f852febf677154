\* Two routable events and one that is not, two relays, two API
\* processes whose clocks are one tick apart.
SPECIFICATION FairSpec
CONSTANTS
    e1 = e1
    e2 = e2
    u = u
    r1 = r1
    r2 = r2
    Event = {e1, e2, u}
    Routable = {e1, e2}
    Relay = {r1, r2}
    BatchSize = 2
    Base = 2
    Width = 2
    Weight <- PowersOfBase
    Tails = {1}
    a1 = a1
    a2 = a2
    Api = {a1, a2}
    Offset <- OneTickApart
    MaxSkew = 1
    MaxTime = 2
    MaxFailures = 1
INVARIANT MarkedReachedBroker
PROPERTIES
    NoOvertaking
    OnlyBehindUnroutable
    RoutableReachesBroker
\* Without an unroutable event the relays end up idle.
CHECK_DEADLOCK FALSE
