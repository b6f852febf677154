\* Three polls of the owner and one stranger's read, against every step of one
\* scan.
SPECIFICATION Spec
CONSTANTS
    s1 = s1
    alice = alice
    bob = bob
    q1 = q1
    q2 = q2
    q3 = q3
    q4 = q4
    v1 = v1
    v2 = v2
    Scan = {s1}
    Result = {v1, v2}
    NoResult = NoResult
    Client = {alice, bob}
    Request = {q1, q2, q3, q4}
    OwnerOf <- Owner
    ScanOf <- Path
    ClientOf <- Sender
SYMMETRY Polls
INVARIANTS
    TypeOK
    CompletedIsWhole
    ViewsNeverGoBack
\* The scan completes and the requests are answered.
CHECK_DEADLOCK FALSE
