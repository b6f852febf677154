SPECIFICATION Spec
CONSTANTS
    q1 = q1
    q2 = q2
    c1 = c1
    c2 = c2
    none = none
    NoKey = none
    Request = {q1, q2}
    Client = {c1, c2}
    API_KEYS <- Keys
    Power <- PowersOfTwo
    Input <- Inputs
SYMMETRY Symmetry
INVARIANTS
    StoredIsAdmitted
    RefusedExactly
    RetriesRecognised
\* Every request is answered in the end.
CHECK_DEADLOCK FALSE
