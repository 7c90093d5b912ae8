SPECIFICATION Spec
CONSTANTS
    Requests = {q1, q2}
    Users = {u1}
    Names = {n1, n2}
    Emails = {e1, e2}
    Points <- ThreePoints
    MaxLocations = 2
INVARIANT TypeOK
PROPERTY RoutesAreAtomic
SYMMETRY Interchangeable
