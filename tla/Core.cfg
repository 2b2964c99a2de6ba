SPECIFICATION Spec
CONSTANTS
    Handles = {h1, h2, h3}
    Details = {d1, d2, d3}
    UserData = {u1, u2, u3}
    NULL = NULL
SYMMETRY Symmetry
INVARIANTS
    DetailOwned
    FreedOnce
    NoLeak
PROPERTY DeletedOnlyIfGivenUp
CHECK_DEADLOCK FALSE
