\* Calls of every kind, overlapping or not.
CONSTANTS
    c1 = c1  c2 = c2  c3 = c3
    Calls = {c1, c2, c3}
    First = First
    NoSecret = NoSecret
    Kept = Kept
SPECIFICATION Spec
INVARIANTS RevocationHolds LatestWorks
PROPERTIES NoLateAccess
\* All calls may have ended.
CHECK_DEADLOCK FALSE
