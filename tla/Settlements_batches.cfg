\* Batches that ask for common payments, beside or after one another, with faults.
CONSTANTS
    p1 = p1  p2 = p2  p3 = p3  b1 = b1  b2 = b2  b3 = b3
    Payments = {p1, p2, p3}
    Batches = {b1, b2, b3}
    NoBatch = NoBatch
    Asked <- AskedApart
    Instant = {b2}
    MaxDbErrors = 1
    MaxDeaths = 1
SPECIFICATION Spec
INVARIANTS PaidOnce PaidIsLinked
PROPERTIES RefusalsTrue
\* All batches may have ended.
CHECK_DEADLOCK FALSE
