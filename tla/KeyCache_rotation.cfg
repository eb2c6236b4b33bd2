\* Two calls over keys that the provider changes meanwhile.
CONSTANTS
    t1 = t1  t2 = t2  k1 = k1  k2 = k2
    Keys = {k1, k2}
    Tokens = {t1, t2}
    Ttl = 2
    Timeout = 1
    MaxNow = 5
    MaxChanges = 3
SYMMETRY Alike
SPECIFICATION KeySpec
INVARIANTS PublishedKeyAccepted
PROPERTIES WithdrawnKeyRefused
\* Time and calls come to an end.
CHECK_DEADLOCK FALSE
