\* One instance, overlapping ticks, a crash and a failed database call.
CONSTANTS
    p1 = p1  p2 = p2  i1 = i1  t1 = t1  t2 = t2  x1 = x1  x2 = x2
    Payments = {p1, p2}
    NoPayment = NoPayment
    Instances = {i1}
    Ticks = {t1, t2}
    Host <- HostOne
    Txs = {x2}
    NoTx = NoTx
    Matches <- MatchesShared
    Required <- RequiredTwo
    BatchSize = 2
    MaxConf = 2
    MaxCrashes = 1
    MaxDbErrors = 1
SPECIFICATION FairSpec
INVARIANTS TickExclusion StatusEvidence NoStaleCopy
PROPERTIES ImplementsLifecycle WindowCloses ConfirmedAnnounced ConfirmedInWindow
