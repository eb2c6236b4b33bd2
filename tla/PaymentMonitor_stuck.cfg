\* A payment still confirming when its window closes.
CONSTANTS
    p1 = p1  p2 = p2  i1 = i1  t1 = t1  t2 = t2  x1 = x1  x2 = x2
    Payments = {p1}
    NoPayment = NoPayment
    Instances = {i1}
    Ticks = {t1}
    Host <- HostSole
    Txs = {x1}
    NoTx = NoTx
    Matches <- MatchesOne
    Required <- RequiredOne
    BatchSize = 2
    MaxConf = 2
    MaxCrashes = 0
    MaxDbErrors = 0
SPECIFICATION FairSpec
PROPERTY ConfirmationTracked
