\* A live and a test payment, their monitor, a simulation and two batches.
CONSTANTS
    p1 = p1  p2 = p2  i1 = i1  t1 = t1  x1 = x1  x2 = x2
    b1 = b1  b2 = b2  s1 = s1  s2 = s2
    Payments = {p1, p2}
    NoPayment = NoPayment
    Instances = {i1}
    Ticks = {t1}
    Host <- HostSole
    Txs = {x1, x2}
    NoTx = NoTx
    Matches <- MatchesLive
    Required <- RequiredOne
    BatchSize = 2
    MaxConf = 1
    MaxCrashes = 0
    MaxDbErrors = 0
    Test = {p2}
    Sims = {s1}
    Simulated = {"confirmed", "confirming"}
    MockTx = x2
    Batches = {b1, b2}
    NoBatch = NoBatch
    Asked <- AskedBoth
    Instant = {}
    MaxDeaths = 0
SYMMETRY Alike
SPECIFICATION SystemSpec
INVARIANTS PushedIsStored
PROPERTIES SettledStays
