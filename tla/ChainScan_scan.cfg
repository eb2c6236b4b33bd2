\* A BTC and an ETH payment that compete for batches of one.
CONSTANTS
    b = b  e = e  xb = xb  xt = xt  xe = xe
    Payments = {b, e}
    NoPayment = NoPayment
    Txs = {xb, xt, xe}
    BitcoinOnes = {b}
    Matches <- MatchesEach
    Native = {xe}
    Explorer = TRUE
    Required <- RequiredEach
    Scan = 2
    Take = 1
    MaxGap = 2
    MaxTip <- TipEach
    MaxReorgs = 1
    MaxFaults = 1
SPECIFICATION FairSpec
INVARIANTS InSight
PROPERTIES ConfirmedDeep PaidInTime KeptInBatch
\* Blocks and payments come to an end.
CHECK_DEADLOCK FALSE
