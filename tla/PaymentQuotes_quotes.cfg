\* A retry and a request of another organization with the same key, over a
\* cache that a cron job and the requests themselves fill.
CONSTANTS
    r1 = r1  r2 = r2  r3 = r3  o1 = o1  o2 = o2  k1 = k1
    f1 = f1  btc = btc 
    Requests = {r1, r2, r3}
    NoPayment = NoPayment
    OrgOf <- OrgPair
    Keys = {k1}
    NoKey = NoKey
    EmptyKey = EmptyKey
    KeyOf <- KeyPair
    Coins = {btc}
    CoinOf <- CoinAll
    Refreshes = {f1}
    MaxAge = 2
    Timeout = 1
    MaxNow = 4
    NoPrice = NoPrice
    Default = Default
SYMMETRY Alike
SPECIFICATION QuotesSpec
INVARIANTS SameAnswer OnePaymentPerKey RetryFindsPayment
PROPERTIES QuoteIsRecent StepsBackLittle
\* Time and requests come to an end.
CHECK_DEADLOCK FALSE
