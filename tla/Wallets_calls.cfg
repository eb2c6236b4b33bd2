\* A look-up while wallets are managed by calls beside one another.
CONSTANTS
    c1 = c1  c2 = c2  c3 = c3  r1 = r1  m1 = m1
    Ids = {1, 2}
    Calls = {c1, c2, c3}
    Lookups = {r1}
    Merchants = {m1}
    Locations = {}
    Nobody = Nobody
    MerchantOf <- MerchantOne
    Legacy = {}
    NoWallet = 0
    MaxDbErrors = 1
SYMMETRY Alike
SPECIFICATION Spec
INVARIANTS OnePrimary SteadyPrimaryFound FallsBackRightly
\* All calls may have ended.
CHECK_DEADLOCK FALSE
