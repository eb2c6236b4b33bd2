------------------------------ MODULE PriceCache ------------------------------
(***************************************************************************)
(* PricingService: a cache of exchange rates in memory, filled by a cron   *)
(* job for all coins at once and by the readers that find their coin       *)
(* missing or too old.  Nothing keeps two requests to the source of prices *)
(* apart, and their answers arrive in any order.                           *)
(*                                                                         *)
(* A price is named after the moment at which the source gave it.  Time is *)
(* counted in any unit up to MaxNow; prices are in AUD, the one currency   *)
(* the program asks for.  getAllPrices, which nothing calls, asks for the  *)
(* coins one after the other and is no more than that many readers.        *)
(***************************************************************************)
EXTENDS Naturals

CONSTANTS
    Coins,          \* CryptoType
    Readers,        \* calls of getExchangeRate
    CoinOf,         \* CoinOf[r]: the coin of reader r
    Refreshes,      \* runs of refreshPrices that may overlap
    MaxAge,         \* priceRefreshIntervalMs
    Timeout,        \* of a request to the source
    MaxNow,         \* bound on the time
    NoPrice,        \* no entry, or an answer the source has not given yet
    Default         \* the price written into the code

\* What every use of the module assumes of its constants.  An interval of zero
\* counts as none, and the code takes 30 seconds.
PriceConstants ==
    /\ Readers \cap Refreshes = {}
    /\ CoinOf \in [Readers -> Coins]
    /\ MaxAge \in Nat \ {0} /\ Timeout \in Nat /\ MaxNow \in Nat
    /\ NoPrice \notin Nat /\ Default \notin Nat /\ NoPrice # Default

VARIABLES
    now,        \* Date.now()
    cache,      \* priceCache: the price and the time it was stored
    flight,     \* flight[f]: the request to the source that f waits for
    given       \* given[r]: the price r was given, and whether it had to be
                \* one at hand, since its own request to the source failed

priceVars == <<now, cache, flight, given>>

Fetchers == Readers \cup Refreshes
Idle == [sent |-> 0, price |-> NoPrice, open |-> FALSE]
NoEntry == [price |-> NoPrice, timestamp |-> 0]
NotGiven == [price |-> NoPrice, atHand |-> FALSE]

PriceTypeOK ==
    /\ now \in Nat
    /\ cache \in [Coins -> [price : Nat \cup {NoPrice}, timestamp : Nat]]
    /\ flight \in [Fetchers -> [sent : Nat, price : Nat \cup {NoPrice},
                                open : BOOLEAN]]
    /\ given \in [Readers -> [price : Nat \cup {NoPrice, Default},
                             atHand : BOOLEAN]]

PriceInit ==
    /\ now = 0
    /\ cache = [k \in Coins |-> NoEntry]
    /\ flight = [f \in Fetchers |-> Idle]
    /\ given = [r \in Readers |-> NotGiven]

-----------------------------------------------------------------------------
\* Mutant of Fresh: an entry of exactly the maximal age still counts.
FreshEnough(k) ==
    cache[k].price # NoPrice /\ now - cache[k].timestamp <= MaxAge

Fresh(k) == cache[k].price # NoPrice /\ now - cache[k].timestamp < MaxAge

Send(f) == flight' = [flight EXCEPT ![f] =
                         [sent |-> now, price |-> NoPrice, open |-> TRUE]]

Close(f) == flight' = [flight EXCEPT ![f] = Idle]

Give(r, price, atHand) ==
    given' = [given EXCEPT ![r] = [price |-> price, atHand |-> atHand]]

\* getExchangeRate: the cached price, or a request to the source.
Ask(r) ==
    /\ given[r] = NotGiven /\ ~flight[r].open
    /\ \/ /\ Fresh(CoinOf[r])
          /\ Give(r, cache[CoinOf[r]].price, FALSE)
          /\ UNCHANGED flight
       \/ /\ ~Fresh(CoinOf[r])
          /\ Send(r)
          /\ UNCHANGED given
    /\ UNCHANGED <<now, cache>>

\* refreshPrices starts, by the cron job or in the constructor.
Refresh(f) ==
    /\ ~flight[f].open
    /\ Send(f)
    /\ UNCHANGED <<now, cache, given>>

\* The source makes its answer to f.
Quote(f) ==
    /\ flight[f].open /\ flight[f].price = NoPrice
    /\ flight' = [flight EXCEPT ![f].price = now]
    /\ UNCHANGED <<now, cache, given>>

\* The entry of a price that has just arrived.
Stored(price) == [price |-> price, timestamp |-> now]

\* fetchPrice gets the price of its coin.
Fetched(r) ==
    /\ flight[r].open /\ flight[r].price # NoPrice
    /\ cache' = [cache EXCEPT ![CoinOf[r]] = Stored(flight[r].price)]
    /\ Give(r, flight[r].price, FALSE)
    /\ Close(r)
    /\ UNCHANGED now

\* refreshPrices gets the prices of the coins in the answer, some may miss.
Refreshed(f) ==
    /\ flight[f].open /\ flight[f].price # NoPrice
    /\ \E known \in SUBSET Coins :
          cache' = [k \in Coins |-> IF k \in known THEN Stored(flight[f].price)
                                    ELSE cache[k]]
    /\ Close(f)
    /\ UNCHANGED <<now, given>>

\* fetchPrice fails: the cached price of any age, else the default.
FetchFails(r) ==
    /\ flight[r].open
    /\ Give(r, IF cache[CoinOf[r]].price = NoPrice THEN Default
               ELSE cache[CoinOf[r]].price, TRUE)
    /\ Close(r)
    /\ UNCHANGED <<now, cache>>

RefreshFails(f) ==
    /\ flight[f].open
    /\ Close(f)
    /\ UNCHANGED <<now, cache, given>>

\* Mutant of MayWait: the requests to the source have no timeout.
MayWaitForEver(f) == TRUE

\* May f wait until the next moment?
MayWait(f) == flight[f].open => now < flight[f].sent + Timeout

Tick ==
    /\ now < MaxNow
    /\ \A f \in Fetchers : MayWait(f)
    /\ now' = now + 1
    /\ UNCHANGED <<cache, flight, given>>

\* The reader is done, with the price it was given or without one.
Leave(r) ==
    /\ Close(r)
    /\ given' = [given EXCEPT ![r] = NotGiven]
    /\ UNCHANGED <<now, cache>>

\* The process starts anew, with nothing in its memory.
Restart ==
    /\ \A r \in Readers : ~flight[r].open
    /\ cache' = [k \in Coins |-> NoEntry]
    /\ flight' = [f \in Fetchers |-> Idle]
    /\ UNCHANGED <<now, given>>

\* What happens to the cache without the readers.
PriceStep ==
    \/ \E f \in Refreshes : Refresh(f) \/ Refreshed(f) \/ RefreshFails(f)
    \/ \E f \in Fetchers : Quote(f)
    \/ \E r \in Readers : Fetched(r) \/ FetchFails(r)
    \/ Tick

PriceNext == PriceStep \/ Restart \/ \E r \in Readers : Ask(r) \/ Leave(r)

PriceSpec == PriceInit /\ [][PriceNext]_priceVars

-----------------------------------------------------------------------------
\* A reader whose own request to the source did not fail is given a price
\* that the source gave less than MaxAge + Timeout before, and never the
\* default, whatever requests overlap and in whichever order they end.
QuoteIsRecent ==
    [][\A r \in Readers :
          given'[r] # given[r] /\ given'[r] # NotGiven /\ ~given'[r].atHand
              => /\ given'[r].price \in Nat
                 /\ now < given'[r].price + MaxAge + Timeout]_priceVars

\* An answer that was overtaken by a newer one puts the cached price back, but
\* not by more than the timeout of a request.
StepsBackLittle ==
    [][\A k \in Coins :
          cache[k].price # NoPrice /\ cache'[k].price # NoPrice
              => cache[k].price <= cache'[k].price + Timeout]_priceVars
=============================================================================
