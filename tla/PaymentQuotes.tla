---------------------------- MODULE PaymentQuotes ----------------------------
(***************************************************************************)
(* createPayment over PricingService: the requests of PaymentCreation are  *)
(* the readers of PriceCache.  A request that finds no earlier payment     *)
(* asks for the exchange rate in the same step, and inserts its payment    *)
(* with it; a request that finds one asks for none.                        *)
(***************************************************************************)
EXTENDS PaymentCreation

CONSTANTS Coins, CoinOf, Refreshes, MaxAge, Timeout, MaxNow, NoPrice, Default

VARIABLES now, cache, flight, given

Cache == INSTANCE PriceCache WITH Readers <- Requests

prices == <<now, cache, flight, given>>

quoteVars == <<vars, prices>>

ASSUME QuoteConstants == Cache!PriceConstants

QuotesTypeOK ==
    /\ TypeOK
    /\ Cache!PriceTypeOK

QuotesInit ==
    /\ Init
    /\ Cache!PriceInit

Quoted(r) == given[r] # Cache!NotGiven

-----------------------------------------------------------------------------
\* No earlier payment: the exchange rate is asked for.
AskRate(r) ==
    /\ FindNone(r)
    /\ Cache!Ask(r)

\* The request has its rate, and the payment is stored with it or not at all.
StoreAtRate(r) ==
    /\ Quoted(r)
    /\ Insert(r) \/ Conflict(r) \/ Refuse(r)
    /\ Cache!Leave(r)

\* Steps of a request that needs no rate, not yet or not any more.
Unpriced(r) ==
    /\ \/ Arrive(r) \/ FindExisting(r) \/ Dispatch(r)
       \/ pc[r] = "lookup" /\ Refuse(r)
    /\ UNCHANGED prices

\* The process of a request ends, and with it what the request waits for.
DieWaiting(r) ==
    /\ Die(r)
    /\ Cache!Leave(r)

\* Prices come, or time passes.
PricesMove ==
    /\ Cache!PriceStep
    /\ UNCHANGED vars

\* The process that has lost all its requests starts anew.
RestartProcess ==
    /\ \A r \in Requests : pc[r] \notin Active
    /\ Cache!Restart
    /\ UNCHANGED vars

QuotesNext ==
    \/ \E r \in Requests :
          AskRate(r) \/ StoreAtRate(r) \/ Unpriced(r) \/ DieWaiting(r)
    \/ PricesMove
    \/ RestartProcess

QuotesSpec == QuotesInit /\ [][QuotesNext]_quoteVars

-----------------------------------------------------------------------------
\* The rate of a payment is one the source gave less than MaxAge + Timeout
\* before the request got it, unless the source failed that request.
QuoteIsRecent == Cache!QuoteIsRecent

\* A slow answer that overwrites a newer one sets the cache back by no more
\* than the timeout of a request.
StepsBackLittle == Cache!StepsBackLittle
=============================================================================
