------------------------- MODULE PaymentQuotesProofs -------------------------
(***************************************************************************)
(* Proofs about PaymentQuotes: it implements the creation of payments and  *)
(* the cache of prices it is composed of, so that whatever requests        *)
(* overlap, die or are repeated, a key has one payment and all its answers *)
(* are that payment, and rates are as recent as the cache promises.        *)
(***************************************************************************)
EXTENDS PaymentQuotes, TLAPS

\* What a request has in hand: before it inserts it has no row, while it
\* dispatches it has one, and its answer is a stored payment of its key.
HasRow ==
    \A r \in Requests :
        /\ pc[r] \in {"new", "lookup", "quote"} => r \notin payments
        /\ pc[r] = "dispatch" => r \in payments

AnswerFits ==
    \A r \in Requests :
        /\ pc[r] = "answered" => /\ answer[r] \in payments
                                 /\ SameKey(r, answer[r])
        /\ pc[r] # "answered" => answer[r] = NoPayment

\* A request that goes on to insert found no payment of its key on arrival.
NoneBefore ==
    \A r \in Requests :
        /\ before[r] \subseteq payments
        /\ pc[r] = "quote" /\ AsksForKey(r)
              => \A p \in before[r] : ~SameKey(r, p)

CreationInv ==
    /\ TypeOK
    /\ HasRow
    /\ AnswerFits
    /\ NoneBefore
    /\ OnePaymentPerKey
    /\ RetryFindsPayment
    /\ CreatedOnce

-----------------------------------------------------------------------------
LEMMA InitEstablishes == ASSUME Init PROVE CreationInv
  BY DEF Init, CreationInv, TypeOK, HasRow, AnswerFits, NoneBefore,
         OnePaymentPerKey, RetryFindsPayment, CreatedOnce, Active, Ended

LEMMA StepPreserves ==
    ASSUME CreationInv, [Next]_vars PROVE CreationInv'
<1> USE DEF CreationInv, HasRow, AnswerFits, NoneBefore, RetryFindsPayment,
            SameKey, AsksForKey
<1>1. ASSUME NEW r \in Requests, Arrive(r) PROVE CreationInv'
  <2>1. TypeOK'
    BY <1>1 DEF Arrive, TypeOK, Active
  <2>2. QED
    BY <1>1, <2>1 DEF Arrive, TypeOK, OnePaymentPerKey, CreatedOnce
<1>2. ASSUME NEW r \in Requests, FindExisting(r) PROVE CreationInv'
  <2>1. PICK p \in payments : /\ SameKey(r, p)
                              /\ answer' = [answer EXCEPT ![r] = p]
    BY <1>2 DEF FindExisting
  <2>2. p \in Requests /\ p # r
    BY <1>2, <2>1 DEF FindExisting, TypeOK
  <2>3. TypeOK'
    BY <1>2, <2>1, <2>2 DEF FindExisting, TypeOK, Ended
  <2>4. CreatedOnce'
    BY <1>2, <2>1, <2>2 DEF FindExisting, TypeOK, CreatedOnce
  <2>5. QED
    BY <1>2, <2>1, <2>2, <2>3, <2>4
       DEF FindExisting, TypeOK, OnePaymentPerKey
<1>3. ASSUME NEW r \in Requests, FindNone(r) PROVE CreationInv'
  <2>1. TypeOK'
    BY <1>3 DEF FindNone, TypeOK, Active
  <2>2. QED
    BY <1>3, <2>1 DEF FindNone, TypeOK, OnePaymentPerKey, CreatedOnce
<1>4. ASSUME NEW r \in Requests, Insert(r) PROVE CreationInv'
  <2>1. TypeOK'
    BY <1>4 DEF Insert, TypeOK, Active
  <2>2. OnePaymentPerKey'
    BY <1>4, CreationConstants
       DEF Insert, TypeOK, OnePaymentPerKey, Collides
  <2>3. QED
    BY <1>4, <2>1, <2>2 DEF Insert, TypeOK, CreatedOnce
<1>5. ASSUME NEW r \in Requests, Conflict(r) PROVE CreationInv'
  <2>1. TypeOK'
    BY <1>5 DEF Conflict, TypeOK, Ended
  <2>2. QED
    BY <1>5, <2>1 DEF Conflict, TypeOK, OnePaymentPerKey, CreatedOnce
<1>6. ASSUME NEW r \in Requests, Dispatch(r) PROVE CreationInv'
  <2>1. TypeOK'
    BY <1>6 DEF Dispatch, TypeOK, Ended
  <2>2. created[r] = 0
    BY <1>6, CreationConstants DEF Dispatch, TypeOK, CreatedOnce
  <2>3. CreatedOnce'
    BY <1>6, <2>2 DEF Dispatch, TypeOK, CreatedOnce
  <2>4. QED
    BY <1>6, <2>1, <2>3 DEF Dispatch, TypeOK, OnePaymentPerKey
<1>7. ASSUME NEW r \in Requests, Refuse(r) PROVE CreationInv'
  <2>1. TypeOK'
    BY <1>7 DEF Refuse, TypeOK, Ended
  <2>2. QED
    BY <1>7, <2>1 DEF Refuse, TypeOK, OnePaymentPerKey, CreatedOnce
<1>8. ASSUME NEW r \in Requests, Die(r) PROVE CreationInv'
  <2>1. TypeOK'
    BY <1>8 DEF Die, TypeOK, Ended
  <2>2. QED
    BY <1>8, <2>1 DEF Die, Active, TypeOK, OnePaymentPerKey, CreatedOnce
<1>9. CASE UNCHANGED vars
  BY <1>9 DEF vars, TypeOK, OnePaymentPerKey, CreatedOnce
<1>10. QED
  BY <1>1, <1>2, <1>3, <1>4, <1>5, <1>6, <1>7, <1>8, <1>9 DEF Next, Serve

\* The creation of payments by itself, without prices.
LEMMA CreationSafe == Spec => []CreationInv
<1>1. Init => CreationInv
  BY InitEstablishes
<1>2. CreationInv /\ [Next]_vars => CreationInv'
  BY StepPreserves
<1>3. QED
  BY <1>1, <1>2, PTL DEF Spec

-----------------------------------------------------------------------------
(* The composition implements its parts.                                   *)

\* A request that waits for a rate, and the prices that move meanwhile, do
\* nothing createPayment would not do by itself.
THEOREM QuotesImplementCreation == QuotesSpec => Spec
<1>1. QuotesInit => Init
  BY DEF QuotesInit
<1>2. [QuotesNext]_quoteVars => [Next]_vars
  <2> SUFFICES ASSUME [QuotesNext]_quoteVars PROVE [Next]_vars
    OBVIOUS
  <2>1. ASSUME NEW r \in Requests,
               AskRate(r) \/ StoreAtRate(r) \/ Unpriced(r) \/ DieWaiting(r)
        PROVE  Next
    BY <2>1 DEF AskRate, StoreAtRate, Unpriced, DieWaiting, Next, Serve
  <2>2. CASE PricesMove \/ RestartProcess \/ UNCHANGED quoteVars
    BY <2>2 DEF PricesMove, RestartProcess, quoteVars
  <2>3. QED
    BY <2>1, <2>2 DEF QuotesNext
<1>3. QED
  BY <1>1, <1>2, PTL DEF QuotesSpec, Spec

\* What the requests do to the prices, readers of the cache may do: they ask
\* once, wait for what they asked for and leave.
THEOREM QuotesImplementPrices == QuotesSpec => Cache!PriceSpec
<1>1. QuotesInit => Cache!PriceInit
  BY DEF QuotesInit
<1>2. [QuotesNext]_quoteVars => [Cache!PriceNext]_(Cache!priceVars)
  <2> SUFFICES ASSUME [QuotesNext]_quoteVars
               PROVE  [Cache!PriceNext]_(Cache!priceVars)
    OBVIOUS
  <2>1. ASSUME NEW r \in Requests, AskRate(r) \/ StoreAtRate(r) \/ DieWaiting(r)
        PROVE  Cache!PriceNext
    BY <2>1 DEF AskRate, StoreAtRate, DieWaiting, Cache!PriceNext
  <2>2. ASSUME NEW r \in Requests, Unpriced(r)
        PROVE  UNCHANGED Cache!priceVars
    BY <2>2 DEF Unpriced, prices, Cache!priceVars
  <2>3. CASE PricesMove \/ RestartProcess
    BY <2>3 DEF PricesMove, RestartProcess, Cache!PriceNext
  <2>4. CASE UNCHANGED quoteVars
    BY <2>4 DEF quoteVars, prices, Cache!priceVars
  <2>5. QED
    BY <2>1, <2>2, <2>3, <2>4 DEF QuotesNext
<1>3. QED
  BY <1>1, <1>2, PTL DEF QuotesSpec, Cache!PriceSpec

-----------------------------------------------------------------------------
(* The payments.                                                           *)

\* However requests overlap and whichever instances die, a key has at most
\* one payment in its organization.
THEOREM KeyHasOnePayment == QuotesSpec => []OnePaymentPerKey
  BY QuotesImplementCreation, CreationSafe, PTL DEF CreationInv

\* Requests with one key that are answered are answered with one payment of
\* their own organization.
THEOREM AnswersAgree == QuotesSpec => []SameAnswer
<1>1. CreationInv => SameAnswer
  BY DEF CreationInv, TypeOK, AnswerFits, SameKey, OnePaymentPerKey, SameAnswer
<1>2. QED
  BY <1>1, QuotesImplementCreation, CreationSafe, PTL

\* A retry that arrives after the payment of its key was stored is not
\* refused, and only a request that stored a payment announces one.
THEOREM RetriesAreSafe == QuotesSpec => [](RetryFindsPayment /\ CreatedOnce)
  BY QuotesImplementCreation, CreationSafe, PTL DEF CreationInv

-----------------------------------------------------------------------------
(* The prices.                                                             *)

\* An open request is not older than its timeout, and neither is its answer.
FlightOK ==
    \A f \in Cache!Fetchers : flight[f].open =>
        /\ flight[f].sent <= now /\ now <= flight[f].sent + Timeout
        /\ flight[f].price # NoPrice =>
              flight[f].sent <= flight[f].price /\ flight[f].price <= now

\* A cached price was under way no longer than a request may take.
EntryOK ==
    \A k \in Coins : cache[k].price # NoPrice =>
        /\ cache[k].price <= cache[k].timestamp /\ cache[k].timestamp <= now
        /\ cache[k].timestamp <= cache[k].price + Timeout

PriceInv == Cache!PriceTypeOK /\ FlightOK /\ EntryOK

LEMMA PriceStepKeeps ==
    ASSUME PriceInv, [Cache!PriceNext]_(Cache!priceVars) PROVE PriceInv'
<1> USE QuoteConstants DEF Cache!PriceConstants, PriceInv, Cache!PriceTypeOK, FlightOK,
        EntryOK, Cache!Fetchers, Cache!Idle, Cache!NoEntry, Cache!NotGiven,
        Cache!Send, Cache!Close, Cache!Give, Cache!Stored
<1>1. ASSUME NEW r \in Requests, Cache!Ask(r) PROVE PriceInv'
  <2>1. CASE Cache!Fresh(CoinOf[r])
    <3>1. /\ CoinOf[r] \in Coins /\ cache[CoinOf[r]].price \in Nat
          /\ UNCHANGED <<now, cache, flight>>
          /\ given' = [given EXCEPT ![r] =
                           [price |-> cache[CoinOf[r]].price, atHand |-> FALSE]]
      BY <1>1, <2>1 DEF Cache!Ask, Cache!Fresh
    <3>2. QED
      BY <3>1
  <2>2. CASE ~Cache!Fresh(CoinOf[r])
    <3>1. /\ UNCHANGED <<now, cache, given>>
          /\ flight' = [flight EXCEPT ![r] =
                            [sent |-> now, price |-> NoPrice, open |-> TRUE]]
      BY <1>1, <2>2 DEF Cache!Ask
    <3>2. QED
      BY <3>1
  <2>3. QED
    BY <2>1, <2>2
<1>2. ASSUME NEW f \in Refreshes, Cache!Refresh(f) PROVE PriceInv'
  BY <1>2 DEF Cache!Refresh
<1>3. ASSUME NEW f \in Cache!Fetchers, Cache!Quote(f) PROVE PriceInv'
  BY <1>3 DEF Cache!Quote
<1>4. ASSUME NEW r \in Requests, Cache!Fetched(r) PROVE PriceInv'
  BY <1>4 DEF Cache!Fetched
<1>5. ASSUME NEW f \in Refreshes, Cache!Refreshed(f) PROVE PriceInv'
  BY <1>5 DEF Cache!Refreshed
<1>6. ASSUME NEW r \in Requests, Cache!FetchFails(r) PROVE PriceInv'
  BY <1>6 DEF Cache!FetchFails
<1>7. ASSUME NEW f \in Refreshes, Cache!RefreshFails(f) PROVE PriceInv'
  BY <1>7 DEF Cache!RefreshFails
<1>8. CASE Cache!Tick
  BY <1>8 DEF Cache!Tick, Cache!MayWait
<1>9. ASSUME NEW r \in Requests, Cache!Leave(r) PROVE PriceInv'
  BY <1>9 DEF Cache!Leave
<1>10. CASE Cache!Restart
  BY <1>10 DEF Cache!Restart
<1>11. CASE UNCHANGED Cache!priceVars
  BY <1>11 DEF Cache!priceVars
<1>12. QED
  BY <1>1, <1>2, <1>3, <1>4, <1>5, <1>6, <1>7, <1>8, <1>9, <1>10, <1>11
     DEF Cache!PriceNext, Cache!PriceStep

LEMMA PriceInvariant == QuotesSpec => []PriceInv
<1>1. Cache!PriceInit => PriceInv
  BY QuoteConstants
     DEF Cache!PriceConstants, Cache!PriceInit, PriceInv, Cache!PriceTypeOK, FlightOK,
         EntryOK, Cache!Fetchers, Cache!Idle, Cache!NoEntry, Cache!NotGiven
<1>2. PriceInv /\ [Cache!PriceNext]_(Cache!priceVars) => PriceInv'
  BY PriceStepKeeps
<1>3. QED
  BY <1>1, <1>2, QuotesImplementPrices, PTL DEF Cache!PriceSpec

\* A request gets a rate that the source gave less than the refresh interval
\* and one timeout before, unless the source failed that very request: however
\* the requests of readers and of the cron job overlap, and in whichever order
\* their answers arrive, also across a restart.
THEOREM RatesAreRecent == QuotesSpec => QuoteIsRecent
<1> DEFINE Recent(r) ==
        given'[r] # given[r] /\ given'[r] # Cache!NotGiven /\ ~given'[r].atHand
            => /\ given'[r].price \in Nat
               /\ now < given'[r].price + MaxAge + Timeout
<1>1. ASSUME PriceInv, [Cache!PriceNext]_(Cache!priceVars), NEW r \in Requests
      PROVE  Recent(r)
  <2> USE QuoteConstants, <1>1
      DEF Cache!PriceConstants, PriceInv, Cache!PriceTypeOK, Cache!Give
  <2>1. ASSUME NEW s \in Requests, Cache!Ask(s) PROVE Recent(r)
    <3>1. CASE Cache!Fresh(CoinOf[s]) /\ s = r
      <4> DEFINE entry == cache[CoinOf[r]]
      <4>1. given'[r].price = entry.price
        BY <2>1, <3>1 DEF Cache!Ask
      <4>2. /\ entry.price # NoPrice
            /\ entry.price \in Nat /\ entry.timestamp \in Nat
            /\ now - entry.timestamp < MaxAge
        BY <3>1 DEF Cache!Fresh
      <4>3. entry.timestamp <= entry.price + Timeout
        BY <4>2 DEF EntryOK
      <4>4. QED
        BY <4>1, <4>2, <4>3
    <3>2. CASE ~(Cache!Fresh(CoinOf[s]) /\ s = r)
      BY <2>1, <3>2 DEF Cache!Ask
    <3>3. QED
      BY <3>1, <3>2
  <2>2. ASSUME NEW s \in Requests, Cache!Fetched(s) PROVE Recent(r)
    <3>1. CASE s = r
      <4>1. /\ given'[r].price = flight[r].price
            /\ flight[r].price \in Nat /\ flight[r].sent \in Nat
            /\ flight[r].sent <= flight[r].price
            /\ now <= flight[r].sent + Timeout
        BY <2>2, <3>1 DEF Cache!Fetched, Cache!Fetchers, FlightOK
      <4>2. QED
        BY <4>1
    <3>2. CASE s # r
      BY <2>2, <3>2 DEF Cache!Fetched
    <3>3. QED
      BY <3>1, <3>2
  <2>3. ASSUME NEW s \in Requests, Cache!FetchFails(s) \/ Cache!Leave(s)
        PROVE  Recent(r)
    <3>1. CASE Cache!FetchFails(s)
      <4>1. given'[r] = given[r] \/ given'[r].atHand
        BY <3>1 DEF Cache!FetchFails
      <4>2. QED
        BY <4>1
    <3>2. CASE Cache!Leave(s)
      <4>1. given'[r] = given[r] \/ given'[r] = Cache!NotGiven
        BY <3>2 DEF Cache!Leave
      <4>2. QED
        BY <4>1
    <3>3. QED
      BY <2>3, <3>1, <3>2
  <2>4. CASE \/ \E f \in Refreshes : \/ Cache!Refresh(f) \/ Cache!Refreshed(f)
                                     \/ Cache!RefreshFails(f)
             \/ \E f \in Cache!Fetchers : Cache!Quote(f)
             \/ Cache!Tick \/ Cache!Restart \/ UNCHANGED Cache!priceVars
    BY <2>4 DEF Cache!Refresh, Cache!Refreshed, Cache!RefreshFails, Cache!Quote,
                Cache!Tick, Cache!Restart, Cache!priceVars
  <2>5. QED
    BY <2>1, <2>2, <2>3, <2>4 DEF Cache!PriceNext, Cache!PriceStep
<1>2. PriceInv /\ [Cache!PriceNext]_(Cache!priceVars)
          => [\A r \in Requests : Recent(r)]_(Cache!priceVars)
  BY <1>1
<1> HIDE DEF Recent
<1>3. QuotesSpec => [][\A r \in Requests : Recent(r)]_(Cache!priceVars)
  BY <1>2, PriceInvariant, QuotesImplementPrices, PTL DEF Cache!PriceSpec
<1>4. QED
  BY <1>3 DEF QuoteIsRecent, Cache!QuoteIsRecent, Recent

\* An answer that was overtaken sets the cached price of its coin back by one
\* timeout at most.
THEOREM OvertakenLittle == QuotesSpec => StepsBackLittle
<1> DEFINE Little(k) ==
        cache[k].price # NoPrice /\ cache'[k].price # NoPrice
            => cache[k].price <= cache'[k].price + Timeout
<1>1. ASSUME PriceInv, [Cache!PriceNext]_(Cache!priceVars), NEW k \in Coins
      PROVE  Little(k)
  <2> USE QuoteConstants, <1>1
      DEF Cache!PriceConstants, PriceInv, Cache!PriceTypeOK, Cache!Stored
  <2>1. cache[k].price # NoPrice => cache[k].price \in Nat /\ cache[k].price <= now
    BY DEF EntryOK
  <2>2. CASE cache'[k] = cache[k]
    BY <2>1, <2>2
  <2>3. ASSUME NEW f \in Cache!Fetchers, flight[f].open,
               flight[f].price # NoPrice, cache'[k].price = flight[f].price
        PROVE  Little(k)
    <3>1. /\ flight[f].sent \in Nat /\ flight[f].price \in Nat
          /\ flight[f].sent <= flight[f].price
          /\ now <= flight[f].sent + Timeout
      BY <2>3 DEF FlightOK
    <3>2. QED
      BY <2>1, <2>3, <3>1
  <2>4. ASSUME NEW r \in Requests, Cache!Fetched(r) PROVE Little(k)
    <3>1. /\ r \in Cache!Fetchers /\ flight[r].open /\ flight[r].price # NoPrice
          /\ cache'[k] = cache[k] \/ cache'[k].price = flight[r].price
      BY <2>4 DEF Cache!Fetched, Cache!Fetchers
    <3>2. QED
      BY <2>2, <2>3, <3>1
  <2>5. ASSUME NEW f \in Refreshes, Cache!Refreshed(f) PROVE Little(k)
    <3>1. /\ f \in Cache!Fetchers /\ flight[f].open /\ flight[f].price # NoPrice
          /\ cache'[k] = cache[k] \/ cache'[k].price = flight[f].price
      BY <2>5 DEF Cache!Refreshed, Cache!Fetchers
    <3>2. QED
      BY <2>2, <2>3, <3>1
  <2>6. CASE Cache!Restart
    BY <2>6 DEF Cache!Restart, Cache!NoEntry
  <2>7. CASE \/ \E f \in Refreshes : Cache!Refresh(f) \/ Cache!RefreshFails(f)
             \/ \E f \in Cache!Fetchers : Cache!Quote(f)
             \/ \E r \in Requests : \/ Cache!Ask(r) \/ Cache!FetchFails(r)
                                    \/ Cache!Leave(r)
             \/ Cache!Tick \/ UNCHANGED Cache!priceVars
    <3>1. UNCHANGED cache
      BY <2>7 DEF Cache!Refresh, Cache!RefreshFails, Cache!Quote, Cache!Ask,
                  Cache!FetchFails, Cache!Leave, Cache!Tick, Cache!priceVars
    <3>2. QED
      BY <2>2, <3>1
  <2>8. QED
    BY <2>4, <2>5, <2>6, <2>7 DEF Cache!PriceNext, Cache!PriceStep
<1>2. PriceInv /\ [Cache!PriceNext]_(Cache!priceVars)
          => [\A k \in Coins : Little(k)]_(Cache!priceVars)
  BY <1>1
<1> HIDE DEF Little
<1>3. QuotesSpec => [][\A k \in Coins : Little(k)]_(Cache!priceVars)
  BY <1>2, PriceInvariant, QuotesImplementPrices, PTL DEF Cache!PriceSpec
<1>4. QED
  BY <1>3 DEF StepsBackLittle, Cache!StepsBackLittle, Little
=============================================================================
