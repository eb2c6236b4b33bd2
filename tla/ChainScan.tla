------------------------------ MODULE ChainScan ------------------------------
(***************************************************************************)
(* How the monitor sees the chains: the order in which it asks about the   *)
(* active payments, the requests BitcoinProvider and EthereumProvider make *)
(* for one of them, and what checkPayment concludes from the answers.      *)
(*                                                                         *)
(* Each request is an action, so blocks are found, and reorganised, between *)
(* the requests of one poll.  The database calls of a poll are joined to   *)
(* the request before or after them: on one instance the copies they use   *)
(* are never stale (NeverStale in PaymentSystemProofs).  There is one      *)
(* Bitcoin and one Ethereum network; amounts and hashes are left out.      *)
(***************************************************************************)
EXTENDS Integers, FiniteSets, Sequences, Functions

CONSTANTS
    Payments,       \* payment ids
    NoPayment,      \* not a payment id
    Txs,            \* transactions that may pay them
    BitcoinOnes,    \* payments in BTC; the others are on Ethereum
    Matches,        \* Matches[p]: transactions to p's address, of p's amount
    Native,         \* transactions in ETH, which leave no ERC-20 log
    Explorer,       \* is an API key for Etherscan configured?
    Required,       \* Required[p]: requiredConfirmations of p
    Scan,           \* how far back Ethereum is scanned, 20 blocks in the code
    Take,           \* the "take" of the query, 50 in the code
    MaxGap,         \* bound: blocks between two whole answers about a payment
    MaxTip,         \* bound: MaxTip[c]: height of chain c
    MaxReorgs,      \* bound: reorganisations
    MaxFaults       \* bound: requests and saves that fail, and restarts

Chains == {"bitcoin", "ethereum"}

\* getProvider.
ChainOf(p) == IF p \in BitcoinOnes THEN "bitcoin" ELSE "ethereum"

TxsOn(c) == UNION {Matches[p] : p \in {q \in Payments : ChainOf(q) = c}}

ASSUME ScanConstants ==
    /\ IsFiniteSet(Payments)
    /\ NoPayment \notin Payments
    /\ BitcoinOnes \subseteq Payments
    /\ Matches \in [Payments -> SUBSET Txs]
    /\ TxsOn("bitcoin") \cap TxsOn("ethereum") = {}
    /\ Native \subseteq Txs
    /\ Explorer \in BOOLEAN
    /\ Required \in [Payments -> Nat \ {0}]
    /\ Scan \in Nat /\ Take \in Nat \ {0} /\ MaxGap \in Nat
    /\ MaxTip \in [Chains -> Nat]
    /\ MaxReorgs \in Nat /\ MaxFaults \in Nat

VARIABLES
    tip,        \* tip[c]: height of chain c
    sent,       \* transactions that were broadcast
    block,      \* block[x]: height of x's block, 0 while it has none
    reorgs,     \* reorganisations so far
    status,     \* status[p]: status of p's row
    late,       \* payments whose expiresAt is past
    looked,     \* active payments that were looked at: lastCheckedAt is set
    older,      \* the pairs of them whose first was looked at before
    batch,      \* payments the tick has still to look at
    step,       \* where the tick is
    at,         \* the payment it is looking at
    height,     \* the height its provider was told
    found,      \* transactions its provider was told, with their blocks
    whole,      \* has every request of this poll succeeded?
    since,      \* since[p]: blocks since the height of p's last whole answer
                \* or p's creation, MaxGap + 1 for good when they were more
    shaken,     \* was a transaction reorganised since the poll began?
    faults      \* failures and restarts so far

chain == <<tip, sent, block, reorgs>>
checks == <<looked, older>>
rows == <<status, late, checks>>
poll == <<at, height, found, whole>>
vars == <<chain, rows, batch, step, poll, since, shaken, faults>>

Open == {"pending", "detected", "confirming"}
Status == Open \cup {"none", "confirmed", "expired"}
Steps == {"idle", "next", "list", "tip", "height", "logs", "explorer", "sweep"}

\* The where clause of checkPendingPayments.
IsActive(p) == status[p] \in Open /\ p \notin late
Active == {p \in Payments : IsActive(p)}

TypeOK ==
    /\ tip \in [Chains -> Nat]
    /\ sent \subseteq Txs
    /\ block \in [Txs -> Nat]
    /\ reorgs \in 0..MaxReorgs
    /\ status \in [Payments -> Status]
    /\ late \subseteq Payments
    /\ looked \subseteq Payments
    /\ older \subseteq looked \X looked
    /\ batch \in Seq(Payments)
    /\ step \in Steps
    /\ at \in Payments \cup {NoPayment}
    /\ height \in Nat
    /\ found \subseteq Txs \X Nat
    /\ whole \in BOOLEAN
    /\ since \in [Payments -> Int]
    /\ shaken \in BOOLEAN
    /\ faults \in 0..MaxFaults

NoPoll ==
    /\ at' = NoPayment
    /\ height' = 0
    /\ found' = {}
    /\ whole' = TRUE
    /\ shaken' = FALSE

Init ==
    /\ tip = [c \in Chains |-> 1]
    /\ sent = {}
    /\ block = [x \in Txs |-> 0]
    /\ reorgs = 0
    /\ status = [p \in Payments |-> "none"]
    /\ late = {}
    /\ looked = {}
    /\ older = {}
    /\ batch = <<>>
    /\ step = "idle"
    /\ at = NoPayment
    /\ height = 0
    /\ found = {}
    /\ whole = TRUE
    /\ since = [p \in Payments |-> 0]
    /\ shaken = FALSE
    /\ faults = 0

-----------------------------------------------------------------------------
(* The environment: merchants, the clock, customers and the chains.        *)

Create(p) ==
    /\ status[p] = "none"
    /\ status' = [status EXCEPT ![p] = "pending"]
    /\ UNCHANGED <<chain, late, checks, batch, step, poll, since, shaken, faults>>

PassExpiry(p) ==
    /\ IsActive(p)
    /\ late' = late \cup {p}
    /\ since' = [since EXCEPT ![p] = 0]
    /\ UNCHANGED <<chain, status, checks, batch, step, poll, shaken,
                   faults>>

\* A customer pays, once, a payment that is open.
Broadcast(x) ==
    /\ \E p \in Active : x \in Matches[p]
    /\ \A p \in Payments : x \in Matches[p] => Matches[p] \cap sent = {}
    /\ sent' = sent \cup {x}
    /\ UNCHANGED <<tip, block, reorgs, rows, batch, step, poll, since, shaken, faults>>

\* A block is found, with any of the transactions that wait for one.  About a
\* payment the monitor looks after there are whole answers at most MaxGap
\* blocks apart.
Mine(c) ==
    LET scanned == {p \in Active : c = "ethereum" /\ ChainOf(p) = c}
    IN  /\ tip[c] < MaxTip[c]
        /\ \A p \in scanned \cap looked : since[p] # MaxGap
        /\ tip' = [tip EXCEPT ![c] = @ + 1]
        /\ \E S \in SUBSET {x \in sent \cap TxsOn(c) : block[x] = 0} :
              block' = [x \in Txs |-> IF x \in S THEN tip[c] + 1 ELSE block[x]]
        /\ since' = [p \in Payments |->
                        IF p \in scanned /\ since[p] <= MaxGap
                        THEN since[p] + 1 ELSE since[p]]
        /\ UNCHANGED <<sent, reorgs, rows, batch, step, poll, shaken, faults>>

\* A reorganisation takes x out of its block.
Reorg(x) ==
    /\ reorgs < MaxReorgs
    /\ block[x] # 0
    /\ reorgs' = reorgs + 1
    /\ block' = [block EXCEPT ![x] = 0]
    /\ shaken' = (at # NoPayment)
    /\ UNCHANGED <<tip, sent, rows, batch, step, poll, since, faults>>

-----------------------------------------------------------------------------
(* A tick: the batch, one payment after another, and the sweep.            *)

\* Mutant of Before: payments never looked at come first.
NullsFirst(p, q) == q \in looked /\ (p \notin looked \/ <<p, q>> \in older)

\* ORDER BY lastCheckedAt ASC; payments never looked at have a null there,
\* which PostgreSQL sorts last, in no particular order.
Before(p, q) == p \in looked /\ (q \notin looked \/ <<p, q>> \in older)

\* The first Take active payments in this order.
IsBatch(b) ==
    /\ \A i, j \in DOMAIN b : i < j => b[i] # b[j] /\ ~Before(b[j], b[i])
    /\ \A q \in Active \ Range(b) :
          Len(b) = Take /\ \A i \in DOMAIN b : ~Before(q, b[i])

\* After the payments of the batch comes the sweep.
GoOn(b) ==
    /\ batch' = b
    /\ step' = IF b = <<>> THEN "sweep" ELSE "next"

StartTick ==
    /\ step = "idle"
    /\ \E n \in 0..Take : \E b \in [1..n -> Active] : IsBatch(b) /\ GoOn(b)
    /\ UNCHANGED <<chain, rows, poll, since, shaken, faults>>

\* checkPayment stamps lastCheckedAt and saves the payment.
Look ==
    /\ step = "next"
    /\ LET p == Head(batch)
       IN  /\ at' = p
           /\ looked' = (looked \cap Active) \cup {p}
           /\ older' = ((older \cap (Active \X Active)) \ ({p} \X Payments))
                          \cup ((looked \cap Active) \ {p}) \X {p}
           /\ step' = IF ChainOf(p) = "bitcoin" THEN "list" ELSE "height"
    /\ batch' = Tail(batch)
    /\ UNCHANGED <<chain, status, late, height, found, whole, since, shaken, faults>>

\* The save fails, and the loop turns to the next payment.
LookFails ==
    /\ step = "next"
    /\ faults < MaxFaults
    /\ faults' = faults + 1
    /\ GoOn(Tail(batch))
    /\ UNCHANGED <<chain, rows, poll, since, shaken>>

\* Mutant of Count: the block of the transaction is forgotten, or counted twice.
CountAbove(b, h) == IF b = 0 THEN 0 ELSE h - b
CountTwice(b, h) == IF b = 0 THEN 0 ELSE h - b + 2

\* The confirmations of a transaction in block b at the height h.
Count(b, h) == IF b = 0 THEN 0 ELSE h - b + 1

\* The status checkPayment leaves a payment in, from the status s and c
\* confirmations of the r it requires.
Verdict(s, c, r) ==
    CASE c = 0 /\ s = "pending" -> "detected"
      [] c > 0 /\ c >= r        -> "confirmed"
      [] c > 0 /\ c < r         -> "confirming"
      [] OTHER                  -> s

\* The list the provider returns has the logs before Etherscan's transactions;
\* the first transaction that matches decides.
First(hits) ==
    LET logged == {f \in hits : f[1] \notin Native}
    IN  IF logged = {} THEN hits ELSE logged

\* The poll ends with the transactions hits, seen at the height h, and is the
\* last word about the payment if ok.
Conclude(hits, h, ok) ==
    /\ IF hits = {} THEN UNCHANGED status
       ELSE \E f \in First(hits) :
               status' = [status EXCEPT ![at] =
                             Verdict(@, Count(f[2], h), Required[at])]
    /\ since' = [since EXCEPT ![at] =
                     IF ok /\ ChainOf(at) = "ethereum" /\ IsActive(at) /\ @ <= MaxGap
                     THEN tip["ethereum"] - h ELSE @]
    /\ NoPoll
    /\ GoOn(batch)
    /\ UNCHANGED <<chain, late, checks>>

Told(S) == {<<x, block[x]>> : x \in S \cap Matches[at]}

\* Bitcoin: the transactions of the address, in blocks or not, and then the
\* height.
AskList ==
    /\ step = "list"
    /\ found' = Told(sent)
    /\ step' = "tip"
    /\ UNCHANGED <<chain, rows, batch, at, height, whole, since, shaken, faults>>

AskTip ==
    /\ step = "tip"
    /\ Conclude(found, tip["bitcoin"], TRUE)
    /\ UNCHANGED faults

\* Ethereum: the height, the logs of the last blocks, and with an API key the
\* transactions in ETH.
AskHeight ==
    /\ step = "height"
    /\ height' = tip["ethereum"]
    /\ step' = "logs"
    /\ UNCHANGED <<chain, rows, batch, at, found, whole, since, shaken, faults>>

\* Mutant of FromBlock: one block less is scanned.
FromBlockNext(h) == h - Scan + 1

FromBlock(h) == h - Scan

Recent == {x \in Txs : block[x] # 0 /\ block[x] >= FromBlock(height)}

\* The logs are known, or their request has failed: hits.
AfterLogs(hits, ok) ==
    IF Explorer
    THEN /\ found' = hits
         /\ whole' = ok
         /\ step' = "explorer"
         /\ UNCHANGED <<chain, rows, batch, at, height, since, shaken>>
    ELSE Conclude(hits, height, ok)

AskLogs ==
    /\ step = "logs"
    /\ AfterLogs(Told(Recent \ Native), TRUE)
    /\ UNCHANGED faults

AskExplorer ==
    /\ step = "explorer"
    /\ Conclude(found \cup Told(Recent \cap Native), height, whole)
    /\ UNCHANGED faults

\* A failed request makes the answer the empty list, except that the logs and
\* Etherscan's list do without each other, and that a height that is not a
\* number is 0.
RequestFails ==
    /\ faults < MaxFaults
    /\ faults' = faults + 1
    /\ \/ step \in {"list", "tip", "height"} /\ Conclude({}, 0, FALSE)
       \/ step = "tip" /\ Conclude(found, 0, FALSE)
       \/ step = "logs" /\ AfterLogs({}, FALSE)
       \/ step = "explorer" /\ Conclude(found, height, FALSE)

\* expireOldPayments.
Sweep ==
    /\ step = "sweep"
    /\ status' = [p \in Payments |->
                     IF p \in late /\ status[p] \in {"pending", "detected"}
                     THEN "expired" ELSE status[p]]
    /\ step' = "idle"
    /\ UNCHANGED <<chain, late, checks, batch, poll, since, shaken,
                   faults>>

TickStep ==
    \/ StartTick \/ Look \/ LookFails \/ AskList \/ AskTip
    \/ AskHeight \/ AskLogs \/ AskExplorer \/ RequestFails \/ Sweep

\* The process dies and is started again.
Restart ==
    /\ faults < MaxFaults
    /\ faults' = faults + 1
    /\ batch' = <<>>
    /\ step' = "idle"
    /\ NoPoll
    /\ UNCHANGED <<chain, rows, since>>

Next ==
    \/ \E p \in Payments : Create(p) \/ PassExpiry(p)
    \/ \E x \in Txs : Broadcast(x) \/ Reorg(x)
    \/ \E c \in Chains : Mine(c)
    \/ TickStep
    \/ Restart

Spec == Init /\ [][Next]_vars

\* The cron job goes on and calls return; how many may fail is bounded.
Fairness == WF_vars(TickStep)

FairSpec == Spec /\ Fairness

-----------------------------------------------------------------------------
Depth(x) == IF block[x] = 0 THEN 0
            ELSE tip[CHOOSE c \in Chains : x \in TxsOn(c)] - block[x] + 1

\* A payment is confirmed only by a transaction that has the confirmations it
\* requires at that moment, unless the chain was reorganised during the poll:
\* the height and the list are read at two moments, in the safe order.
ConfirmedDeep ==
    [][\A p \in Payments :
          status[p] # "confirmed" /\ status'[p] = "confirmed" /\ ~shaken
              => \E x \in Matches[p] : Depth(x) >= Required[p]]_vars

\* The scan of the last blocks does not lose a payment that was made: the
\* transaction of an active payment is in the blocks the next poll will scan,
\* if whole answers about it were never more than MaxGap blocks apart.
InSight ==
    \A p \in Active : \A x \in Matches[p] :
        ChainOf(p) = "ethereum" /\ since[p] <= MaxGap /\ block[x] # 0
            => block[x] >= FromBlock(tip["ethereum"])

\* A payment whose transaction is deep enough for good, before its window
\* closes, becomes confirmed, if the monitor has looked at it once.
PaidInTime ==
    \A p \in Payments : \A x \in Matches[p] :
        []<>~(/\ IsActive(p) /\ p \in looked /\ since[p] <= MaxGap
              /\ Depth(x) >= Required[p])

\* A payment the monitor has looked at is in every later batch until it is no
\* longer active, however many others there are.
KeptInBatch ==
    [][step = "idle" /\ step' \in {"next", "sweep"}
          => \A p \in Active : p \in looked => p \in Range(batch')]_vars
=============================================================================
