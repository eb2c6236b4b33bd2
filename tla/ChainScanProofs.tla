--------------------------- MODULE ChainScanProofs ---------------------------
(***************************************************************************)
(* Proofs about ChainScan: a payment is confirmed by a transaction that is *)
(* deep enough, one that is looked after stays in every batch, and the     *)
(* scanned blocks hold its transaction as long as whole answers about it   *)
(* are not too far apart.                                                  *)
(***************************************************************************)
EXTENDS ChainScan, FiniteSetTheorems, FunctionTheorems, SequenceTheorems, TLAPS

Polling == {"list", "tip", "height", "logs", "explorer"}

\* The tick looks at one payment at a time, of the chain its step is about.
TickOK ==
    /\ at # NoPayment <=> step \in Polling
    /\ at # NoPayment => status[at] \in Open
    /\ step \in {"list", "tip"} => at \in BitcoinOnes
    /\ step \in {"height", "logs", "explorer"} => at \notin BitcoinOnes
    /\ step = "next" => batch # <<>>
    /\ step \in {"idle", "sweep"} => batch = <<>>

\* The batch lists payments that are open, once each.
BatchOK ==
    \A i \in DOMAIN batch :
        /\ batch[i] # at
        /\ status[batch[i]] \in Open
        /\ \A j \in DOMAIN batch : i # j => batch[i] # batch[j]

\* A transaction in a block was sent, the block is on its chain, and a payment
\* is paid once.
ChainOK ==
    /\ \A x \in Txs : block[x] # 0 => x \in sent
    /\ \A c \in Chains : \A x \in TxsOn(c) : block[x] <= tip[c]
    /\ \A p \in Payments : \A x, y \in Matches[p] \cap sent : x = y

\* What a provider was told is about the payment, and still true unless a
\* transaction got a block meanwhile, or the chain was reorganised.
FoundOK ==
    /\ height <= tip["ethereum"]
    /\ \A p \in Payments : since[p] >= 0
    /\ \A f \in found :
          /\ f[1] \in Matches[at] \cap sent
          /\ ~shaken => f[2] = 0 \/ f[2] = block[f[1]]
          /\ \A g \in found : f = g
    /\ step \notin {"tip", "explorer"} => found = {}
    /\ step = "explorer" => \A f \in found : f[1] \notin Native /\ f[2] # 0

\* Only payments that are there were looked at.
LookedOK == \A p \in looked : status[p] # "none"

\* The payments looked at, and those about to be, are no more than a batch.
Crowd == Cardinality((looked \cap Active) \cup Range(batch)) <= Take

ScanInv ==
    TypeOK /\ TickOK /\ BatchOK /\ ChainOK /\ FoundOK /\ LookedOK /\ Crowd

-----------------------------------------------------------------------------
(* The answers the monitor gets.                                           *)

\* The ways in which a poll comes to an end.
Answer(hits, h, ok) ==
    \/ step \in {"list", "tip", "height"} /\ hits = {} /\ h = 0 /\ ~ok
    \/ step = "tip" /\ hits = found /\ h = tip["bitcoin"] /\ ok
    \/ step = "tip" /\ hits = found /\ h = 0 /\ ~ok
    \/ step = "logs" /\ hits = {} /\ h = height /\ ~ok
    \/ step = "logs" /\ hits = Told(Recent \ Native) /\ h = height /\ ok /\ ~Explorer
    \/ step = "explorer" /\ hits = found /\ h = height /\ ~ok
    \/ /\ step = "explorer" /\ hits = found \cup Told(Recent \cap Native)
       /\ h = height /\ ok = whole

\* And the way in which it goes on after the logs.
GoesOn ==
    /\ step = "logs"
    /\ step' = "explorer"
    /\ \/ found' = Told(Recent \ Native) /\ whole' = TRUE
       \/ found' = {} /\ whole' = FALSE
    /\ UNCHANGED <<chain, rows, batch, at, height, since, shaken>>

FaultsRise ==
    UNCHANGED faults \/ (faults < MaxFaults /\ faults' = faults + 1)

LEMMA PollSteps ==
    ASSUME AskTip \/ AskLogs \/ AskExplorer \/ RequestFails
    PROVE  /\ FaultsRise
           /\ \/ GoesOn
              \/ \E hits, h, ok : Answer(hits, h, ok) /\ Conclude(hits, h, ok)
<1>1. CASE AskTip
  BY <1>1 DEF FaultsRise, AskTip, Answer
<1>2. CASE AskLogs
  BY <1>2 DEF FaultsRise, AskLogs, AfterLogs, GoesOn, Answer
<1>3. CASE AskExplorer
  BY <1>3 DEF FaultsRise, AskExplorer, Answer
<1>4. CASE RequestFails
  BY <1>4 DEF FaultsRise, RequestFails, AfterLogs, GoesOn, Answer
<1>5. QED
  BY <1>1, <1>2, <1>3, <1>4

\* What an answer is worth.
AnswerOK(hits, h, ok) ==
    /\ at \in Payments /\ status[at] \in Open
    /\ h \in Nat /\ h <= tip[ChainOf(at)]
    /\ \A f \in hits :
          /\ f \in Txs \X Nat
          /\ f[1] \in Matches[at] \cap sent
          /\ ~shaken => f[2] = 0 \/ f[2] = block[f[1]]
          /\ \A g \in hits : f = g

LEMMA ToldFits ==
    ASSUME TypeOK, ChainOK, at \in Payments, NEW S \in SUBSET Recent, NEW f \in Told(S)
    PROVE  /\ f \in Txs \X Nat
           /\ f[1] \in S \cap Matches[at] \cap sent
           /\ f[2] = block[f[1]] /\ f[2] # 0
<1> USE ScanConstants DEF TypeOK
<1>1. PICK x \in S \cap Matches[at] : f = <<x, block[x]>>
  BY DEF Told
<1>2. x \in Txs /\ block[x] # 0
  BY <1>1 DEF Recent
<1>3. QED
  BY <1>1, <1>2 DEF ChainOK

LEMMA AnswersFit ==
    ASSUME TypeOK, TickOK, ChainOK, FoundOK, NEW hits, NEW h, NEW ok,
           Answer(hits, h, ok)
    PROVE  AnswerOK(hits, h, ok)
<1> USE ScanConstants DEF TypeOK
<1>1. /\ at \in Payments /\ status[at] \in Open
      /\ IF step \in {"list", "tip"} THEN at \in BitcoinOnes
                                     ELSE at \notin BitcoinOnes
  BY DEF Answer, TickOK, Polling
<1>2. h \in Nat /\ h <= tip[ChainOf(at)]
  BY <1>1 DEF Answer, ChainOf, Chains, FoundOK
<1>3. \A f \in Told(Recent \ Native) :
          /\ f \in Txs \X Nat /\ f[1] \in Matches[at] \cap sent
          /\ f[1] \notin Native /\ f[2] = block[f[1]]
  <2> HIDE DEF TypeOK
  <2> DEFINE S == Recent \ Native
  <2>1. S \in SUBSET Recent /\ \A x \in S : x \notin Native
    OBVIOUS
  <2> HIDE DEF S
  <2>2. \A f \in Told(S) :
            /\ f \in Txs \X Nat /\ f[1] \in Matches[at] \cap sent
            /\ f[1] \in S /\ f[2] = block[f[1]]
    BY <1>1, <2>1, ToldFits
  <2>3. QED
    BY <2>1, <2>2 DEF S
<1>4. \A f \in Told(Recent \cap Native) :
          /\ f \in Txs \X Nat /\ f[1] \in Matches[at] \cap sent
          /\ f[1] \in Native /\ f[2] = block[f[1]]
  <2> HIDE DEF TypeOK
  <2> DEFINE S == Recent \cap Native
  <2>1. S \in SUBSET Recent /\ \A x \in S : x \in Native
    OBVIOUS
  <2> HIDE DEF S
  <2>2. \A f \in Told(S) :
            /\ f \in Txs \X Nat /\ f[1] \in Matches[at] \cap sent
            /\ f[1] \in S /\ f[2] = block[f[1]]
    BY <1>1, <2>1, ToldFits
  <2>3. QED
    BY <2>1, <2>2 DEF S
<1>5. ASSUME NEW f \in hits
      PROVE  /\ f \in Txs \X Nat
             /\ f[1] \in Matches[at] \cap sent
             /\ ~shaken => f[2] = 0 \/ f[2] = block[f[1]]
  <2>1. CASE f \in found
    BY <2>1 DEF FoundOK
  <2>2. CASE f \in Told(Recent \ Native)
    BY <1>3, <2>2
  <2>3. CASE f \in Told(Recent \cap Native)
    BY <1>4, <2>3
  <2>4. QED
    BY <1>5, <2>1, <2>2, <2>3 DEF Answer
<1>6. ASSUME NEW f \in hits, NEW g \in hits PROVE f = g
  <2>1. f[1] = g[1]
    BY <1>1, <1>5 DEF ChainOK
  <2>2. CASE hits \subseteq found
    BY <2>2, <1>6 DEF FoundOK
  <2>3. CASE hits = Told(Recent \ Native)
    <3>1. f[2] = block[f[1]] /\ g[2] = block[g[1]]
      BY <1>3, <1>6, <2>3
    <3>2. f[2] = g[2]
      BY <2>1, <3>1
    <3>3. f = <<f[1], f[2]>> /\ g = <<g[1], g[2]>>
      BY <1>5, <1>6
    <3>4. QED
      BY <2>1, <3>2, <3>3
  <2>4. CASE step = "explorer" /\ hits = found \cup Told(Recent \cap Native)
    <3>1. ASSUME NEW e \in hits
          PROVE  IF e[1] \in Native THEN e \in Told(Recent \cap Native)
                                    ELSE e \in found
      BY <1>4, <2>4, <3>1 DEF FoundOK
    <3>2. CASE f[1] \in Native
      <4>1. f[2] = block[f[1]] /\ g[2] = block[g[1]]
        BY <1>4, <1>6, <2>1, <3>1, <3>2
      <4>2. f[2] = g[2]
        BY <2>1, <4>1
      <4>3. f = <<f[1], f[2]>> /\ g = <<g[1], g[2]>>
        BY <1>5, <1>6
      <4>4. QED
        BY <2>1, <4>2, <4>3
    <3>3. CASE f[1] \notin Native
      BY <1>6, <2>1, <3>1, <3>3 DEF FoundOK
    <3>4. QED
      BY <3>2, <3>3
  <2>5. QED
    BY <2>2, <2>3, <2>4 DEF Answer
<1>7. QED
  BY <1>1, <1>2, <1>5, <1>6 DEF AnswerOK

\* Of several transactions one decides, and the others keep their row.
LEMMA Concluded ==
    ASSUME TypeOK, NEW hits, NEW h, NEW ok, AnswerOK(hits, h, ok),
           Conclude(hits, h, ok)
    PROVE  /\ status' \in [Payments -> Status]
           /\ \A p \in Payments : p # at => status'[p] = status[p]
           /\ status'[at] \in Open \cup {"confirmed"}
           /\ status'[at] # status[at] =>
                 \E f \in hits :
                    status'[at] = Verdict(status[at], Count(f[2], h), Required[at])
<1> USE ScanConstants DEF TypeOK
<1>1. at \in Payments /\ status[at] \in Open /\ h \in Nat
  BY DEF AnswerOK
<1>2. CASE status' = status
  BY <1>1, <1>2 DEF Status
<1>3. CASE status' # status
  <2>1. First(hits) \subseteq hits
    BY DEF First
  <2>2. PICK f \in hits :
            status' = [status EXCEPT ![at] =
                          Verdict(status[at], Count(f[2], h), Required[at])]
    BY <1>3, <2>1 DEF Conclude
  <2>3. Count(f[2], h) \in Int /\ Required[at] \in Nat
    BY <1>1 DEF AnswerOK, Count
  <2>4. Verdict(status[at], Count(f[2], h), Required[at]) \in Open \cup {"confirmed"}
    BY <1>1, <2>3 DEF Verdict, Open
  <2>5. QED
    BY <1>1, <2>2, <2>4 DEF Status
<1>4. QED
  BY <1>2, <1>3

-----------------------------------------------------------------------------
(* The invariant.                                                          *)

LEMMA TypeStep ==
    ASSUME TypeOK, TickOK, ChainOK, FoundOK, [Next]_vars
    PROVE  TypeOK'
<1> USE ScanConstants DEF TypeOK
<1>1. ASSUME NEW p \in Payments, Create(p) PROVE TypeOK'
  BY <1>1 DEF Create, Status, Open, chain, checks, poll
<1>2. ASSUME NEW p \in Payments, PassExpiry(p) PROVE TypeOK'
  BY <1>2 DEF PassExpiry, chain, checks, poll
<1>3. ASSUME NEW x \in Txs, Broadcast(x) PROVE TypeOK'
  BY <1>3 DEF Broadcast, rows, checks, poll
<1>4. ASSUME NEW x \in Txs, Reorg(x) PROVE TypeOK'
  BY <1>4 DEF Reorg, rows, checks, poll
<1>5. ASSUME NEW c \in Chains, Mine(c) PROVE TypeOK'
  BY <1>5 DEF Mine, rows, checks, poll
<1>6. CASE StartTick
  <2>1. PICK n \in 0..Take : \E b \in [1..n -> Active] : GoOn(b)
    BY <1>6 DEF StartTick
  <2>2. PICK b \in [1..n -> Active] : GoOn(b)
    BY <2>1
  <2>3. b \in Seq(Payments)
    BY <2>1, <2>2 DEF Active
  <2>4. QED
    BY <1>6, <2>2, <2>3 DEF StartTick, GoOn, Steps, chain, rows, checks, poll
<1>7. CASE Look
  <2>1. batch # <<>> /\ step = "next"
    BY <1>7 DEF Look, TickOK
  <2>2. Head(batch) \in Payments /\ Tail(batch) \in Seq(Payments)
    BY <2>1, HeadTailProperties
  <2>3. looked' \subseteq Payments /\ older' \subseteq looked' \X looked'
    BY <1>7, <2>2 DEF Look, Active
  <2>4. QED
    BY <1>7, <2>2, <2>3 DEF Look, Steps, chain
<1>8. CASE LookFails
  <2>1. Tail(batch) \in Seq(Payments)
    BY <1>8, HeadTailProperties DEF LookFails, TickOK
  <2>2. faults' \in 0..MaxFaults
    BY <1>8 DEF LookFails
  <2>3. batch' \in Seq(Payments) /\ step' \in Steps
    BY <1>8, <2>1 DEF LookFails, GoOn, Steps
  <2>4. QED
    BY <1>8, <2>2, <2>3 DEF LookFails, chain, rows, checks, poll
<1>9. CASE AskList
  <2>1. at \in Payments
    BY <1>9 DEF AskList, TickOK, Polling
  <2>2. Told(sent) \subseteq Txs \X Nat
    BY <2>1 DEF Told
  <2>3. QED
    BY <1>9, <2>2 DEF AskList, Steps, chain, rows, checks
<1>10. CASE AskHeight
  BY <1>10 DEF AskHeight, Steps, Chains, chain, rows, checks
<1>11. CASE GoesOn /\ FaultsRise
  <2>1. at \in Payments
    BY <1>11 DEF GoesOn, TickOK, Polling
  <2>2. Told(Recent \ Native) \subseteq Txs \X Nat
    BY <2>1 DEF Told
  <2>3. faults' \in 0..MaxFaults
    BY <1>11 DEF FaultsRise
  <2>4. QED
    BY <1>11, <2>2, <2>3 DEF GoesOn, Steps, chain, rows, checks
<1>12. ASSUME NEW hits, NEW h, NEW ok, Answer(hits, h, ok), Conclude(hits, h, ok),
              FaultsRise
       PROVE  TypeOK'
  <2>1. AnswerOK(hits, h, ok)
    BY <1>12, AnswersFit
  <2>2. status' \in [Payments -> Status]
    BY <1>12, <2>1, Concluded
  <2>3. since' \in [Payments -> Int]
    BY <1>12, <2>1 DEF Conclude, AnswerOK, Chains
  <2>4. faults' \in 0..MaxFaults
    BY <1>12 DEF FaultsRise
  <2>5. QED
    BY <1>12, <2>2, <2>3, <2>4 DEF Conclude, NoPoll, GoOn, Steps, chain, checks
<1>13. CASE Sweep
  BY <1>13 DEF Sweep, Steps, Status, chain, checks, poll
<1>14. CASE Restart
  <2>1. faults' \in 0..MaxFaults
    BY <1>14 DEF Restart
  <2>2. batch' \in Seq(Payments) /\ found' \subseteq Txs \X Nat
    BY <1>14 DEF Restart, NoPoll
  <2>3. QED
    BY <1>14, <2>1, <2>2 DEF Restart, NoPoll, Steps, chain, rows, checks
<1>15. CASE UNCHANGED vars
  BY <1>15 DEF vars, chain, rows, checks, poll
<1>16. QED
  BY <1>1, <1>2, <1>3, <1>4, <1>5, <1>6, <1>7, <1>8, <1>9, <1>10, <1>11, <1>12,
     <1>13, <1>14, <1>15, PollSteps DEF Next, TickStep

\* What is left of a batch.
LEMMA TailFits ==
    ASSUME TypeOK, BatchOK, batch # <<>>
    PROVE  /\ Head(batch) \in Payments /\ status[Head(batch)] \in Open
           /\ Tail(batch) \in Seq(Payments)
           /\ \A i \in DOMAIN Tail(batch) :
                 /\ i \in Nat /\ i + 1 \in DOMAIN batch
                 /\ Tail(batch)[i] = batch[i + 1]
                 /\ Tail(batch)[i] # Head(batch)
           /\ Range(batch) = Range(Tail(batch)) \cup {Head(batch)}
<1> USE DEF TypeOK
<1>1. /\ Head(batch) \in Payments /\ Tail(batch) \in Seq(Payments)
      /\ Len(Tail(batch)) = Len(batch) - 1
      /\ \A i \in 1..Len(Tail(batch)) : Tail(batch)[i] = batch[i + 1]
  BY HeadTailProperties
<1>2. /\ DOMAIN batch = 1..Len(batch) /\ DOMAIN Tail(batch) = 1..Len(Tail(batch))
      /\ Len(batch) \in Nat \ {0} /\ Head(batch) = batch[1]
  BY <1>1
<1>3. \A i \in DOMAIN Tail(batch) : i \in Nat /\ i + 1 \in DOMAIN batch
  BY <1>1, <1>2
<1>4. status[batch[1]] \in Open /\ \A i \in DOMAIN batch : i # 1 => batch[i] # batch[1]
  <2>1. 1 \in DOMAIN batch
    BY <1>2
  <2>2. QED
    BY <2>1 DEF BatchOK
<1>5. \A i \in DOMAIN Tail(batch) : Tail(batch)[i] # Head(batch)
  BY <1>1, <1>2, <1>3, <1>4
<1>6. Range(batch) \subseteq Range(Tail(batch)) \cup {Head(batch)}
  <2>1. SUFFICES ASSUME NEW i \in DOMAIN batch, i # 1
                 PROVE  batch[i] \in Range(Tail(batch))
    BY <1>2 DEF Range
  <2>2. i - 1 \in 1..Len(Tail(batch)) /\ i - 1 + 1 = i
    BY <1>1, <1>2, <2>1
  <2>3. Tail(batch)[i - 1] = batch[i]
    BY <1>1, <2>2
  <2>4. QED
    BY <1>2, <2>2, <2>3 DEF Range
<1>7. Range(Tail(batch)) \cup {Head(batch)} \subseteq Range(batch)
  <2>1. batch[1] \in Range(batch) /\ Head(batch) = batch[1]
    <3>1. 1 \in DOMAIN batch
      BY <1>2
    <3>2. QED
      BY <1>2, <3>1 DEF Range
  <2>2. \A i \in DOMAIN Tail(batch) : Tail(batch)[i] = batch[i + 1]
    BY <1>1, <1>2
  <2>3. \A i \in DOMAIN Tail(batch) : Tail(batch)[i] \in Range(batch)
    BY <1>3, <2>2 DEF Range
  <2>4. QED
    BY <2>1, <2>3 DEF Range
<1>8. QED
  BY <1>1, <1>2, <1>3, <1>4, <1>5, <1>6, <1>7

LEMMA TickStays ==
    ASSUME TypeOK, TickOK, BatchOK, ChainOK, FoundOK, [Next]_vars
    PROVE  TickOK'
<1> USE ScanConstants DEF TypeOK, TickOK, Polling
<1>1. ASSUME NEW p \in Payments, Create(p) PROVE TickOK'
  BY <1>1 DEF Create, Open, poll
<1>2. ASSUME NEW p \in Payments, PassExpiry(p) PROVE TickOK'
  BY <1>2 DEF PassExpiry, poll
<1>3. ASSUME NEW x \in Txs, Broadcast(x) \/ Reorg(x) PROVE TickOK'
  BY <1>3 DEF Broadcast, Reorg, rows, poll
<1>4. ASSUME NEW c \in Chains, Mine(c) PROVE TickOK'
  BY <1>4 DEF Mine, rows, poll
<1>5. CASE StartTick
  BY <1>5 DEF StartTick, GoOn, rows, poll
<1>6. CASE Look
  <2>1. Head(batch) \in Payments /\ status[Head(batch)] \in Open
    BY <1>6, TailFits DEF Look
  <2>2. QED
    BY <1>6, <2>1 DEF Look, ChainOf
<1>7. CASE LookFails
  BY <1>7 DEF LookFails, GoOn, rows, poll
<1>8. CASE AskList
  BY <1>8 DEF AskList, rows
<1>9. CASE AskHeight
  BY <1>9 DEF AskHeight, rows
<1>10. CASE GoesOn
  BY <1>10 DEF GoesOn, rows
<1>11. ASSUME NEW hits, NEW h, NEW ok, Conclude(hits, h, ok) PROVE TickOK'
  BY <1>11 DEF Conclude, NoPoll, GoOn
<1>12. CASE Sweep
  BY <1>12 DEF Sweep, Open, poll
<1>13. CASE Restart
  BY <1>13 DEF Restart, NoPoll
<1>14. CASE UNCHANGED vars
  BY <1>14 DEF vars, rows, poll
<1>15. QED
  BY <1>1, <1>2, <1>3, <1>4, <1>5, <1>6, <1>7, <1>8, <1>9, <1>10, <1>11, <1>12,
     <1>13, <1>14, PollSteps DEF Next, TickStep

LEMMA BatchStays ==
    ASSUME TypeOK, TickOK, BatchOK, ChainOK, FoundOK, [Next]_vars
    PROVE  BatchOK'
<1> USE ScanConstants DEF TypeOK
<1>1. ASSUME batch' = batch, at' = at \/ at' = NoPayment,
             \A i \in DOMAIN batch : status'[batch[i]] \in Open
      PROVE  BatchOK'
  BY <1>1 DEF BatchOK
<1>2. ASSUME \A i \in DOMAIN batch : status'[batch[i]] = status[batch[i]],
             batch' = batch, UNCHANGED poll
      PROVE  BatchOK'
  BY <1>1, <1>2 DEF BatchOK, poll
<1>3. CASE UNCHANGED rows /\ UNCHANGED batch /\ UNCHANGED poll
  BY <1>2, <1>3 DEF rows
<1>4. ASSUME NEW p \in Payments, Create(p) PROVE BatchOK'
  <2>1. \A i \in DOMAIN batch : batch[i] # p
    BY <1>4 DEF Create, BatchOK, Open
  <2>2. QED
    BY <1>2, <1>4, <2>1 DEF Create
<1>5. ASSUME NEW p \in Payments, PassExpiry(p) PROVE BatchOK'
  BY <1>2, <1>5 DEF PassExpiry
<1>6. ASSUME NEW x \in Txs, Broadcast(x) \/ Reorg(x) PROVE BatchOK'
  BY <1>3, <1>6 DEF Broadcast, Reorg
<1>7. ASSUME NEW c \in Chains, Mine(c) PROVE BatchOK'
  BY <1>3, <1>7 DEF Mine
<1>8. CASE StartTick
  <2>1. PICK n \in 0..Take : \E b \in [1..n -> Active] : IsBatch(b) /\ GoOn(b)
    BY <1>8 DEF StartTick
  <2>2. PICK b \in [1..n -> Active] : IsBatch(b) /\ GoOn(b)
    BY <2>1
  <2>3. \A i \in DOMAIN b : status[b[i]] \in Open /\ b[i] \in Payments
    BY <2>1, <2>2 DEF Active, IsActive
  <2>4. \A i, j \in DOMAIN b : i # j => b[i] # b[j]
    <3>1. TAKE i, j \in DOMAIN b
    <3>2. i \in Int /\ j \in Int
      BY <2>1, <2>2
    <3>3. QED
      BY <2>2, <3>2 DEF IsBatch
  <2>5. at = NoPayment /\ at' = at /\ status' = status /\ batch' = b
    BY <1>8, <2>2 DEF StartTick, GoOn, TickOK, Polling, rows, poll
  <2>6. QED
    BY <2>3, <2>4, <2>5 DEF BatchOK
<1>9. ASSUME batch' = Tail(batch), batch # <<>>, status' = status,
             at' = at \/ at' = Head(batch)
      PROVE  BatchOK'
  <2>1. ASSUME NEW i \in DOMAIN batch'
        PROVE  /\ i \in Nat /\ i + 1 \in DOMAIN batch
               /\ batch'[i] = batch[i + 1] /\ batch'[i] # Head(batch)
    BY <1>9, <2>1, TailFits
  <2>2. ASSUME NEW i \in DOMAIN batch', NEW j \in DOMAIN batch', i # j
        PROVE  batch'[i] # batch'[j]
    BY <2>1, <2>2 DEF BatchOK
  <2>3. ASSUME NEW i \in DOMAIN batch'
        PROVE  batch'[i] # at' /\ status'[batch'[i]] \in Open
    BY <1>9, <2>1, <2>3 DEF BatchOK
  <2>4. QED
    BY <2>2, <2>3 DEF BatchOK
<1>10. CASE Look
  <2>1. batch' = Tail(batch) /\ batch # <<>> /\ status' = status /\ at' = Head(batch)
    BY <1>10 DEF Look, TickOK
  <2>2. QED
    BY <1>9, <2>1
<1>11. CASE LookFails
  <2>1. batch' = Tail(batch) /\ batch # <<>> /\ status' = status /\ at' = at
    BY <1>11 DEF LookFails, GoOn, TickOK, rows, poll
  <2>2. QED
    BY <1>9, <2>1
<1>12. CASE AskList \/ AskHeight \/ GoesOn
  <2>1. batch' = batch /\ status' = status /\ at' = at
    BY <1>12 DEF AskList, AskHeight, GoesOn, rows
  <2>2. QED
    BY <1>1, <2>1 DEF BatchOK
<1>13. ASSUME NEW hits, NEW h, NEW ok, Answer(hits, h, ok), Conclude(hits, h, ok)
       PROVE  BatchOK'
  <2>1. AnswerOK(hits, h, ok)
    BY <1>13, AnswersFit
  <2>2. \A i \in DOMAIN batch : status'[batch[i]] = status[batch[i]]
    <3>1. \A i \in DOMAIN batch : batch[i] \in Payments /\ batch[i] # at
      BY DEF BatchOK
    <3>2. \A p \in Payments : p # at => status'[p] = status[p]
      BY <1>13, <2>1, Concluded
    <3>3. QED
      BY <3>1, <3>2
  <2>3. batch' = batch /\ at' = NoPayment
    BY <1>13 DEF Conclude, NoPoll, GoOn
  <2>4. QED
    BY <1>1, <2>2, <2>3 DEF BatchOK
<1>14. CASE Sweep
  BY <1>1, <1>14 DEF Sweep, TickOK, poll
<1>15. CASE Restart
  BY <1>15 DEF Restart, BatchOK
<1>16. CASE UNCHANGED vars
  BY <1>3, <1>16 DEF vars
<1>17. QED
  BY <1>4, <1>5, <1>6, <1>7, <1>8, <1>10, <1>11, <1>12, <1>13, <1>14, <1>15, <1>16,
     PollSteps DEF Next, TickStep

LEMMA ChainStays ==
    ASSUME TypeOK, ChainOK, [Next]_vars
    PROVE  ChainOK'
<1> USE ScanConstants DEF TypeOK, ChainOK
<1>1. CASE UNCHANGED chain
  BY <1>1 DEF chain, TxsOn, ChainOf
<1>2. ASSUME NEW x \in Txs, Broadcast(x) PROVE ChainOK'
  <2>1. /\ \A p \in Payments : x \in Matches[p] => Matches[p] \cap sent = {}
        /\ sent' = sent \cup {x} /\ UNCHANGED <<tip, block>>
    BY <1>2 DEF Broadcast
  <2>2. \A p \in Payments : \A y, z \in Matches[p] \cap sent' : y = z
    BY <2>1
  <2>3. QED
    BY <2>1, <2>2 DEF TxsOn, ChainOf
<1>3. ASSUME NEW x \in Txs, Reorg(x) PROVE ChainOK'
  <2>1. /\ block' = [block EXCEPT ![x] = 0] /\ UNCHANGED <<tip, sent>>
    BY <1>3 DEF Reorg
  <2>2. \A c \in Chains : \A y \in TxsOn(c) : y \in Txs /\ tip[c] >= 0
    BY DEF TxsOn
  <2>3. \A c \in Chains : \A y \in TxsOn(c) : block'[y] <= tip'[c]
    BY <2>1, <2>2
  <2>4. \A y \in Txs : block'[y] # 0 => y \in sent'
    BY <2>1
  <2>5. QED
    BY <2>1, <2>3, <2>4 DEF TxsOn, ChainOf
<1>4. ASSUME NEW c \in Chains, Mine(c) PROVE ChainOK'
  <2>1. PICK S \in SUBSET {x \in sent \cap TxsOn(c) : block[x] = 0} :
            block' = [x \in Txs |-> IF x \in S THEN tip[c] + 1 ELSE block[x]]
    BY <1>4 DEF Mine
  <2>2. tip' = [tip EXCEPT ![c] = @ + 1] /\ UNCHANGED sent
    BY <1>4 DEF Mine
  <2>3. \A y \in Txs : block'[y] # 0 => y \in sent'
    BY <2>1, <2>2
  <2>4. ASSUME NEW d \in Chains, NEW y \in TxsOn(d) PROVE block'[y] <= tip'[d]
    <3>1. y \in Txs /\ block[y] <= tip[d] /\ tip[d] \in Nat /\ tip[c] \in Nat
      BY <2>4 DEF TxsOn
    <3>2. CASE y \in S
      <4>1. c = d
        BY <2>1, <2>4, <3>2 DEF Chains
      <4>2. QED
        BY <2>1, <2>2, <3>1, <3>2, <4>1
    <3>3. CASE y \notin S
      BY <2>1, <2>2, <3>1, <3>3
    <3>4. QED
      BY <3>2, <3>3
  <2>5. QED
    BY <2>2, <2>3, <2>4 DEF TxsOn, ChainOf
<1>5. QED
  BY <1>1, <1>2, <1>3, <1>4 DEF Next, TickStep, Create, PassExpiry, StartTick, Look,
     LookFails, AskList, AskTip, AskHeight, AskLogs, AskExplorer, AfterLogs,
     RequestFails, Conclude, Sweep, Restart, vars

LEMMA FoundStays ==
    ASSUME TypeOK, TickOK, ChainOK, FoundOK, [Next]_vars
    PROVE  FoundOK'
<1> USE ScanConstants DEF TypeOK
<1>1. ASSUME height' = 0 \/ height' = tip["ethereum"],
             \A p \in Payments : since'[p] >= 0, UNCHANGED chain, found' = {}
      PROVE  FoundOK'
  BY <1>1 DEF FoundOK, chain, Chains
<1>2. ASSUME UNCHANGED <<tip, block, poll, shaken>>, sent \subseteq sent',
             \A p \in Payments : since'[p] >= 0, UNCHANGED step
      PROVE  FoundOK'
  BY <1>2 DEF FoundOK, poll
<1>3. ASSUME NEW p \in Payments, Create(p) PROVE FoundOK'
  BY <1>2, <1>3 DEF Create, FoundOK, chain
<1>4. ASSUME NEW p \in Payments, PassExpiry(p) PROVE FoundOK'
  BY <1>2, <1>4 DEF PassExpiry, FoundOK, chain
<1>5. ASSUME NEW x \in Txs, Broadcast(x) PROVE FoundOK'
  BY <1>2, <1>5 DEF Broadcast, FoundOK
<1>6. ASSUME NEW x \in Txs, Reorg(x) PROVE FoundOK'
  <2>1. UNCHANGED <<tip, sent, step, poll, since>> /\ shaken' = (at # NoPayment)
    BY <1>6 DEF Reorg
  <2>2. found # {} => shaken'
    BY <2>1 DEF FoundOK, TickOK, Polling
  <2>3. QED
    BY <2>1, <2>2 DEF FoundOK, poll
<1>7. ASSUME NEW c \in Chains, Mine(c) PROVE FoundOK'
  <2>1. PICK S \in SUBSET {x \in sent \cap TxsOn(c) : block[x] = 0} :
            block' = [x \in Txs |-> IF x \in S THEN tip[c] + 1 ELSE block[x]]
    BY <1>7 DEF Mine
  <2>2. UNCHANGED <<sent, step, poll, shaken>>
    BY <1>7 DEF Mine
  <2>3. height' <= tip'["ethereum"]
    BY <1>7, <2>2 DEF Mine, FoundOK, Chains, poll
  <2>4. \A p \in Payments : since'[p] >= 0
    BY <1>7 DEF Mine, FoundOK
  <2>5. ASSUME NEW f \in found, ~shaken
        PROVE  f[2] = 0 \/ f[2] = block'[f[1]]
    <3>1. f[1] \in Txs /\ (f[2] = 0 \/ f[2] = block[f[1]])
      BY <2>5 DEF FoundOK
    <3>2. f[2] # 0 => f[1] \notin S
      BY <2>1, <3>1
    <3>3. QED
      BY <2>1, <3>1, <3>2
  <2>6. QED
    BY <2>2, <2>3, <2>4, <2>5 DEF FoundOK, poll
<1>8. CASE StartTick \/ LookFails
  <2>1. step = "idle" \/ step = "next"
    BY <1>8 DEF StartTick, LookFails
  <2>2. found = {} /\ UNCHANGED <<chain, poll, since>>
    BY <1>8, <2>1 DEF StartTick, LookFails, FoundOK
  <2>3. QED
    BY <2>2 DEF FoundOK, chain, poll
<1>9. CASE Look
  <2>1. found = {} /\ UNCHANGED <<chain, height, found, since>>
    BY <1>9 DEF Look, FoundOK
  <2>2. QED
    BY <2>1 DEF FoundOK, chain
<1>10. CASE AskList
  <2>1. at \in Payments /\ found' = Told(sent) /\ step' = "tip"
    BY <1>10 DEF AskList, TickOK, Polling
  <2>2. UNCHANGED <<chain, at, height, since, shaken>>
    BY <1>10 DEF AskList
  <2>3. ASSUME NEW f \in found' PROVE f[1] \in Matches[at] \cap sent /\ f[2] = block[f[1]]
    BY <2>1, <2>3 DEF Told
  <2>4. ASSUME NEW f \in found', NEW g \in found' PROVE f = g
    <3>1. f[1] = g[1]
      BY <2>1, <2>3, <2>4 DEF ChainOK
    <3>2. f = <<f[1], block[f[1]]>> /\ g = <<g[1], block[g[1]]>>
      BY <2>1, <2>4 DEF Told
    <3>3. QED
      BY <3>1, <3>2
  <2>5. QED
    BY <2>1, <2>2, <2>3, <2>4 DEF FoundOK, chain
<1>11. CASE AskHeight
  BY <1>1, <1>11 DEF AskHeight, FoundOK
<1>12. CASE GoesOn
  <2>1. at \in Payments /\ step' = "explorer"
    BY <1>12 DEF GoesOn, TickOK, Polling
  <2>2. UNCHANGED <<chain, at, height, since, shaken>>
    BY <1>12 DEF GoesOn
  <2>3. CASE found' = {}
    BY <1>1, <2>2, <2>3 DEF FoundOK, chain
  <2>4. CASE found' = Told(Recent \ Native)
    <3> DEFINE S == Recent \ Native
    <3>1. S \in SUBSET Recent /\ (\A x \in S : x \notin Native) /\ found' = Told(S)
      BY <2>4
    <3> HIDE DEF S, TypeOK
    <3>2. \A f \in Told(S) : /\ f \in Txs \X Nat /\ f[1] \in S \cap Matches[at] \cap sent
                             /\ f[2] = block[f[1]] /\ f[2] # 0
      BY <2>1, <3>1, ToldFits
    <3>3. ASSUME NEW f \in found', NEW g \in found' PROVE f = g
      <4>1. f[1] = g[1]
        BY <2>1, <3>1, <3>2, <3>3 DEF ChainOK
      <4>2. f = <<f[1], f[2]>> /\ g = <<g[1], g[2]>> /\ f[2] = g[2]
        BY <3>1, <3>2, <3>3, <4>1
      <4>3. QED
        BY <4>1, <4>2
    <3>4. QED
      BY <2>1, <2>2, <3>1, <3>2, <3>3 DEF FoundOK, chain
  <2>5. QED
    BY <1>12, <2>3, <2>4 DEF GoesOn
<1>13. ASSUME NEW hits, NEW h, NEW ok, Answer(hits, h, ok), Conclude(hits, h, ok)
       PROVE  FoundOK'
  <2>1. AnswerOK(hits, h, ok)
    BY <1>13, AnswersFit
  <2>2. \A p \in Payments : since'[p] >= 0
    <3>1. ChainOf(at) = "ethereum" => tip["ethereum"] - h >= 0
      BY <2>1 DEF AnswerOK, Chains
    <3>2. QED
      BY <1>13, <2>1, <3>1 DEF Conclude, AnswerOK, FoundOK
  <2>3. QED
    BY <1>1, <1>13, <2>2 DEF Conclude, NoPoll
<1>14. CASE Sweep
  BY <1>14 DEF Sweep, FoundOK, chain, poll
<1>15. CASE Restart
  BY <1>1, <1>15 DEF Restart, NoPoll, FoundOK
<1>16. CASE UNCHANGED vars
  BY <1>2, <1>16 DEF vars, FoundOK, chain
<1>17. QED
  BY <1>3, <1>4, <1>5, <1>6, <1>7, <1>8, <1>9, <1>10, <1>11, <1>12, <1>13, <1>14,
     <1>15, <1>16, PollSteps DEF Next, TickStep

\* The payments that were looked at are there.
LEMMA LookedStays ==
    ASSUME TypeOK, TickOK, BatchOK, ChainOK, FoundOK, LookedOK, [Next]_vars
    PROVE  LookedOK'
<1> USE ScanConstants DEF TypeOK
<1>1. CASE UNCHANGED rows
  BY <1>1 DEF rows, checks, LookedOK
<1>2. ASSUME NEW p \in Payments, Create(p) \/ PassExpiry(p) PROVE LookedOK'
  BY <1>2 DEF Create, PassExpiry, LookedOK, checks
<1>3. CASE Look
  <2>1. Head(batch) \in Payments /\ status[Head(batch)] \in Open
    BY <1>3, TailFits DEF Look, TickOK
  <2>2. QED
    BY <1>3, <2>1 DEF Look, LookedOK, Open
<1>4. ASSUME NEW hits, NEW h, NEW ok, Answer(hits, h, ok), Conclude(hits, h, ok)
      PROVE  LookedOK'
  <2>1. AnswerOK(hits, h, ok)
    BY <1>4, AnswersFit
  <2>2. \A p \in Payments : status[p] # "none" => status'[p] # "none"
    BY <1>4, <2>1, Concluded DEF Open
  <2>3. QED
    BY <1>4, <2>2 DEF Conclude, LookedOK, checks
<1>5. CASE Sweep
  BY <1>5 DEF Sweep, LookedOK, checks
<1>6. QED
  BY <1>1, <1>2, <1>3, <1>4, <1>5, PollSteps DEF Next, TickStep, Broadcast, Reorg,
     Mine, StartTick, LookFails, AskList, AskHeight, GoesOn, Restart, vars

\* A batch has room for every payment that was looked at.
LEMMA Kept ==
    ASSUME TypeOK, TickOK, Crowd, step = "idle",
           NEW n \in 0..Take, NEW b \in [1..n -> Active], IsBatch(b)
    PROVE  looked \cap Active \subseteq Range(b) /\ Cardinality(Range(b)) <= Take
<1> USE ScanConstants DEF TypeOK
<1>1. b \in Surjection(1..n, Range(b))
  BY DEF Surjection, Range
<1>2. IsFiniteSet(1..n) /\ Cardinality(1..n) = n
  BY FS_Interval
<1>3. IsFiniteSet(Range(b)) /\ Cardinality(Range(b)) <= n
      /\ (Cardinality(Range(b)) = n <=> b \in Injection(1..n, Range(b)))
  BY <1>1, <1>2, FS_Surjection
<1>4. b \in Injection(1..n, Range(b))
  <2>1. ASSUME NEW i \in 1..n, NEW j \in 1..n, i # j PROVE b[i] # b[j]
    <3>1. i < j \/ j < i
      BY <2>1
    <3>2. QED
      BY <2>1, <3>1 DEF IsBatch
  <2>2. QED
    BY <2>1 DEF Injection, IsInjective, Range
<1>5. ASSUME NEW p \in looked \cap Active, p \notin Range(b) PROVE FALSE
  <2>1. Len(b) = Take /\ \A i \in DOMAIN b : ~Before(p, b[i])
    BY <1>5 DEF IsBatch
  <2>2. n = Take /\ Cardinality(Range(b)) = Take
    BY <1>3, <1>4, <2>1
  <2>3. Range(b) \subseteq looked \cap Active
    <3>1. \A i \in 1..n : b[i] \in looked /\ b[i] \in Active
      BY <1>5, <2>1 DEF Before
    <3>2. QED
      BY <3>1 DEF Range
  <2>4. Cardinality(Range(b) \cup {p}) = Take + 1
    BY <1>3, <1>5, <2>2, FS_AddElement
  <2>5. batch = <<>> /\ Range(batch) = {}
    BY DEF TickOK, Range
  <2>6. Cardinality(looked \cap Active) <= Take
    BY <2>5 DEF Crowd
  <2>7. IsFiniteSet(looked \cap Active)
    BY FS_Subset
  <2>8. Cardinality(Range(b) \cup {p}) <= Cardinality(looked \cap Active)
    <3>1. Range(b) \cup {p} \in SUBSET (looked \cap Active)
      BY <1>5, <2>3
    <3>2. QED
      BY <2>7, <3>1, FS_Subset
  <2>9. Cardinality(looked \cap Active) \in Nat
    BY <2>7, FS_CardinalityType
  <2>10. QED
    BY <2>4, <2>6, <2>8, <2>9
<1>6. Cardinality(Range(b)) <= Take
  BY <1>3, FS_CardinalityType
<1>7. QED
  BY <1>5, <1>6

LEMMA CrowdStays ==
    ASSUME TypeOK, TickOK, BatchOK, ChainOK, FoundOK, LookedOK, Crowd, [Next]_vars
    PROVE  Crowd'
<1> USE ScanConstants DEF TypeOK
<1> DEFINE Crew == (looked \cap Active) \cup Range(batch)
<1>1. IsFiniteSet(Crew) /\ Cardinality(Crew) \in Nat /\ Cardinality(Crew) <= Take
  <2>1. Crew \subseteq Payments
    BY DEF Range, Active
  <2>2. QED
    BY <2>1, FS_Subset, FS_CardinalityType DEF Crowd
<1>2. ASSUME Crew' \subseteq Crew PROVE Crowd'
  <2>1. Cardinality(Crew') \in Nat /\ Cardinality(Crew') <= Cardinality(Crew)
    BY <1>1, <1>2, FS_Subset, FS_CardinalityType
  <2>2. QED
    BY <1>1, <2>1 DEF Crowd
<1> HIDE DEF Crew
<1>3. ASSUME UNCHANGED checks, Range(batch') \subseteq Range(batch), late \subseteq late',
             \A p \in Payments : status'[p] \in Open => status[p] \in Open
      PROVE  Crowd'
  BY <1>2, <1>3 DEF Crew, Active, IsActive, checks
<1>4. CASE UNCHANGED <<rows, batch>>
  BY <1>3, <1>4 DEF rows
<1>5. ASSUME NEW p \in Payments, Create(p) PROVE Crowd'
  <2>1. looked' \cap Active' \subseteq looked \cap Active
    BY <1>5 DEF Create, LookedOK, checks, Active, IsActive
  <2>2. QED
    BY <1>2, <1>5, <2>1 DEF Create, Crew
<1>6. ASSUME NEW p \in Payments, PassExpiry(p) PROVE Crowd'
  BY <1>3, <1>6 DEF PassExpiry
<1>7. CASE StartTick
  <2>1. PICK n \in 0..Take : \E b \in [1..n -> Active] : IsBatch(b) /\ GoOn(b)
    BY <1>7 DEF StartTick
  <2>2. PICK b \in [1..n -> Active] : IsBatch(b) /\ GoOn(b)
    BY <2>1
  <2>3. looked \cap Active \subseteq Range(b) /\ Cardinality(Range(b)) <= Take
    BY <1>7, <2>1, <2>2, Kept DEF StartTick
  <2>4. batch' = b /\ looked' = looked /\ Active' = Active
    BY <1>7, <2>2 DEF StartTick, GoOn, rows, checks, Active, IsActive
  <2>5. QED
    BY <2>3, <2>4 DEF Crowd
<1>8. CASE Look
  <2>1. batch # <<>>
    BY <1>8 DEF Look, TickOK
  <2>2. Range(batch) = Range(Tail(batch)) \cup {Head(batch)}
    BY <2>1, TailFits
  <2>3. looked' = (looked \cap Active) \cup {Head(batch)} /\ batch' = Tail(batch)
    BY <1>8 DEF Look
  <2>4. QED
    BY <1>2, <2>2, <2>3 DEF Crew
<1>9. CASE LookFails
  <2>1. Range(batch) = Range(Tail(batch)) \cup {Head(batch)} /\ batch' = Tail(batch)
    BY <1>9, TailFits DEF LookFails, TickOK, GoOn
  <2>2. QED
    BY <1>3, <1>9, <2>1 DEF LookFails, rows
<1>10. ASSUME NEW hits, NEW h, NEW ok, Answer(hits, h, ok), Conclude(hits, h, ok)
       PROVE  Crowd'
  <2>1. AnswerOK(hits, h, ok)
    BY <1>10, AnswersFit
  <2>2. \A p \in Payments : status'[p] \in Open => status[p] \in Open
    BY <1>10, <2>1, Concluded DEF AnswerOK
  <2>3. QED
    BY <1>3, <1>10, <2>2 DEF Conclude, GoOn
<1>11. CASE Sweep
  BY <1>3, <1>11 DEF Sweep, Open
<1>12. CASE Restart
  BY <1>3, <1>12 DEF Restart, rows, Range
<1>13. QED
  BY <1>4, <1>5, <1>6, <1>7, <1>8, <1>9, <1>10, <1>11, <1>12, PollSteps
     DEF Next, TickStep, Broadcast, Reorg, Mine, AskList, AskHeight, GoesOn, vars

\* The invariant holds in every state.
LEMMA ScanInvariant == Spec => []ScanInv
<1>1. Init => ScanInv
  <2> SUFFICES ASSUME Init PROVE ScanInv
    OBVIOUS
  <2> USE ScanConstants DEF Init
  <2>1. TypeOK
    <3>1. /\ tip \in [Chains -> Nat] /\ block \in [Txs -> Nat]
          /\ status \in [Payments -> Status] /\ since \in [Payments -> Int]
      BY DEF Status
    <3>2. /\ reorgs \in 0..MaxReorgs /\ faults \in 0..MaxFaults /\ height \in Nat
          /\ batch \in Seq(Payments) /\ step \in Steps
      BY DEF Steps
    <3>3. QED
      BY <3>1, <3>2 DEF TypeOK
  <2>2. TickOK /\ BatchOK /\ LookedOK
    BY DEF TickOK, BatchOK, LookedOK, Polling
  <2>3. ChainOK /\ FoundOK
    BY DEF ChainOK, FoundOK, TxsOn, Chains
  <2>4. (looked \cap Active) \cup Range(batch) = {}
    BY DEF Range
  <2>5. Crowd
    <3>1. Cardinality((looked \cap Active) \cup Range(batch)) = 0
      BY <2>4, FS_EmptySet
    <3>2. QED
      BY <3>1 DEF Crowd
  <2>6. QED
    BY <2>1, <2>2, <2>3, <2>5 DEF ScanInv
<1>2. ScanInv /\ [Next]_vars => ScanInv'
  BY TypeStep, TickStays, BatchStays, ChainStays, FoundStays, LookedStays, CrowdStays
     DEF ScanInv
<1>3. QED
  BY <1>1, <1>2, PTL DEF Spec

-----------------------------------------------------------------------------
(* Confirmations.                                                          *)

\* The depth of a transaction is counted on the chain it is on.
LEMMA DepthOfMatch ==
    ASSUME TypeOK, NEW p \in Payments, NEW x \in Matches[p], block[x] # 0
    PROVE  Depth(x) = tip[ChainOf(p)] - block[x] + 1
<1> USE ScanConstants DEF TypeOK
<1>1. x \in Txs /\ ChainOf(p) \in Chains /\ x \in TxsOn(ChainOf(p))
  BY DEF ChainOf, Chains, TxsOn
<1>2. \A c \in Chains : x \in TxsOn(c) <=> c = ChainOf(p)
  BY <1>1 DEF Chains
<1>3. (CHOOSE c \in Chains : x \in TxsOn(c)) = ChainOf(p)
  BY <1>1, <1>2
<1>4. QED
  BY <1>3 DEF Depth

\* A payment becomes confirmed only by a transaction of its own that has, at
\* that moment, the confirmations it requires, whatever was mined between the
\* two requests of checkPayment's poll (ConfirmedDeep).
THEOREM ConfirmedWhenDeep == Spec => ConfirmedDeep
<1> DEFINE Deep ==
      \A p \in Payments :
          status[p] # "confirmed" /\ status'[p] = "confirmed" /\ ~shaken
              => \E x \in Matches[p] : Depth(x) >= Required[p]
<1>1. ASSUME ScanInv, [Next]_vars PROVE [Deep]_vars
  <2> USE ScanConstants
  <2>1. SUFFICES ASSUME NEW p \in Payments, status[p] # "confirmed",
                        status'[p] = "confirmed", ~shaken
                 PROVE  \E x \in Matches[p] : Depth(x) >= Required[p]
    OBVIOUS
  <2>2. TypeOK /\ TickOK /\ ChainOK /\ FoundOK
    BY <1>1 DEF ScanInv
  <2>3. ASSUME NEW hits, NEW h, NEW ok, Answer(hits, h, ok), Conclude(hits, h, ok)
        PROVE  \E x \in Matches[p] : Depth(x) >= Required[p]
    <3>1. AnswerOK(hits, h, ok)
      BY <2>2, <2>3, AnswersFit
    <3>2. p = at /\ status[at] \in Open
      BY <2>1, <2>2, <2>3, <3>1, Concluded DEF AnswerOK
    <3>3. PICK f \in hits :
              status'[at] = Verdict(status[at], Count(f[2], h), Required[at])
      BY <2>1, <2>2, <2>3, <3>1, <3>2, Concluded
    <3>4. /\ f \in Txs \X Nat /\ f[1] \in Matches[at]
          /\ f[2] = 0 \/ f[2] = block[f[1]]
          /\ h \in Nat /\ h <= tip[ChainOf(at)]
      BY <2>1, <3>1, <3>3 DEF AnswerOK
    <3>5. Count(f[2], h) > 0 /\ Count(f[2], h) >= Required[at]
      BY <2>1, <3>2, <3>3 DEF Verdict, Open
    <3>6. f[2] # 0
      BY <3>5 DEF Count
    <3>7. Depth(f[1]) = tip[ChainOf(at)] - f[2] + 1
      BY <2>2, <3>2, <3>4, <3>6, DepthOfMatch
    <3>8. tip[ChainOf(at)] \in Nat /\ Required[at] \in Nat
      BY <2>2, <3>2 DEF TypeOK, ChainOf, Chains
    <3>9. Depth(f[1]) >= Required[at]
      BY <3>4, <3>5, <3>6, <3>7, <3>8 DEF Count
    <3>10. QED
      BY <3>2, <3>4, <3>9
  <2>4. CASE Sweep \/ \E q \in Payments : Create(q)
    BY <2>1, <2>2, <2>4 DEF Sweep, Create, TypeOK
  <2>5. QED
    BY <1>1, <2>1, <2>3, <2>4, PollSteps DEF Next, TickStep, PassExpiry, Broadcast,
       Reorg, Mine, StartTick, Look, LookFails, AskList, AskHeight, GoesOn, Restart,
       vars, rows
<1>2. QED
  BY <1>1, ScanInvariant, PTL DEF Spec, ConfirmedDeep

-----------------------------------------------------------------------------
(* The order of the batches.                                               *)

\* A payment that was looked at once is in every batch until it is no longer
\* active, whatever the number of the others: those never looked at come last,
\* and so no more payments are looked after than a batch has room for
\* (KeptInBatch).
THEOREM LookedAfter == Spec => KeptInBatch
<1> DEFINE Keeps ==
      step = "idle" /\ step' \in {"next", "sweep"}
          => \A p \in Active : p \in looked => p \in Range(batch')
<1>1. ASSUME ScanInv, [Next]_vars PROVE [Keeps]_vars
  <2>1. SUFFICES ASSUME step = "idle", step' \in {"next", "sweep"}
                 PROVE  looked \cap Active \subseteq Range(batch')
    OBVIOUS
  <2>2. CASE StartTick
    <3>1. PICK n \in 0..Take : \E b \in [1..n -> Active] : IsBatch(b) /\ GoOn(b)
      BY <2>2 DEF StartTick
    <3>2. PICK b \in [1..n -> Active] : IsBatch(b) /\ GoOn(b)
      BY <3>1
    <3>3. looked \cap Active \subseteq Range(b) /\ batch' = b
      BY <1>1, <2>1, <3>1, <3>2, Kept DEF ScanInv, GoOn
    <3>4. QED
      BY <3>3
  <2>3. QED
    BY <1>1, <2>1, <2>2 DEF Next, TickStep, Create, PassExpiry, Broadcast, Reorg, Mine,
       Look, LookFails, AskList, AskTip, AskHeight, AskLogs, AskExplorer, RequestFails,
       Sweep, Restart, vars
<1>2. QED
  BY <1>1, ScanInvariant, PTL DEF Spec, KeptInBatch

-----------------------------------------------------------------------------
(* The blocks that are scanned.                                            *)

\* A transaction pays one payment: deposit addresses and amounts differ.
MatchesApart ==
    \A p, q \in Payments : p # q => Matches[p] \cap Matches[q] = {}

\* The scan reaches back over the longest gap and the confirmations.
ScanReaches ==
    \A p \in Payments \ BitcoinOnes : MaxGap + Required[p] <= Scan + 2

\* Payments in ETH are looked for at Etherscan.
NativeSeen ==
    Explorer \/ \A p \in Payments \ BitcoinOnes : Matches[p] \cap Native = {}

\* A payment that is not there yet is not paid.
NotYet ==
    \A p \in Payments :
        status[p] = "none" => since[p] = 0 /\ Matches[p] \cap sent = {}

\* The block of an open payment's transaction is not further back than the
\* last whole answer by more than the confirmations it lacked then.
Sighted ==
    \A p \in Active \ BitcoinOnes : \A x \in Matches[p] :
        since[p] <= MaxGap /\ block[x] # 0
            => tip["ethereum"] + 2 <= block[x] + since[p] + Required[p]

\* The logs told of every token transfer up to the height of the poll.
Seen ==
    step = "explorer" /\ whole /\ IsActive(at) /\ since[at] <= MaxGap =>
        \A x \in Matches[at] \ Native :
            block[x] # 0 /\ block[x] <= height => <<x, block[x]>> \in found

\* The arithmetic of it.
LEMMA ReachBack ==
    ASSUME NEW b \in Nat, NEW h \in Nat, NEW s \in Int, NEW r \in Nat,
           s <= MaxGap, h + 2 <= b + s + r, MaxGap + r <= Scan + 2
    PROVE  b >= FromBlock(h)
BY ScanConstants DEF FromBlock

LEMMA SightedInSight ==
    ASSUME TypeOK, ScanReaches, Sighted
    PROVE  InSight
<1> USE ScanConstants DEF TypeOK
<1>1. SUFFICES ASSUME NEW p \in Active, NEW x \in Matches[p],
                      ChainOf(p) = "ethereum", since[p] <= MaxGap, block[x] # 0
               PROVE  block[x] >= FromBlock(tip["ethereum"])
  BY DEF InSight
<1>2. p \in Payments /\ p \notin BitcoinOnes /\ x \in Txs
  BY <1>1 DEF ChainOf, Active
<1>3. /\ tip["ethereum"] + 2 <= block[x] + since[p] + Required[p]
      /\ MaxGap + Required[p] <= Scan + 2
  BY <1>1, <1>2 DEF Sighted, ScanReaches
<1>4. /\ tip["ethereum"] \in Nat /\ block[x] \in Nat /\ since[p] \in Int
      /\ Required[p] \in Nat
  BY <1>2 DEF Chains
<1>5. since[p] <= MaxGap
  BY <1>1
<1> HIDE DEF TypeOK
<1>6. QED
  BY <1>3, <1>4, <1>5, ReachBack

\* The logs, and Etherscan's list, tell of every transaction that is in sight.
LEMMA ToldWhole ==
    ASSUME TypeOK, TickOK, FoundOK, ScanReaches, Sighted, at \in Active \ BitcoinOnes,
           since[at] <= MaxGap, NEW x \in Matches[at], block[x] # 0
    PROVE  /\ x \in Recent
           /\ \A S : x \in S => <<x, block[x]>> \in Told(S)
<1> USE ScanConstants DEF TypeOK
<1>1. InSight /\ ChainOf(at) = "ethereum" /\ at \in Payments
  BY SightedInSight DEF ChainOf, Active
<1>2. block[x] >= FromBlock(tip["ethereum"]) /\ x \in Txs
  BY <1>1 DEF InSight
<1>3. tip["ethereum"] \in Nat /\ height <= tip["ethereum"] /\ block[x] \in Nat
  BY <1>2 DEF FoundOK, Chains
<1>4. block[x] >= FromBlock(height)
  BY <1>2, <1>3 DEF FromBlock
<1>5. QED
  BY <1>2, <1>4 DEF Recent, Told

LEMMA NotYetStays ==
    ASSUME TypeOK, TickOK, ChainOK, FoundOK, MatchesApart, NotYet, [Next]_vars
    PROVE  NotYet'
<1> USE ScanConstants DEF TypeOK
<1>1. ASSUME UNCHANGED sent,
             \A p \in Payments : status'[p] = "none" =>
                status[p] = "none" /\ since'[p] = since[p]
      PROVE  NotYet'
  BY <1>1 DEF NotYet
<1>2. ASSUME NEW p \in Payments, Create(p) \/ PassExpiry(p) PROVE NotYet'
  BY <1>1, <1>2 DEF Create, PassExpiry, IsActive, Open, chain
<1>3. ASSUME NEW x \in Txs, Broadcast(x) PROVE NotYet'
  <2>1. PICK q \in Active : x \in Matches[q]
    BY <1>3 DEF Broadcast
  <2>2. q \in Payments /\ status[q] # "none"
    BY <2>1 DEF Active, IsActive, Open
  <2>3. \A p \in Payments : status[p] = "none" => x \notin Matches[p]
    BY <2>1, <2>2 DEF MatchesApart
  <2>4. QED
    BY <1>3, <2>3 DEF Broadcast, NotYet, rows
<1>4. ASSUME NEW c \in Chains, Mine(c) PROVE NotYet'
  BY <1>1, <1>4 DEF Mine, Active, IsActive, Open, rows
<1>5. ASSUME NEW hits, NEW h, NEW ok, Answer(hits, h, ok), Conclude(hits, h, ok)
      PROVE  NotYet'
  <2>1. AnswerOK(hits, h, ok)
    BY <1>5, AnswersFit
  <2>2. \A p \in Payments : status'[p] = "none" => status[p] = "none" /\ p # at
    BY <1>5, <2>1, Concluded DEF Open
  <2>3. QED
    BY <1>1, <1>5, <2>2 DEF Conclude, chain
<1>6. CASE Sweep
  BY <1>1, <1>6 DEF Sweep, chain
<1>7. CASE UNCHANGED <<sent, status, since>>
  BY <1>1, <1>7
<1>8. QED
  BY <1>2, <1>3, <1>4, <1>5, <1>6, <1>7, PollSteps DEF Next, TickStep, Reorg, StartTick,
     Look, LookFails, AskList, AskHeight, GoesOn, Restart, vars, rows, chain

\* A whole answer tells of every transaction up to its height.
LEMMA AnswersWhole ==
    ASSUME ScanInv, ScanReaches, NativeSeen, Sighted, Seen,
           NEW hits, NEW h, NEW ok, Answer(hits, h, ok), ok,
           at \in Active \ BitcoinOnes, since[at] <= MaxGap,
           NEW x \in Matches[at], block[x] # 0, block[x] <= h
    PROVE  <<x, block[x]>> \in hits
<1>1. TypeOK /\ TickOK /\ FoundOK
  BY DEF ScanInv
<1>2. /\ x \in Recent
      /\ \A S : x \in S => <<x, block[x]>> \in Told(S)
  BY <1>1, ToldWhole
<1>3. step \in {"logs", "explorer"} /\ IsActive(at) /\ h = height
  BY <1>1 DEF Answer, TickOK, Active
<1>4. CASE step = "logs"
  <2>1. hits = Told(Recent \ Native) /\ x \notin Native
    BY <1>4 DEF Answer, NativeSeen, Active
  <2>2. QED
    BY <1>2, <2>1
<1>5. CASE step = "explorer"
  <2>1. hits = found \cup Told(Recent \cap Native) /\ whole
    BY <1>5 DEF Answer
  <2>2. CASE x \in Native
    BY <1>2, <2>1, <2>2
  <2>3. CASE x \notin Native
    BY <1>3, <1>5, <2>1, <2>3 DEF Seen
  <2>4. QED
    BY <2>2, <2>3
<1>6. QED
  BY <1>3, <1>4, <1>5

\* A payment that a whole answer leaves open lacks confirmations.
LEMMA LeftOpen ==
    ASSUME ScanInv, ScanReaches, NativeSeen, Sighted, Seen,
           NEW hits, NEW h, NEW ok, Answer(hits, h, ok), Conclude(hits, h, ok), ok,
           at \in Active \ BitcoinOnes, since[at] <= MaxGap, status'[at] \in Open,
           NEW x \in Matches[at], block[x] # 0
    PROVE  h + 2 <= block[x] + Required[at]
<1> USE ScanConstants
<1>1. TypeOK /\ TickOK /\ ChainOK /\ FoundOK
  BY DEF ScanInv
<1>2. AnswerOK(hits, h, ok)
  BY <1>1, AnswersFit
<1>3. /\ at \in Payments /\ h \in Nat /\ x \in Txs /\ block[x] \in Nat
      /\ Required[at] \in Nat \ {0}
  BY <1>1, <1>2 DEF TypeOK, AnswerOK
<1>4. CASE block[x] > h
  BY <1>3, <1>4
<1>5. CASE block[x] <= h
  <2>1. <<x, block[x]>> \in hits
    BY <1>5, AnswersWhole
  <2>2. \A f \in hits : f = <<x, block[x]>>
    BY <1>2, <2>1 DEF AnswerOK
  <2>3. First(hits) \subseteq hits
    BY DEF First
  <2>4. PICK f \in First(hits) :
            status' = [status EXCEPT ![at] =
                          Verdict(@, Count(f[2], h), Required[at])]
    BY <2>1 DEF Conclude
  <2>5. f[2] = block[x]
    BY <2>2, <2>3, <2>4
  <2>6. status'[at] = Verdict(status[at], h - block[x] + 1, Required[at])
    BY <1>1, <1>3, <2>4, <2>5 DEF Count, TypeOK
  <2>7. h - block[x] + 1 > 0
    BY <1>3, <1>5
  <2>8. ~(h - block[x] + 1 >= Required[at])
    BY <2>6, <2>7, <1>3 DEF Verdict, Open
  <2>9. QED
    BY <1>3, <2>8
<1>6. QED
  BY <1>3, <1>4, <1>5

LEMMA SightedStays ==
    ASSUME ScanInv, ScanReaches, NativeSeen, NotYet, Sighted, Seen,
           [Next]_vars
    PROVE  Sighted'
<1> USE ScanConstants
<1>1. TypeOK /\ TickOK /\ ChainOK /\ FoundOK
  BY DEF ScanInv
<1>2. \A p \in Payments : \A x \in Matches[p] :
          x \in Txs /\ block[x] \in Nat /\ since[p] \in Nat /\ Required[p] \in Nat \ {0}
  BY <1>1 DEF TypeOK, FoundOK
<1>3. ASSUME UNCHANGED <<tip, block>>,
             \A p \in Active' : p \in Active /\ since'[p] = since[p]
      PROVE  Sighted'
  BY <1>3 DEF Sighted
<1>4. ASSUME NEW p \in Payments, Create(p) PROVE Sighted'
  <2>1. /\ UNCHANGED <<tip, block, since>>
        /\ \A q \in Active' : q # p => q \in Active
    BY <1>4 DEF Create, Active, IsActive, chain
  <2>2. \A x \in Matches[p] : block[x] = 0
    BY <1>1, <1>2, <1>4 DEF Create, NotYet, ChainOK
  <2>3. QED
    BY <2>1, <2>2 DEF Sighted
<1>5. ASSUME NEW p \in Payments, PassExpiry(p) PROVE Sighted'
  <2>1. \A q \in Active' : q # p /\ q \in Active
    BY <1>5 DEF PassExpiry, Active, IsActive
  <2>2. since' = [since EXCEPT ![p] = 0] /\ UNCHANGED chain
    BY <1>5 DEF PassExpiry
  <2>3. QED
    BY <1>1, <1>3, <2>1, <2>2 DEF chain, Active, TypeOK
<1>6. ASSUME NEW x \in Txs, Broadcast(x) PROVE Sighted'
  BY <1>3, <1>6 DEF Broadcast, rows, Active, IsActive
<1>7. ASSUME NEW x \in Txs, Reorg(x) PROVE Sighted'
  <2>1. UNCHANGED <<tip, since>> /\ Active' = Active /\ block' = [block EXCEPT ![x] = 0]
    BY <1>7 DEF Reorg, rows, Active, IsActive
  <2>2. \A y \in Txs : block'[y] # 0 => block'[y] = block[y] /\ block[y] # 0
    BY <1>1, <2>1 DEF TypeOK
  <2>3. QED
    BY <1>2, <2>1, <2>2 DEF Sighted, Active
<1>8. ASSUME NEW c \in Chains, Mine(c) PROVE Sighted'
  <2>1. PICK S \in SUBSET {x \in sent \cap TxsOn(c) : block[x] = 0} :
            block' = [x \in Txs |-> IF x \in S THEN tip[c] + 1 ELSE block[x]]
    BY <1>8 DEF Mine
  <2>2. Active' = Active /\ tip' = [tip EXCEPT ![c] = @ + 1]
    BY <1>8 DEF Mine, rows, Active, IsActive
  <2>3. SUFFICES ASSUME NEW p \in Active \ BitcoinOnes, NEW x \in Matches[p],
                        since'[p] <= MaxGap, block'[x] # 0
                 PROVE  tip'["ethereum"] + 2 <= block'[x] + since'[p] + Required[p]
    BY <2>2 DEF Sighted
  <2>4. /\ p \in Payments /\ ChainOf(p) = "ethereum" /\ x \in TxsOn("ethereum")
        /\ tip["ethereum"] \in Nat
    BY <1>1, <2>3 DEF ChainOf, Active, TxsOn, TypeOK, Chains
  <2>5. CASE c = "bitcoin"
    <3>1. since'[p] = since[p]
      BY <1>8, <2>4, <2>5 DEF Mine
    <3>2. block'[x] = block[x]
      BY <1>2, <2>1, <2>4, <2>5
    <3>3. tip'["ethereum"] = tip["ethereum"]
      BY <1>1, <2>2, <2>5 DEF TypeOK
    <3>4. QED
      BY <2>3, <3>1, <3>2, <3>3 DEF Sighted
  <2>6. CASE c = "ethereum"
    <3>1. since'[p] = IF since[p] <= MaxGap THEN since[p] + 1 ELSE since[p]
      BY <1>8, <2>3, <2>4, <2>6 DEF Mine
    <3>2. since[p] <= MaxGap /\ since'[p] = since[p] + 1
      BY <1>2, <2>3, <2>4, <3>1
    <3>3. tip'["ethereum"] = tip["ethereum"] + 1
      BY <1>1, <2>2, <2>6 DEF TypeOK, Chains
    <3>4. CASE x \in S
      <4>1. block'[x] = tip["ethereum"] + 1
        BY <1>2, <2>1, <2>4, <2>6, <3>4
      <4>2. QED
        BY <1>2, <2>4, <3>2, <3>3, <4>1
    <3>5. CASE x \notin S
      <4>1. block'[x] = block[x]
        BY <1>2, <2>1, <2>4, <3>5
      <4>2. tip["ethereum"] + 2 <= block[x] + since[p] + Required[p]
        BY <2>3, <3>2, <4>1 DEF Sighted
      <4>3. QED
        BY <1>2, <2>4, <3>2, <3>3, <4>1, <4>2
    <3>6. QED
      BY <3>4, <3>5
  <2>7. QED
    BY <2>5, <2>6 DEF Chains
<1>9. ASSUME NEW hits, NEW h, NEW ok, Answer(hits, h, ok), Conclude(hits, h, ok)
      PROVE  Sighted'
  <2>1. AnswerOK(hits, h, ok) /\ at \in Payments /\ status[at] \in Open
    BY <1>1, <1>9, AnswersFit DEF AnswerOK
  <2>2. /\ UNCHANGED <<tip, block, late>>
        /\ since' = [since EXCEPT ![at] =
                        IF ok /\ ChainOf(at) = "ethereum" /\ IsActive(at) /\ @ <= MaxGap
                        THEN tip["ethereum"] - h ELSE @]
    BY <1>9 DEF Conclude, chain
  <2>3. \A p \in Active' :
            p \in Active /\ status'[p] \in Open /\ (p # at => since'[p] = since[p])
    BY <1>1, <1>9, <2>1, <2>2, Concluded DEF Active, IsActive, TypeOK
  <2>4. CASE ~(ok /\ at \in Active' \ BitcoinOnes /\ since[at] <= MaxGap)
    <3>1. \A p \in Active' \ BitcoinOnes : since'[p] = since[p]
      BY <1>1, <2>1, <2>2, <2>3, <2>4 DEF Active, TypeOK
    <3>2. QED
      BY <2>2, <2>3, <3>1 DEF Sighted
  <2>5. CASE ok /\ at \in Active' \ BitcoinOnes /\ since[at] <= MaxGap
    <3>1. at \in Active \ BitcoinOnes /\ status'[at] \in Open
      BY <2>3, <2>5
    <3>2. \A x \in Matches[at] : block[x] # 0 => h + 2 <= block[x] + Required[at]
      BY <1>9, <2>5, <3>1, LeftOpen
    <3>3. since'[at] = tip["ethereum"] - h
      BY <1>1, <2>1, <2>2, <2>5, <3>1 DEF ChainOf, Active, TypeOK
    <3>4. tip["ethereum"] \in Nat /\ h \in Nat
      BY <1>1, <2>1 DEF AnswerOK, TypeOK, Chains
    <3>5. \A x \in Matches[at] : block[x] # 0 =>
              tip["ethereum"] + 2 <= block[x] + since'[at] + Required[at]
      BY <1>2, <2>1, <3>2, <3>3, <3>4
    <3>6. QED
      BY <2>2, <2>3, <3>5 DEF Sighted
  <2>6. QED
    BY <2>4, <2>5
<1>10. CASE Sweep
  BY <1>3, <1>10 DEF Sweep, chain, Active, IsActive, Open
<1>11. CASE UNCHANGED <<tip, block, status, late, since>>
  BY <1>3, <1>11 DEF Active, IsActive
<1>12. QED
  BY <1>4, <1>5, <1>6, <1>7, <1>8, <1>9, <1>10, <1>11, PollSteps DEF Next, TickStep,
     StartTick, Look, LookFails, AskList, AskHeight, GoesOn, Restart, vars, rows, chain

LEMMA SeenStays ==
    ASSUME ScanInv, ScanReaches, Sighted, Seen, [Next]_vars
    PROVE  Seen'
<1> USE ScanConstants
<1>1. TypeOK /\ TickOK /\ ChainOK /\ FoundOK /\ TypeOK'
  BY TypeStep DEF ScanInv
<1>2. CASE step' # "explorer"
  BY <1>2 DEF Seen
<1>3. ASSUME step = "explorer" => at \in Payments /\ at \notin BitcoinOnes,
             UNCHANGED <<step, poll>>,
             step = "explorer" /\ status'[at] \in Open /\ at \notin late' =>
                status[at] \in Open /\ at \notin late /\ since[at] <= since'[at],
             \A x \in Txs : \/ block'[x] \in {0, block[x]}
                            \/ block'[x] > height /\ block[x] = 0
                            \/ x \notin TxsOn("ethereum")
      PROVE  Seen'
  <2>1. SUFFICES ASSUME step = "explorer", whole, status'[at] \in Open, at \notin late',
                        since'[at] <= MaxGap, NEW x \in Matches[at] \ Native,
                        block'[x] # 0, block'[x] <= height
                 PROVE  <<x, block'[x]>> \in found
    BY <1>3 DEF Seen, IsActive, poll
  <2>2. at \in Payments /\ x \in Txs /\ x \in TxsOn("ethereum")
    BY <1>3, <2>1 DEF TxsOn, ChainOf
  <2>3. block'[x] = block[x]
    BY <1>1, <1>3, <2>1, <2>2 DEF TypeOK
  <2>4. IsActive(at) /\ since[at] <= MaxGap
    BY <1>1, <1>3, <2>1, <2>2 DEF TypeOK, IsActive
  <2>5. QED
    BY <2>1, <2>3, <2>4 DEF Seen
<1>4. step = "explorer" => at \in Payments /\ at \notin BitcoinOnes
  BY <1>1 DEF TickOK, TypeOK, Polling
<1>5. ASSUME UNCHANGED <<step, poll, block, status, late>>,
             \A p \in Payments : since[p] <= since'[p]
      PROVE  Seen'
  BY <1>3, <1>4, <1>5
<1>6. \A p \in Payments : since[p] <= since[p]
  BY <1>1 DEF TypeOK
<1>7. ASSUME NEW p \in Payments, Create(p) PROVE Seen'
  <2>1. /\ UNCHANGED <<step, poll, block, late, since>> /\ status[p] = "none"
        /\ \A q \in Payments : q # p => status'[q] = status[q]
    BY <1>1, <1>7 DEF Create, chain, TypeOK
  <2>2. step = "explorer" => at # p
    BY <1>1, <2>1 DEF TickOK, Polling, Open
  <2>3. CASE step = "explorer"
    BY <1>3, <1>4, <1>6, <2>1, <2>2, <2>3
  <2>4. QED
    BY <1>2, <2>1, <2>3
<1>8. ASSUME NEW p \in Payments, PassExpiry(p) PROVE Seen'
  <2>1. /\ UNCHANGED <<step, poll, block, status>> /\ late' = late \cup {p}
        /\ \A q \in Payments : q # p => since'[q] = since[q]
    BY <1>1, <1>8 DEF PassExpiry, chain, TypeOK
  <2>2. QED
    BY <1>3, <1>4, <1>6, <2>1
<1>9. ASSUME NEW x \in Txs, Broadcast(x) PROVE Seen'
  BY <1>5, <1>6, <1>9 DEF Broadcast, rows
<1>10. ASSUME NEW x \in Txs, Reorg(x) PROVE Seen'
  <2>1. /\ UNCHANGED <<step, poll, status, late, since>>
        /\ block' = [block EXCEPT ![x] = 0]
    BY <1>10 DEF Reorg, rows
  <2>2. \A y \in Txs : block'[y] \in {0, block[y]}
    BY <1>1, <2>1 DEF TypeOK
  <2>3. QED
    BY <1>3, <1>4, <1>6, <2>1, <2>2
<1>11. ASSUME NEW c \in Chains, Mine(c) PROVE Seen'
  <2>1. PICK S \in SUBSET {x \in sent \cap TxsOn(c) : block[x] = 0} :
            block' = [x \in Txs |-> IF x \in S THEN tip[c] + 1 ELSE block[x]]
    BY <1>11 DEF Mine
  <2>2. UNCHANGED <<step, poll, status, late>>
    BY <1>11 DEF Mine, rows
  <2>3. \A p \in Payments : since[p] <= since'[p]
    BY <1>1, <1>11 DEF Mine, TypeOK
  <2>4. ASSUME NEW x \in Txs
        PROVE  \/ block'[x] \in {0, block[x]}
               \/ block'[x] > height /\ block[x] = 0
               \/ x \notin TxsOn("ethereum")
    <3>1. CASE x \notin S
      BY <2>1, <3>1
    <3>2. CASE x \in S /\ c = "ethereum"
      <4>1. block'[x] = tip["ethereum"] + 1 /\ block[x] = 0
        BY <2>1, <3>2
      <4>2. QED
        BY <1>1, <4>1 DEF FoundOK, TypeOK, Chains
    <3>3. CASE x \in S /\ c = "bitcoin"
      BY <2>1, <3>3
    <3>4. QED
      BY <3>1, <3>2, <3>3 DEF Chains
  <2>5. QED
    BY <1>3, <1>4, <2>2, <2>3, <2>4
<1>12. CASE GoesOn
  <2>1. at \in Payments /\ at \notin BitcoinOnes
    BY <1>1, <1>12 DEF GoesOn, TickOK, TypeOK, Polling
  <2>2. UNCHANGED <<chain, at, height, since, status, late>>
    BY <1>12 DEF GoesOn, rows
  <2>3. SUFFICES ASSUME whole', IsActive(at), since[at] <= MaxGap,
                        NEW x \in Matches[at] \ Native, block[x] # 0, block[x] <= height
                 PROVE  <<x, block[x]>> \in found'
    BY <2>2 DEF Seen, chain, IsActive
  <2>4. found' = Told(Recent \ Native)
    BY <1>12, <2>3 DEF GoesOn
  <2>5. x \in Recent /\ \A S : x \in S => <<x, block[x]>> \in Told(S)
    BY <1>1, <2>1, <2>3, ToldWhole DEF Active
  <2>6. QED
    BY <2>3, <2>4, <2>5
<1>13. ASSUME NEW hits, NEW h, NEW ok, Conclude(hits, h, ok) PROVE Seen'
  BY <1>2, <1>13 DEF Conclude, GoOn
<1>14. CASE StartTick \/ Look \/ LookFails \/ AskList \/ AskHeight \/ Sweep \/ Restart
  BY <1>2, <1>14 DEF StartTick, Look, LookFails, GoOn, AskList, AskHeight, Sweep, Restart
<1>15. CASE UNCHANGED vars
  BY <1>5, <1>6, <1>15 DEF vars, chain, rows
<1>16. QED
  BY <1>7, <1>8, <1>9, <1>10, <1>11, <1>12, <1>13, <1>14, <1>15, PollSteps
     DEF Next, TickStep

\* The transaction of an active payment is in the blocks the next poll scans,
\* as long as whole answers about the payment are not more than MaxGap blocks
\* apart, if the scan reaches back over that gap and the confirmations that
\* the payment may lack (InSight).
THEOREM PaymentsInSight ==
    MatchesApart /\ ScanReaches /\ NativeSeen => (Spec => []InSight)
<1> SUFFICES ASSUME MatchesApart, ScanReaches, NativeSeen
             PROVE  Spec => []InSight
  OBVIOUS
<1> DEFINE Watch == NotYet /\ Sighted /\ Seen
<1>1. Init => Watch
  BY DEF Init, NotYet, Sighted, Seen, Active, IsActive, Open
<1>2. ScanInv /\ Watch /\ [Next]_vars => Watch'
  BY NotYetStays, SightedStays, SeenStays DEF ScanInv
<1>3. ScanInv /\ Watch => InSight
  BY SightedInSight DEF ScanInv
<1>4. QED
  BY <1>1, <1>2, <1>3, ScanInvariant, PTL DEF Spec
=============================================================================
