---------------------------- MODULE PaymentSystem ----------------------------
(***************************************************************************)
(* The writers of the payments table together: the monitor                 *)
(* (PaymentMonitor), the batches that settle confirmed payments            *)
(* (Settlements) and the sandbox, which sets the status of a test payment  *)
(* (SandboxService.simulatePaymentTx).  Each of them saves whole copies of *)
(* rows: the monitor's may undo a link to a settlement, a batch's may undo *)
(* a status, the sandbox's both.                                           *)
(*                                                                         *)
(* The module adds what the others leave out: settlementId in the copies   *)
(* of the monitor, the rows held by a batch, and the status that           *)
(* PaymentsGateway last pushed to the clients of a payment.                *)
(***************************************************************************)
EXTENDS PaymentMonitor

CONSTANTS
    Test,           \* payments whose environment is "test"
    Sims,           \* calls of simulatePaymentTx
    Simulated,      \* the statuses they ask for
    MockTx,         \* the hash the sandbox makes up
    Batches, NoBatch, Asked, Instant, MaxDeaths    \* of Settlements

ASSUME SystemConstants ==
    /\ Test \subseteq Payments
    /\ Simulated \subseteq Status \ {"none"}
    /\ MockTx \in Txs
    /\ NoBatch \notin Batches

VARIABLES
    link,       \* link[p]: settlementId of p
    linkSnap,   \* linkSnap[t][p]: the same in t's copy of p
    linkEnt,    \* linkEnt[t]: the same in the entity t will save
    bpc, batch, btodo, bstatus, paid, told, bErrors, deaths,  \* of Settlements
    contested,                                                \* of Settlements
    held,       \* held[b][p]: status, hash and confirmations in b's copy of p
    simPc,      \* simPc[s]: where simulation s is
    simOn,      \* simOn[s]: its payment
    simEnt,     \* simEnt[s]: the entity it will save
    simLink,    \* simLink[s]: the settlementId of that entity
    pushed,     \* pushed[p]: the status last pushed, pending at first
    crossed     \* payments a simulation of which met another writer

Settle == INSTANCE Settlements
              WITH confirmed <- {p \in Payments : row[p].status = "confirmed"},
                   pc <- bpc, todo <- btodo, status <- bstatus,
                   dbErrors <- bErrors

linkCopies == <<linkSnap, linkEnt>>
batchVars == <<bpc, batch, btodo, bstatus, paid, told, bErrors, deaths,
               contested, held>>
simVars == <<simPc, simOn, simEnt, simLink>>
systemVars == <<vars, link, linkCopies, batchVars, simVars, pushed,
                crossed>>

SystemInit ==
    /\ Init
    /\ Settle!Init
    /\ linkSnap = [t \in Ticks |-> [p \in Payments |-> NoBatch]]
    /\ linkEnt = [t \in Ticks |-> NoBatch]
    /\ held = [b \in Batches |-> [p \in Payments |-> NoRow]]
    /\ simPc = [s \in Sims |-> "new"]
    /\ simOn = [s \in Sims |-> NoPayment]
    /\ simEnt = [s \in Sims |-> NoRow]
    /\ simLink = [s \in Sims |-> NoBatch]
    /\ pushed = [p \in Payments |-> "pending"]
    /\ crossed = {}

-----------------------------------------------------------------------------
(* The monitor, with the settlementId of its copies.                       *)

QueryLinks(t) ==
    /\ QueryActive(t)
    /\ linkSnap' = [linkSnap EXCEPT ![t] =
                        [p \in Payments |-> IF p \in todo'[t] THEN link[p] ELSE NoBatch]]
    /\ UNCHANGED <<link, linkEnt, pushed>>

MarkWhole(t) ==
    /\ MarkChecked(t)
    /\ link' = [link EXCEPT ![cur'[t]] = linkSnap[t][cur'[t]]]
    /\ UNCHANGED <<linkCopies, pushed>>

ReadWhole(t) ==
    /\ ReadForUpdate(t) \/ ReadForExpiry(t)
    /\ linkEnt' = [linkEnt EXCEPT ![t] = link[cur'[t]]]
    /\ UNCHANGED <<link, linkSnap, pushed>>

SaveWhole(t) ==
    /\ SaveUpdate(t)
    /\ link' = [link EXCEPT ![cur[t]] = linkEnt[t]]
    /\ UNCHANGED <<linkCopies, pushed>>

\* Mutant of Payload: the status of the copy the tick began with.
PayloadOfCopy(t) == snap[t][cur[t]].status

\* The status notifyPaymentUpdate sends to the rooms of a payment.
Payload(t) == ent[t].status

NotifyRooms(t) ==
    /\ Notify(t)
    /\ pushed' = [pushed EXCEPT ![cur[t]] = Payload(t)]
    /\ UNCHANGED <<link, linkCopies>>

Monitor ==
    /\ \/ \E t \in Ticks : QueryLinks(t) \/ MarkWhole(t) \/ ReadWhole(t)
                           \/ SaveWhole(t) \/ NotifyRooms(t)
       \/ /\ \/ \E p \in Payments : Create(p) \/ PassExpiry(p)
             \/ \E x \in Txs \ {MockTx} : Broadcast(x) \/ Bury(x) \/ Reorg(x)
             \/ \E t \in Ticks :
                   \/ StartTick(t) \/ FetchWithoutEffect(t) \/ FetchMatch(t)
                   \/ QueryOverdue(t) \/ FinishTick(t)
          /\ UNCHANGED <<link, linkCopies, pushed>>
    /\ UNCHANGED <<batchVars, simVars, crossed>>

-----------------------------------------------------------------------------
(* Settlements, with the rows a batch holds.                               *)

HoldRows(b) ==
    /\ UNCHANGED vars
    /\ Settle!QueryUnsettled(b)
    /\ held' = [held EXCEPT ![b] =
                    [p \in Payments |-> IF p \in btodo'[b] THEN row[p] ELSE NoRow]]

\* The whole copy is saved, so the status may change with the link.
LinkWhole(b) ==
    /\ bpc[b] = "link"
    /\ \E p \in btodo[b] :
        /\ row' = [row EXCEPT ![p] = held[b][p]]
        /\ link' = [link EXCEPT ![p] = b]
        /\ btodo' = [btodo EXCEPT ![b] = @ \ {p}]
        /\ bpc' = [bpc EXCEPT ![b] = IF btodo[b] = {p} THEN "payout" ELSE "link"]
    /\ UNCHANGED <<overdue, chainVars, isChecking, tickVars, confirmedEvents,
                   crashes, dbErrors>>
    /\ UNCHANGED <<batch, bstatus, paid, told, bErrors, deaths, contested, held>>

Settlement ==
    /\ \E b \in Batches :
          \/ HoldRows(b)
          \/ LinkWhole(b)
          \/ /\ UNCHANGED <<vars, held>>
             /\ \/ Settle!Ask(b) \/ Settle!Refuse(b) \/ Settle!Insert(b)
                \/ Settle!ExecutePayout(b) \/ Settle!RecordPayout(b)
                \/ Settle!Announce(b)
    /\ UNCHANGED <<linkCopies, simVars, pushed, crossed>>

-----------------------------------------------------------------------------
(* The sandbox.                                                            *)

\* In production simulatePaymentTx is for test payments.
MaySimulate(p) == row[p].status # "none" /\ p \in Test

\* simulatePaymentTx calls updatePaymentStatus, which reads the payment.
SimRead(s) ==
    /\ simPc[s] = "new"
    /\ \E p \in Payments, status \in Simulated :
        /\ MaySimulate(p)
        /\ simOn' = [simOn EXCEPT ![s] = p]
        /\ simLink' = [simLink EXCEPT ![s] = link[p]]
        /\ simEnt' = [simEnt EXCEPT ![s] = Apply(row[p],
               [status |-> status, tx |-> MockTx,
                conf |-> IF status = "confirmed" THEN Required[p] ELSE 1])]
    /\ simPc' = [simPc EXCEPT ![s] = "write"]
    /\ UNCHANGED <<vars, link, pushed, crossed>>

\* Someone else is at work on the payment of s, or was since s read it.
Meets(s) ==
    \/ \E t \in Ticks : simOn[s] \in todo[t]
    \/ \E b \in Batches : simOn[s] \in btodo[b]
    \/ \E u \in Sims \ {s} : simOn[u] = simOn[s] /\ simPc[u] # "done"

SimSave(s) ==
    /\ simPc[s] = "write"
    /\ row' = [row EXCEPT ![simOn[s]] = simEnt[s]]
    /\ link' = [link EXCEPT ![simOn[s]] = simLink[s]]
    /\ simPc' = [simPc EXCEPT ![s] = "notify"]
    /\ crossed' = IF Meets(s) \/ link[simOn[s]] # simLink[s]
                  THEN crossed \cup {simOn[s]} ELSE crossed
    /\ UNCHANGED <<overdue, chainVars, isChecking, tickVars, confirmedEvents,
                   crashes, dbErrors>>
    /\ UNCHANGED <<simOn, simEnt, simLink, pushed>>

SimNotify(s) ==
    /\ simPc[s] = "notify"
    /\ pushed' = [pushed EXCEPT ![simOn[s]] = simEnt[s].status]
    /\ confirmedEvents' =
          IF simEnt[s].status = "confirmed"
          THEN [confirmedEvents EXCEPT ![simOn[s]] = @ + 1]
          ELSE confirmedEvents
    /\ simPc' = [simPc EXCEPT ![s] = "done"]
    /\ crossed' = IF row[simOn[s]] # simEnt[s]
                  THEN crossed \cup {simOn[s]} ELSE crossed
    /\ UNCHANGED <<row, overdue, chainVars, isChecking, tickVars, crashes,
                   dbErrors>>
    /\ UNCHANGED <<link, simOn, simEnt, simLink>>

Sandbox ==
    /\ \E s \in Sims : SimRead(s) \/ SimSave(s) \/ SimNotify(s)
    /\ UNCHANGED <<linkCopies, batchVars>>

SystemNext == Monitor \/ Settlement \/ Sandbox

SystemSpec == SystemInit /\ [][SystemNext]_systemVars

-----------------------------------------------------------------------------
\* A payment that was linked to a settlement stays linked, to that settlement
\* unless two batches at work had it to link, and its status is changed by
\* nobody but the sandbox: neither the monitor nor a batch saves a copy read
\* before, unless a simulation met one of them at the payment.  Live payments,
\* which the sandbox does not touch, stay confirmed.
SettledStays ==
    [][\A p \in Payments \ crossed' :
          link[p] # NoBatch =>
              /\ link'[p] # NoBatch
              /\ link'[p] = link[p] \/ p \in contested
              /\ \/ row'[p].status = row[p].status
                 \/ p \in Test /\ \E s \in Sims : simOn[s] = p]_systemVars

\* The clients who watch a payment have been told its status, unless someone
\* is just about to tell them, or a simulation met another writer there.
PushedIsStored ==
    \A p \in Payments \ crossed :
        \/ row[p].status \in {"none", pushed[p]}
        \/ \E t \in Ticks : pc[t] = "notify" /\ cur[t] = p
        \/ \E s \in Sims : simPc[s] = "notify" /\ simOn[s] = p
=============================================================================
