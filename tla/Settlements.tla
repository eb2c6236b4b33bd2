----------------------------- MODULE Settlements -----------------------------
(***************************************************************************)
(* SettlementsService: batches that pay a merchant the confirmed payments  *)
(* no settlement has taken yet.  createBatch queries them, stores the      *)
(* settlement, links the payments to it one by one, executes the payout    *)
(* and records its result; no transaction and no lock spans these calls.   *)
(*                                                                         *)
(* A settlement is named after the call of createBatch that stored it.     *)
(* Amounts, fees, bank details and references are left out.  The providers *)
(* of the repository never fail; the database may, and a process may die.  *)
(***************************************************************************)
EXTENDS Naturals

CONSTANTS
    Payments,       \* payments of one organization
    Batches,        \* calls of POST /settlements/batch
    NoBatch,        \* a null settlementId
    Asked,          \* Asked[b]: payments the ids and location of b's DTO admit
    Instant,        \* batches whose provider completes the payout at once
    MaxDbErrors,    \* bound: database calls that fail
    MaxDeaths       \* bound: calls that die with their process

ASSUME SettlementConstants ==
    /\ NoBatch \notin Batches
    /\ Asked \in [Batches -> SUBSET Payments]
    /\ Instant \subseteq Batches
    /\ MaxDbErrors \in Nat
    /\ MaxDeaths \in Nat

VARIABLES
    confirmed,  \* payments with status confirmed
    link,       \* link[p]: settlementId of payment p
    pc,         \* pc[b]: where the call b is
    batch,      \* batch[b]: paymentIds of the settlement b
    todo,       \* todo[b]: payments b has still to link
    status,     \* status[b]: status of the settlement b in its table
    paid,       \* settlements whose payout the provider has executed
    told,       \* settlements announced with settlement.created
    dbErrors,   \* failed database calls so far
    deaths,     \* calls that died so far
    contested   \* history: payments two batches at work had to link

tables == <<confirmed, link, status>>
outside == <<paid, told>>
faults == <<dbErrors, deaths>>
vars == <<tables, pc, batch, todo, outside, faults, contested>>

\* SettlementStatus, without the values no code assigns.
Statuses == {"processing", "completed", "failed"}

Working == {"query", "insert", "link", "payout", "record", "fail", "announce"}
Ended == {"done", "refused", "error", "lost"}

TypeOK ==
    /\ confirmed \subseteq Payments
    /\ link \in [Payments -> Batches \cup {NoBatch}]
    /\ pc \in [Batches -> {"new"} \cup Working \cup Ended]
    /\ batch \in [Batches -> SUBSET Payments]
    /\ todo \in [Batches -> SUBSET Payments]
    /\ status \in [Batches -> Statuses \cup {"none"}]
    /\ paid \subseteq Batches
    /\ told \subseteq Batches
    /\ dbErrors \in 0..MaxDbErrors
    /\ deaths \in 0..MaxDeaths
    /\ contested \subseteq Payments

Init ==
    /\ confirmed = {}
    /\ link = [p \in Payments |-> NoBatch]
    /\ pc = [b \in Batches |-> "new"]
    /\ batch = [b \in Batches |-> {}]
    /\ todo = [b \in Batches |-> {}]
    /\ status = [b \in Batches |-> "none"]
    /\ paid = {}
    /\ told = {}
    /\ dbErrors = 0
    /\ deaths = 0
    /\ contested = {}

GoTo(b, l) == pc' = [pc EXCEPT ![b] = l]
SetStatus(b, s) == status' = [status EXCEPT ![b] = s]

-----------------------------------------------------------------------------
\* The monitor confirms a payment.
Confirm(p) ==
    /\ p \notin confirmed
    /\ confirmed' = confirmed \cup {p}
    /\ UNCHANGED <<link, status, pc, batch, todo, outside, faults, contested>>

\* The client asks for a batch, whatever batches are under way.
Ask(b) ==
    /\ pc[b] = "new"
    /\ GoTo(b, "query")
    /\ UNCHANGED <<tables, batch, todo, outside, faults, contested>>

\* Mutant of Unsettled: the query forgets that settlementId must be null.
UnsettledOrNot(b) == {p \in Asked[b] : p \in confirmed}

\* What the query of createBatch finds.
Unsettled(b) == {p \in Asked[b] : p \in confirmed /\ link[p] = NoBatch}

\* What another batch that goes on to its payout has still to link.
Claimed(b) == UNION {todo[c] : c \in {d \in Batches \ {b} : pc[d] \in Working}}

QueryUnsettled(b) ==
    /\ pc[b] = "query"
    /\ Unsettled(b) # {}
    /\ batch' = [batch EXCEPT ![b] = Unsettled(b)]
    /\ todo' = [todo EXCEPT ![b] = Unsettled(b)]
    /\ contested' = contested \cup (Unsettled(b) \cap Claimed(b))
    /\ GoTo(b, "insert")
    /\ UNCHANGED <<tables, outside, faults>>

\* "No confirmed, unsettled payments found for settlement".
Refuse(b) ==
    /\ pc[b] = "query"
    /\ Unsettled(b) = {}
    /\ GoTo(b, "refused")
    /\ UNCHANGED <<tables, batch, todo, outside, faults, contested>>

\* Mutant of Insert: the payout is executed before the payments are linked.
InsertThenPay(b) ==
    /\ pc[b] = "insert"
    /\ SetStatus(b, "processing")
    /\ GoTo(b, "payout")
    /\ UNCHANGED <<confirmed, link, batch, todo, outside, faults, contested>>

\* The merchants are looked up and the settlement is stored.
Insert(b) ==
    /\ pc[b] = "insert"
    /\ SetStatus(b, "processing")
    /\ GoTo(b, "link")
    /\ UNCHANGED <<confirmed, link, batch, todo, outside, faults, contested>>

\* Mutant of LinkPayment: the payout is not triggered.
LinkUnpaid(b) ==
    /\ pc[b] = "link"
    /\ \E p \in todo[b] :
        /\ link' = [link EXCEPT ![p] = b]
        /\ todo' = [todo EXCEPT ![b] = @ \ {p}]
        /\ GoTo(b, IF todo[b] = {p} THEN "announce" ELSE "link")
    /\ UNCHANGED <<confirmed, status, batch, outside, faults, contested>>

\* One turn of the loop that links the payments.
LinkPayment(b) ==
    /\ pc[b] = "link"
    /\ \E p \in todo[b] :
        /\ link' = [link EXCEPT ![p] = b]
        /\ todo' = [todo EXCEPT ![b] = @ \ {p}]
        /\ GoTo(b, IF todo[b] = {p} THEN "payout" ELSE "link")
    /\ UNCHANGED <<confirmed, status, batch, outside, faults, contested>>

ExecutePayout(b) ==
    /\ pc[b] = "payout"
    /\ paid' = paid \cup {b}
    /\ GoTo(b, "record")
    /\ UNCHANGED <<tables, batch, todo, told, faults, contested>>

\* The result is saved with the settlement as createBatch holds it.
RecordPayout(b) ==
    /\ pc[b] = "record"
    /\ SetStatus(b, IF b \in Instant THEN "completed" ELSE "processing")
    /\ GoTo(b, "announce")
    /\ UNCHANGED <<confirmed, link, batch, todo, outside, faults, contested>>

\* The catch block of the payout.
RecordFailure(b) ==
    /\ pc[b] = "fail"
    /\ SetStatus(b, "failed")
    /\ GoTo(b, "announce")
    /\ UNCHANGED <<confirmed, link, batch, todo, outside, faults, contested>>

Announce(b) ==
    /\ pc[b] = "announce"
    /\ told' = told \cup {b}
    /\ GoTo(b, "done")
    /\ UNCHANGED <<tables, batch, todo, paid, faults, contested>>

\* findById does not look at the status.
Stored(b) == status[b] # "none"

\* markCompleted: whatever the status of the settlement it finds.
MarkCompleted(b) ==
    /\ Stored(b)
    /\ SetStatus(b, "completed")
    /\ UNCHANGED <<confirmed, link, pc, batch, todo, outside, faults,
                   contested>>

\* A failed call ends createBatch with an error; the save that records the
\* payout is inside the try block, and its failure passes for the payout's.
DbError(b) ==
    /\ dbErrors < MaxDbErrors
    /\ dbErrors' = dbErrors + 1
    /\ \/ pc[b] \in {"query", "insert", "link", "fail"} /\ GoTo(b, "error")
       \/ pc[b] = "record" /\ GoTo(b, "fail")
    /\ UNCHANGED <<tables, batch, todo, outside, deaths, contested>>

\* The process dies in the middle of the call.
Die(b) ==
    /\ deaths < MaxDeaths
    /\ pc[b] \in Working
    /\ deaths' = deaths + 1
    /\ GoTo(b, "lost")
    /\ UNCHANGED <<tables, batch, todo, outside, dbErrors, contested>>

CreateBatch(b) ==
    \/ QueryUnsettled(b) \/ Refuse(b) \/ Insert(b) \/ LinkPayment(b)
    \/ ExecutePayout(b) \/ RecordPayout(b) \/ RecordFailure(b) \/ Announce(b)

Next ==
    \/ \E p \in Payments : Confirm(p)
    \/ \E b \in Batches :
          Ask(b) \/ CreateBatch(b) \/ MarkCompleted(b) \/ DbError(b) \/ Die(b)

Spec == Init /\ [][Next]_vars

-----------------------------------------------------------------------------
\* No payment is paid out in two settlements, whatever call fails or dies in
\* the middle of its batch, unless a batch queried it while another at work had
\* still to link it: no other order of the steps pays twice.
PaidOnce ==
    \A b, c \in paid : b # c => batch[b] \cap batch[c] \subseteq contested

\* The payments a paid settlement lists are linked to it, and to it alone: the
\* books can be read from either side, but for payments two batches at work
\* had to link, which may end in the other settlement.
PaidIsLinked ==
    \A b \in paid : \A p \in Payments \ contested :
        link[p] = b <=> p \in batch[b]

\* As the refusal says, there is nothing to settle: every confirmed payment
\* the batch asks for was paid out or is on its way in another batch, as long
\* as no call failed or died.
RefusalsTrue ==
    [][\A b \in Batches :
          pc[b] = "query" /\ pc'[b] = "refused" /\ dbErrors = 0 /\ deaths = 0
              => \A p \in Asked[b] \cap confirmed :
                    link[p] \in paid \cup {c \in Batches : pc[c] \in Working}]_vars
=============================================================================
