--------------------------- MODULE PaymentMonitor ---------------------------
(***************************************************************************)
(* The blockchain monitor (BlockchainService) together with the status     *)
(* updates it makes through PaymentsService.updatePaymentStatus and        *)
(* PaymentsService.expireOldPayments.                                      *)
(*                                                                         *)
(* Every instance of the application runs a cron job each ten seconds.  A  *)
(* firing of the job is a tick; ticks of one instance exclude each other   *)
(* with the in-memory flag isChecking, ticks of two instances share only   *)
(* the database.  A tick queries the active payments, walks over its       *)
(* in-memory copies of them, and then expires the overdue ones.  Each      *)
(* await of the code ends an action here, so every other action may come   *)
(* in between.                                                             *)
(*                                                                         *)
(* Repository.save(entity) writes every column of the entity that differs  *)
(* from the row: it is modelled as replacing the row by the entity.        *)
(* Timestamps (lastCheckedAt, confirmedAt, updatedAt), the received amount *)
(* and the random order of the batch (ORDER BY lastCheckedAt) are left     *)
(* out; any payment of the batch may be the next one.                      *)
(***************************************************************************)
EXTENDS Naturals, FiniteSets

CONSTANTS
    Payments,       \* payment ids
    NoPayment,      \* not a payment id
    Instances,      \* running copies of the application
    Ticks,          \* slots for firings of the cron job
    Host,           \* Host[t]: the instance on which tick t fires
    Txs,            \* transactions that may appear on the chain
    NoTx,           \* a null transaction hash
    Matches,        \* Matches[p]: transactions to p's address, of p's amount within 1%
    Required,       \* Required[p]: requiredConfirmations of p
    BatchSize,      \* the "take" of the query, 50 in the code
    MaxConf,        \* bound: confirmations are counted up to MaxConf
    MaxCrashes,     \* bound: crashes and restarts of instances
    MaxDbErrors     \* bound: database calls that fail

ASSUME ConstantsOK ==
    /\ NoPayment \notin Payments
    /\ NoTx \notin Txs
    /\ Host \in [Ticks -> Instances]
    /\ Matches \in [Payments -> SUBSET Txs]
    /\ Required \in [Payments -> Nat]
    /\ BatchSize \in Nat \ {0}
    /\ MaxConf \in Nat
    /\ MaxCrashes \in Nat
    /\ MaxDbErrors \in Nat

VARIABLES
    row,                \* row[p]: p's row in the payments table
    overdue,            \* payments whose expiresAt is in the past
    seen,               \* transactions the chain providers return
    depth,              \* depth[x]: confirmations of transaction x
    isChecking,         \* isChecking[i]: the flag of instance i
    pc,                 \* pc[t]: where tick t is
    phase,              \* phase[t]: the loop t is in, "check" or "expire"
    todo,               \* todo[t]: payments t's loop has not finished
    snap,               \* snap[t][p]: t's copy of p from its query
    cur,                \* cur[t]: the payment t's loop is at
    upd,                \* upd[t]: arguments of the pending updatePaymentStatus
    ent,                \* ent[t]: the entity updatePaymentStatus will save
    confirmedEvents,    \* confirmedEvents[p]: payment.confirmed events sent
    crashes,            \* crashes so far
    dbErrors            \* failed database calls so far

tickVars == <<pc, phase, todo, snap, cur, upd, ent>>
chainVars == <<seen, depth>>
worldVars == <<overdue, chainVars, crashes, dbErrors>>
vars == <<row, overdue, chainVars, isChecking, tickVars,
          confirmedEvents, crashes, dbErrors>>

-----------------------------------------------------------------------------
(* Rows, and the update of a row.                                          *)

Status == {"none", "pending", "detected", "confirming",
           "confirmed", "expired", "failed", "refunded"}
Final == {"confirmed", "expired", "failed", "refunded"}

\* A row, an entity in memory and the arguments of an update look alike.
Row == [status: Status, tx: Txs \cup {NoTx}, conf: Nat]
NoRow == [status |-> "none", tx |-> NoTx, conf |-> 0]
NewRow == [status |-> "pending", tx |-> NoTx, conf |-> 0]

\* Object.assign(payment, additionalData): NoTx and 0 stand for fields that
\* additionalData does not have.
Apply(r, u) ==
    [status |-> u.status,
     tx     |-> IF u.tx = NoTx THEN r.tx ELSE u.tx,
     conf   |-> IF u.conf = 0 THEN r.conf ELSE u.conf]

ExpiredUpdate == [status |-> "expired", tx |-> NoTx, conf |-> 0]

\* Mutant of IsActive: a list of statuses that still names the confirmed ones.
IsActiveOrConfirmed(p) ==
    /\ row[p].status \in {"pending", "detected", "confirming", "confirmed"}
    /\ p \notin overdue

\* The where clause of checkPendingPayments.
IsActive(p) ==
    /\ row[p].status \in {"pending", "detected", "confirming"}
    /\ p \notin overdue

\* The where clause of expireOldPayments.
IsOverdue(p) ==
    /\ row[p].status \in {"pending", "detected"}
    /\ p \in overdue

\* Mutant of InMempool: the branch does not look at the status.
InMempoolAnyStatus(s, c) == c = 0

\* Mutants of DeepEnough: one confirmation too few, or one too many.
DeepTooSoon(c, r) == c + 1 >= r
DeepTooLate(c, r) == c > r

\* checkPayment's tests of the copy s and of a transaction's confirmations c
\* against the required number r.
InMempool(s, c) == c = 0 /\ s.status = "pending"
DeepEnough(c, r) == c >= r

\* What checkPayment decides on finding a matching transaction.
Verdict(s, c, r) ==
    CASE InMempool(s, c) -> "detected"
      [] c > 0 /\ DeepEnough(c, r) -> "confirmed"
      [] c > 0 /\ ~DeepEnough(c, r) /\ (s.status # "confirming" \/ s.conf # c)
            -> "confirming"
      [] OTHER -> "none"
-----------------------------------------------------------------------------
PcValues == {"idle", "query", "mark", "fetch", "read", "write", "notify",
             "sweep", "expire", "finish"}

TypeOK ==
    /\ row \in [Payments -> Row]
    /\ overdue \subseteq Payments
    /\ seen \subseteq Txs
    /\ depth \in [Txs -> 0..MaxConf]
    /\ isChecking \in [Instances -> BOOLEAN]
    /\ pc \in [Ticks -> PcValues]
    /\ phase \in [Ticks -> {"check", "expire"}]
    /\ todo \in [Ticks -> SUBSET Payments]
    /\ snap \in [Ticks -> [Payments -> Row]]
    /\ cur \in [Ticks -> Payments \cup {NoPayment}]
    /\ upd \in [Ticks -> Row]
    /\ ent \in [Ticks -> Row]
    /\ confirmedEvents \in [Payments -> Nat]
    /\ crashes \in 0..MaxCrashes
    /\ dbErrors \in 0..MaxDbErrors

Init ==
    /\ row = [p \in Payments |-> NoRow]
    /\ overdue = {}
    /\ seen = {}
    /\ depth = [x \in Txs |-> 0]
    /\ isChecking = [i \in Instances |-> FALSE]
    /\ pc = [t \in Ticks |-> "idle"]
    /\ phase = [t \in Ticks |-> "check"]
    /\ todo = [t \in Ticks |-> {}]
    /\ snap = [t \in Ticks |-> [p \in Payments |-> NoRow]]
    /\ cur = [t \in Ticks |-> NoPayment]
    /\ upd = [t \in Ticks |-> NoRow]
    /\ ent = [t \in Ticks |-> NoRow]
    /\ confirmedEvents = [p \in Payments |-> 0]
    /\ crashes = 0
    /\ dbErrors = 0

-----------------------------------------------------------------------------
(* The environment: merchants, the clock and the chain.                    *)

\* createPayment has stored a new payment.
Create(p) ==
    /\ row[p].status = "none"
    /\ row' = [row EXCEPT ![p] = NewRow]
    /\ UNCHANGED <<overdue, chainVars, isChecking, tickVars,
                   confirmedEvents, crashes, dbErrors>>

\* The clock passes the expiresAt of a stored payment.
PassExpiry(p) ==
    /\ row[p].status # "none"
    /\ p \notin overdue
    /\ overdue' = overdue \cup {p}
    /\ UNCHANGED <<row, chainVars, isChecking, tickVars,
                   confirmedEvents, crashes, dbErrors>>

\* A customer's transaction reaches the mempool.
Broadcast(x) ==
    /\ x \notin seen
    /\ seen' = seen \cup {x}
    /\ UNCHANGED <<row, overdue, depth, isChecking, tickVars,
                   confirmedEvents, crashes, dbErrors>>

\* A block on top of the transaction, or the one that includes it.
Bury(x) ==
    /\ x \in seen
    /\ depth[x] < MaxConf
    /\ depth' = [depth EXCEPT ![x] = @ + 1]
    /\ UNCHANGED <<row, overdue, seen, isChecking, tickVars,
                   confirmedEvents, crashes, dbErrors>>

\* A reorganisation of the chain puts the transaction back in the mempool.
Reorg(x) ==
    /\ depth[x] > 0
    /\ depth' = [depth EXCEPT ![x] = 0]
    /\ UNCHANGED <<row, overdue, seen, isChecking, tickVars,
                   confirmedEvents, crashes, dbErrors>>

-----------------------------------------------------------------------------
(* A tick.                                                                 *)

\* Where the loop ph goes with the payments rest left.
LoopHead(ph, rest) ==
    CASE ph = "check"  /\ rest # {} -> "mark"
      [] ph = "check"  /\ rest = {} -> "sweep"
      [] ph = "expire" /\ rest # {} -> "expire"
      [] ph = "expire" /\ rest = {} -> "finish"

\* The loop leaves payment p behind and turns to the next one.
DoneWith(t, p) ==
    /\ todo' = [todo EXCEPT ![t] = @ \ {p}]
    /\ snap' = [snap EXCEPT ![t] = [@ EXCEPT ![p] = NoRow]]
    /\ cur' = [cur EXCEPT ![t] = NoPayment]
    /\ upd' = [upd EXCEPT ![t] = NoRow]
    /\ ent' = [ent EXCEPT ![t] = NoRow]
    /\ pc' = [pc EXCEPT ![t] = LoopHead(phase[t], todo[t] \ {p})]
    /\ UNCHANGED phase

\* Tick t loses its local data and goes on at label l.
Reset(t, l) ==
    /\ pc' = [pc EXCEPT ![t] = l]
    /\ phase' = [phase EXCEPT ![t] = "check"]
    /\ todo' = [todo EXCEPT ![t] = {}]
    /\ snap' = [snap EXCEPT ![t] = [p \in Payments |-> NoRow]]
    /\ cur' = [cur EXCEPT ![t] = NoPayment]
    /\ upd' = [upd EXCEPT ![t] = NoRow]
    /\ ent' = [ent EXCEPT ![t] = NoRow]

\* Mutant of CanStart: no test of the flag.
CanStartUnguarded(t) == Host[t] \in Instances

CanStart(t) == ~isChecking[Host[t]]

\* The cron job fires and finds no tick of its instance under way.
StartTick(t) ==
    /\ pc[t] = "idle"
    /\ CanStart(t)
    /\ isChecking' = [isChecking EXCEPT ![Host[t]] = TRUE]
    /\ pc' = [pc EXCEPT ![t] = "query"]
    /\ UNCHANGED <<row, phase, todo, snap, cur, upd, ent, confirmedEvents,
                   worldVars>>

\* A batch of the query: every active payment if they fit, else as many as fit.
IsBatch(b) ==
    LET active == {p \in Payments : IsActive(p)}
    IN  /\ b \subseteq active
        /\ \/ b = active /\ Cardinality(active) <= BatchSize
           \/ Cardinality(b) = BatchSize

\* The query for active payments; with none, the sweep comes at once.
QueryActive(t) ==
    /\ pc[t] = "query"
    /\ \E b \in SUBSET Payments :
        /\ IsBatch(b)
        /\ todo' = [todo EXCEPT ![t] = b]
        /\ snap' = [snap EXCEPT ![t] =
                        [p \in Payments |-> IF p \in b THEN row[p] ELSE NoRow]]
        /\ pc' = [pc EXCEPT ![t] = LoopHead("check", b)]
    /\ UNCHANGED <<row, isChecking, phase, cur, upd, ent, confirmedEvents,
                   worldVars>>

\* checkPayment stamps its copy with lastCheckedAt and saves all of it.
MarkChecked(t) ==
    /\ pc[t] = "mark"
    /\ \E p \in todo[t] :
        /\ row' = [row EXCEPT ![p] = snap[t][p]]
        /\ cur' = [cur EXCEPT ![t] = p]
    /\ pc' = [pc EXCEPT ![t] = "fetch"]
    /\ UNCHANGED <<isChecking, phase, todo, snap, upd, ent,
                   confirmedEvents, worldVars>>

\* The provider answers with no matching transaction, or with an error
\* (which it turns into an empty list), or checkPayment has nothing to do.
FetchWithoutEffect(t) ==
    /\ pc[t] = "fetch"
    /\ DoneWith(t, cur[t])
    /\ UNCHANGED <<row, isChecking, confirmedEvents, worldVars>>

\* The first matching transaction of the provider's answer is x, and
\* checkPayment calls updatePaymentStatus.
FetchMatch(t) ==
    /\ pc[t] = "fetch"
    /\ \E x \in seen \cap Matches[cur[t]] :
        LET v == Verdict(snap[t][cur[t]], depth[x], Required[cur[t]])
        IN  /\ v # "none"
            /\ upd' = [upd EXCEPT ![t] =
                           [status |-> v, tx |-> x, conf |-> depth[x]]]
    /\ pc' = [pc EXCEPT ![t] = "read"]
    /\ UNCHANGED <<row, isChecking, phase, todo, snap, cur, ent,
                   confirmedEvents, worldVars>>

\* updatePaymentStatus reads the payment again and changes the entity.
ReadForUpdate(t) ==
    /\ pc[t] = "read"
    /\ ent' = [ent EXCEPT ![t] = Apply(row[cur[t]], upd[t])]
    /\ upd' = [upd EXCEPT ![t] = NoRow]
    /\ pc' = [pc EXCEPT ![t] = "write"]
    /\ UNCHANGED <<row, isChecking, phase, todo, snap, cur,
                   confirmedEvents, worldVars>>

\* updatePaymentStatus saves the entity.
SaveUpdate(t) ==
    /\ pc[t] = "write"
    /\ row' = [row EXCEPT ![cur[t]] = ent[t]]
    /\ pc' = [pc EXCEPT ![t] = "notify"]
    /\ UNCHANGED <<isChecking, phase, todo, snap, cur, upd, ent,
                   confirmedEvents, worldVars>>

\* Mutant of TellsConfirmed: the event is named after the copy of the query.
TellsConfirmedByCopy(t) == snap[t][cur[t]].status = "confirmed"

\* The event payment.<status> that updatePaymentStatus dispatches is
\* payment.confirmed.
TellsConfirmed(t) == ent[t].status = "confirmed"

\* It then notifies the WebSocket room and dispatches payment.<status>.
Notify(t) ==
    /\ pc[t] = "notify"
    /\ confirmedEvents' =
          IF TellsConfirmed(t)
          THEN [confirmedEvents EXCEPT ![cur[t]] = @ + 1]
          ELSE confirmedEvents
    /\ DoneWith(t, cur[t])
    /\ UNCHANGED <<row, isChecking, worldVars>>

\* expireOldPayments looks for overdue payments.
QueryOverdue(t) ==
    /\ pc[t] = "sweep"
    /\ LET b == {p \in Payments : IsOverdue(p)}
       IN  /\ todo' = [todo EXCEPT ![t] = b]
           /\ pc' = [pc EXCEPT ![t] = LoopHead("expire", b)]
    /\ phase' = [phase EXCEPT ![t] = "expire"]
    /\ UNCHANGED <<row, isChecking, snap, cur, upd, ent, confirmedEvents,
                   worldVars>>

\* The next of them is read by updatePaymentStatus(id, EXPIRED), which does
\* not look at the status it finds.
ReadForExpiry(t) ==
    /\ pc[t] = "expire"
    /\ \E p \in todo[t] :
        /\ cur' = [cur EXCEPT ![t] = p]
        /\ ent' = [ent EXCEPT ![t] = Apply(row[p], ExpiredUpdate)]
    /\ pc' = [pc EXCEPT ![t] = "write"]
    /\ UNCHANGED <<row, isChecking, phase, todo, snap, upd,
                   confirmedEvents, worldVars>>

\* Mutant of FinishTick: no finally, the flag stays set.
FinishTickKeepsFlag(t) ==
    /\ pc[t] = "finish"
    /\ Reset(t, "idle")
    /\ UNCHANGED <<row, isChecking, confirmedEvents, worldVars>>

\* The finally block.
FinishTick(t) ==
    /\ pc[t] = "finish"
    /\ isChecking' = [isChecking EXCEPT ![Host[t]] = FALSE]
    /\ Reset(t, "idle")
    /\ UNCHANGED <<row, confirmedEvents, worldVars>>

TickStep(t) ==
    \/ StartTick(t) \/ QueryActive(t) \/ MarkChecked(t)
    \/ FetchWithoutEffect(t) \/ FetchMatch(t)
    \/ ReadForUpdate(t) \/ SaveUpdate(t) \/ Notify(t)
    \/ QueryOverdue(t) \/ ReadForExpiry(t) \/ FinishTick(t)

-----------------------------------------------------------------------------
(* Faults.                                                                 *)

\* A failed call for one payment of the monitoring loop is caught there.
DbErrorOnPayment(t) ==
    /\ dbErrors < MaxDbErrors
    /\ dbErrors' = dbErrors + 1
    /\ \/ pc[t] = "mark" /\ \E p \in todo[t] : DoneWith(t, p)
       \/ pc[t] = "read" /\ DoneWith(t, cur[t])
       \/ pc[t] = "write" /\ phase[t] = "check" /\ DoneWith(t, cur[t])
    /\ UNCHANGED <<row, overdue, chainVars, isChecking, confirmedEvents, crashes>>

\* Any other failed call ends the tick.
DbErrorOnTick(t) ==
    /\ dbErrors < MaxDbErrors
    /\ dbErrors' = dbErrors + 1
    /\ \/ pc[t] \in {"query", "sweep", "expire"}
       \/ pc[t] = "write" /\ phase[t] = "expire"
    /\ Reset(t, "finish")
    /\ UNCHANGED <<row, overdue, chainVars, isChecking, confirmedEvents, crashes>>

\* Instance i dies and is started again: its memory is that of a new process.
Crash(i) ==
    /\ crashes < MaxCrashes
    /\ crashes' = crashes + 1
    /\ isChecking' = [isChecking EXCEPT ![i] = FALSE]
    /\ LET blank(f, v) == [t \in Ticks |-> IF Host[t] = i THEN v ELSE f[t]]
       IN  /\ pc' = blank(pc, "idle")
           /\ phase' = blank(phase, "check")
           /\ todo' = blank(todo, {})
           /\ snap' = blank(snap, [p \in Payments |-> NoRow])
           /\ cur' = blank(cur, NoPayment)
           /\ upd' = blank(upd, NoRow)
           /\ ent' = blank(ent, NoRow)
    /\ UNCHANGED <<row, overdue, chainVars, confirmedEvents, dbErrors>>

Next ==
    \/ \E p \in Payments : Create(p) \/ PassExpiry(p)
    \/ \E x \in Txs : Broadcast(x) \/ Bury(x) \/ Reorg(x)
    \/ \E t \in Ticks : TickStep(t) \/ DbErrorOnPayment(t) \/ DbErrorOnTick(t)
    \/ \E i \in Instances : Crash(i)

Spec == Init /\ [][Next]_vars

InstanceStep(i) == \E t \in Ticks : Host[t] = i /\ TickStep(t)

\* The cron job of every instance keeps firing and its calls return; and the
\* providers do not fail for ever to report a payment's transaction.
Fairness ==
    /\ \A i \in Instances : WF_vars(InstanceStep(i))
    /\ \A t \in Ticks, p \in Payments : SF_vars(FetchMatch(t) /\ cur[t] = p)

FairSpec == Spec /\ Fairness

-----------------------------------------------------------------------------
(* Properties.                                                             *)

\* The flag isChecking of an instance is set exactly while a tick of it is
\* under way, and two ticks of one instance are never under way together.
TickExclusion ==
    /\ \A t \in Ticks : pc[t] # "idle" => isChecking[Host[t]]
    /\ \A i \in Instances :
          isChecking[i] => \E t \in Ticks : Host[t] = i /\ pc[t] # "idle"
    /\ \A t, u \in Ticks :
          Host[t] = Host[u] /\ pc[t] # "idle" /\ pc[u] # "idle" => t = u

\* The status of a row agrees with the transaction and the confirmations it
\* records: confirmed rests on a matching transaction that was deep enough,
\* and a payment a confirmation was seen for is never expired.
Evidence(p, r) ==
    /\ r.status \in {"none", "pending"} => r.tx = NoTx
    /\ r.status \in {"detected", "confirming", "confirmed"} => r.tx \in Matches[p]
    /\ r.status \in {"none", "pending", "detected", "expired"} => r.conf = 0
    /\ r.status = "confirming" => r.conf \in 1..(Required[p] - 1)
    /\ r.status = "confirmed" => r.conf > 0 /\ r.conf >= Required[p]
    /\ r.status \notin {"failed", "refunded"}

\* Every row's status agrees with what the row records (updatePaymentStatus
\* writes status, hash and confirmations into whatever row it reads).
StatusEvidence == \A p \in Payments : Evidence(p, row[p])

\* The merchant is told at most once that a payment is confirmed, and only
\* while the stored payment is.
ConfirmedOnce ==
    \A p \in Payments :
        /\ confirmedEvents[p] <= 1
        /\ confirmedEvents[p] = 1 => row[p].status = "confirmed"

Open == {"pending", "detected", "confirming"}

\* p is still ahead of t's loop, or t is at it and has not saved it yet.
Ahead(t, p) == p \in todo[t] /\ ~(pc[t] = "notify" /\ p = cur[t])

PhaseOK(t) ==
    /\ pc[t] \in {"idle", "query", "mark", "fetch", "read", "sweep"}
          => phase[t] = "check"
    /\ pc[t] = "expire" => phase[t] = "expire"

CursorOK(t) ==
    pc[t] \in {"fetch", "read", "write", "notify"} => cur[t] \in todo[t]

\* In the monitoring loop the tick's copies equal the rows, which are open.
CopiesFresh(t) ==
    pc[t] \in {"mark", "fetch", "read", "write", "notify"} /\ phase[t] = "check"
        => \A p \in Payments :
              Ahead(t, p) => snap[t][p] = row[p] /\ row[p].status \in Open

\* In the expiry loop the payments the query found have not moved on.
SweepFresh(t) ==
    pc[t] \in {"expire", "write", "notify"} /\ phase[t] = "expire"
        => \A p \in Payments :
              Ahead(t, p) => row[p].status \in {"pending", "detected"}

\* A pending update, and an entity about to be saved, fit the row.
UpdateFits(p, u) ==
    /\ u.tx \in Matches[p]
    /\ \/ u.status = "detected" /\ u.conf = 0 /\ row[p].status = "pending"
       \/ u.status = "confirming" /\ u.conf \in 1..(Required[p] - 1)
       \/ u.status = "confirmed" /\ u.conf > 0 /\ u.conf >= Required[p]

EntityFits(t) ==
    /\ Evidence(cur[t], ent[t])
    /\ IF phase[t] = "check"
       THEN /\ ent[t].status \in {"detected", "confirming", "confirmed"}
            /\ ent[t].status = "detected" => row[cur[t]].status = "pending"
       ELSE ent[t].status = "expired"

WorkFits(t) ==
    /\ pc[t] = "read" => UpdateFits(cur[t], upd[t])
    /\ pc[t] = "write" => EntityFits(t)
    /\ pc[t] = "notify" => /\ row[cur[t]] = ent[t]
                           /\ ent[t].status # "none"
                           /\ confirmedEvents[cur[t]] = 0

EventsFit ==
    \A p \in Payments :
        /\ confirmedEvents[p] <= 1
        /\ row[p].status # "confirmed" => confirmedEvents[p] = 0

\* On a single instance no copy the monitor holds is ever stale: whatever it
\* writes fits the row it replaces.
NoStaleCopy ==
    /\ \A t \in Ticks : PhaseOK(t) /\ CursorOK(t) /\ CopiesFresh(t)
                        /\ SweepFresh(t) /\ WorkFits(t)
    /\ EventsFit

SingleInstance == \A i, j \in Instances : i = j

\* A payment that reached a final status keeps it, whatever copies of it the
\* monitor still holds.
TerminalStable ==
    [][\A p \in Payments :
          row[p].status \in Final => row'[p].status = row[p].status]_vars

\* The monitor moves every payment along the life cycle PaymentLifecycle allows.
Lifecycle == INSTANCE PaymentLifecycle
                 WITH status <- [p \in Payments |-> row[p].status]
ImplementsLifecycle == Lifecycle!Spec

\* A payment nobody paid, or whose payment no block included, does not stay
\* open when its window has passed: crashes, failed calls and providers that
\* answer nothing only delay its end.
WindowCloses ==
    \A p \in Payments :
        (row[p].status \in {"pending", "detected"} /\ p \in overdue)
            ~> row[p].status \notin {"pending", "detected"}

\* A confirmation that was stored is announced, unless an instance crashes.
ConfirmedAnnounced ==
    \A p \in Payments :
        row[p].status = "confirmed" ~> confirmedEvents[p] = 1 \/ crashes > 0

TxDeep(p) == row[p].tx \in Txs /\ depth[row[p].tx] >= Required[p]

\* A payment in confirming whose transaction is deep enough for good becomes
\* confirmed, if its window does not close first.
ConfirmedInWindow ==
    \A p \in Payments :
        (row[p].status = "confirming" /\ [](TxDeep(p) /\ p \notin overdue))
            ~> row[p].status = "confirmed"

\* The same whether or not the window closes, as "restart-safe transaction
\* detection & confirmation tracking" (README.md) has it.
ConfirmationTracked ==
    \A p \in Payments :
        (row[p].status = "confirming" /\ []TxDeep(p))
            ~> row[p].status = "confirmed"
=============================================================================
