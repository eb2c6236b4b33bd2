------------------------- MODULE PaymentSystemProofs -------------------------
(***************************************************************************)
(* Proofs about PaymentMonitor and about PaymentSystem, which adds the     *)
(* other writers of the payments table, for every set of payments,         *)
(* transactions, ticks, batches and simulations, and every bound.          *)
(*                                                                         *)
(* Of the monitor alone (Spec), TypeOK and TickExclusion hold for any      *)
(* number of instances; that no copy is stale, and what follows from it,   *)
(* for one.  Of the system (SystemSpec) the same argument is made again    *)
(* for the payments where no simulation met another writer: a row that one *)
(* writer holds a copy of is in no state in which another may change it.   *)
(***************************************************************************)
EXTENDS PaymentSystem, TLAPS

\* Object.assign over a payment gives a payment.
LEMMA ApplyType ==
    ASSUME NEW r \in Row, NEW u \in Row
    PROVE  Apply(r, u) \in Row
BY DEF Apply, Row

\* The rows and updates that the actions write literally.
LEMMA LiteralRows == NoRow \in Row /\ NewRow \in Row /\ ExpiredUpdate \in Row
BY DEF NoRow, NewRow, ExpiredUpdate, Row, Status

\* A verdict is a status or "none".
LEMMA VerdictType ==
    ASSUME NEW s \in Row, NEW c \in Nat, NEW r \in Nat
    PROVE  Verdict(s, c, r) \in {"detected", "confirming", "confirmed", "none"}
BY DEF Verdict, Row

\* A loop goes on at a label.
LEMMA LoopHeadType ==
    ASSUME NEW ph \in {"check", "expire"}, NEW rest
    PROVE  LoopHead(ph, rest) \in PcValues
BY DEF LoopHead, PcValues

\* Leaving a payment behind keeps the types of a tick's variables.
LEMMA DoneWithType ==
    ASSUME TypeOK, NEW t \in Ticks, NEW p, DoneWith(t, p)
    PROVE  /\ pc' \in [Ticks -> PcValues]
           /\ phase' \in [Ticks -> {"check", "expire"}]
           /\ todo' \in [Ticks -> SUBSET Payments]
           /\ snap' \in [Ticks -> [Payments -> Row]]
           /\ cur' \in [Ticks -> Payments \cup {NoPayment}]
           /\ upd' \in [Ticks -> Row]
           /\ ent' \in [Ticks -> Row]
<1> USE LiteralRows DEF TypeOK, DoneWith
<1>1. pc' \in [Ticks -> PcValues]
  <2>1. LoopHead(phase[t], todo[t] \ {p}) \in PcValues
    BY LoopHeadType
  <2> QED BY <2>1
<1>2. snap' \in [Ticks -> [Payments -> Row]]
  <2>1. [snap[t] EXCEPT ![p] = NoRow] \in [Payments -> Row]
    OBVIOUS
  <2> QED BY <2>1
<1> QED BY <1>1, <1>2

\* So does dropping all of its local data.
LEMMA ResetType ==
    ASSUME TypeOK, NEW t \in Ticks, NEW l \in PcValues, Reset(t, l)
    PROVE  /\ pc' \in [Ticks -> PcValues]
           /\ phase' \in [Ticks -> {"check", "expire"}]
           /\ todo' \in [Ticks -> SUBSET Payments]
           /\ snap' \in [Ticks -> [Payments -> Row]]
           /\ cur' \in [Ticks -> Payments \cup {NoPayment}]
           /\ upd' \in [Ticks -> Row]
           /\ ent' \in [Ticks -> Row]
BY LiteralRows DEF TypeOK, Reset

\* A crash blanks some ticks, which keeps the types too.
LEMMA CrashType ==
    ASSUME TypeOK, NEW i \in Instances, Crash(i)
    PROVE  TypeOK'
BY ConstantsOK, LiteralRows DEF TypeOK, Crash, chainVars, PcValues

\* TypeOK alone is not inductive: that updatePaymentStatus reads a row needs
\* that the loop is at a payment.
LocalOK == \A t \in Ticks : PhaseOK(t) /\ CursorOK(t)

LEMMA TypeStep == TypeOK /\ LocalOK /\ [Next]_vars => TypeOK'
<1> SUFFICES ASSUME TypeOK, LocalOK, [Next]_vars PROVE TypeOK'
  OBVIOUS
<1> USE ConstantsOK, LiteralRows DEF TypeOK, worldVars, chainVars, tickVars
<1>1. ASSUME NEW p \in Payments, Create(p) \/ PassExpiry(p) PROVE TypeOK'
  BY <1>1 DEF Create, PassExpiry
<1>2. ASSUME NEW x \in Txs, Broadcast(x) \/ Bury(x) \/ Reorg(x) PROVE TypeOK'
  <2>1. CASE Broadcast(x)
    BY <2>1 DEF Broadcast
  <2>2. CASE Bury(x)
    <3>1. depth[x] + 1 \in 0..MaxConf
      BY <2>2 DEF Bury
    <3> QED BY <2>2, <3>1 DEF Bury
  <2>3. CASE Reorg(x)
    BY <2>3 DEF Reorg
  <2> QED BY <1>2, <2>1, <2>2, <2>3
<1>3. ASSUME NEW t \in Ticks, TickStep(t) PROVE TypeOK'
  <2>1. CASE StartTick(t)
    BY <2>1 DEF StartTick, PcValues
  <2>2. CASE QueryActive(t)
    <3>1. PICK b \in SUBSET Payments :
            /\ todo' = [todo EXCEPT ![t] = b]
            /\ snap' = [snap EXCEPT ![t] =
                          [p \in Payments |-> IF p \in b THEN row[p] ELSE NoRow]]
            /\ pc' = [pc EXCEPT ![t] = LoopHead("check", b)]
      BY <2>2 DEF QueryActive
    <3>2. LoopHead("check", b) \in PcValues
      BY LoopHeadType
    <3> QED BY <2>2, <3>1, <3>2 DEF QueryActive
  <2>3. CASE MarkChecked(t)
    BY <2>3 DEF MarkChecked, PcValues
  <2>4. CASE FetchWithoutEffect(t)
    BY <2>4, DoneWithType DEF FetchWithoutEffect
  <2>5. CASE FetchMatch(t)
    <3>1. PICK x \in Txs :
            LET v == Verdict(snap[t][cur[t]], depth[x], Required[cur[t]])
            IN  /\ v # "none"
                /\ upd' = [upd EXCEPT ![t] =
                               [status |-> v, tx |-> x, conf |-> depth[x]]]
      BY <2>5 DEF FetchMatch
    <3> DEFINE v == Verdict(snap[t][cur[t]], depth[x], Required[cur[t]])
    <3>2. v \in Status
      BY <3>1 DEF Verdict, Status
    <3>3. [status |-> v, tx |-> x, conf |-> depth[x]] \in Row
      BY <3>2 DEF Row
    <3> QED BY <2>5, <3>1, <3>3 DEF FetchMatch, PcValues
  <2>6. CASE ReadForUpdate(t)
    <3>1. row[cur[t]] \in Row
      BY <2>6 DEF ReadForUpdate, LocalOK, CursorOK
    <3>2. Apply(row[cur[t]], upd[t]) \in Row
      BY <3>1, ApplyType
    <3> QED BY <2>6, <3>2 DEF ReadForUpdate, PcValues
  <2>7. CASE SaveUpdate(t)
    BY <2>7 DEF SaveUpdate, PcValues
  <2>8. CASE Notify(t)
    <3>1. confirmedEvents' \in [Payments -> Nat]
      <4>1. \A p \in Payments : confirmedEvents[p] + 1 \in Nat
        OBVIOUS
      <4> QED BY <2>8, <4>1 DEF Notify
    <3>2. DoneWith(t, cur[t])
      BY <2>8 DEF Notify
    <3> QED BY <2>8, <3>1, <3>2, DoneWithType DEF Notify
  <2>9. CASE QueryOverdue(t)
    <3> DEFINE b == {p \in Payments : IsOverdue(p)}
    <3>1. LoopHead("expire", b) \in PcValues
      BY LoopHeadType
    <3> QED BY <2>9, <3>1 DEF QueryOverdue
  <2>10. CASE ReadForExpiry(t)
    BY <2>10, ApplyType DEF ReadForExpiry, PcValues
  <2>11. CASE FinishTick(t)
    BY <2>11, ResetType DEF FinishTick, PcValues
  <2> QED
    BY <1>3, <2>1, <2>2, <2>3, <2>4, <2>5, <2>6, <2>7, <2>8, <2>9, <2>10, <2>11
    DEF TickStep
<1>4. ASSUME NEW t \in Ticks, DbErrorOnPayment(t) PROVE TypeOK'
  <2>1. PICK p : DoneWith(t, p)
    BY <1>4 DEF DbErrorOnPayment
  <2> QED BY <1>4, <2>1, DoneWithType DEF DbErrorOnPayment
<1>5. ASSUME NEW t \in Ticks, DbErrorOnTick(t) PROVE TypeOK'
  BY <1>5, ResetType DEF DbErrorOnTick, PcValues
<1>6. ASSUME NEW i \in Instances, Crash(i) PROVE TypeOK'
  BY <1>6, CrashType
<1>7. CASE UNCHANGED vars
  BY <1>7 DEF vars
<1> QED BY <1>1, <1>2, <1>3, <1>4, <1>5, <1>6, <1>7 DEF Next

\* Where a loop goes on is fixed by the loop and by what is left to do.
LEMMA LoopHeadValues ==
    ASSUME NEW rest
    PROVE  /\ LoopHead("check", rest) \in {"mark", "sweep"}
           /\ LoopHead("expire", rest) \in {"expire", "finish"}
           /\ LoopHead("check", rest) = "mark" => rest # {}
           /\ LoopHead("expire", rest) = "expire" => rest # {}
BY DEF LoopHead

LEMMA LocalStep == TypeOK /\ LocalOK /\ [Next]_vars => LocalOK'
<1> SUFFICES ASSUME TypeOK, LocalOK, [Next]_vars, NEW u \in Ticks
             PROVE  PhaseOK(u)' /\ CursorOK(u)'
  BY DEF LocalOK
<1> USE DEF TypeOK, LocalOK, PhaseOK, CursorOK, tickVars
<1>1. ASSUME NEW p \in Payments, Create(p) \/ PassExpiry(p)
      PROVE  PhaseOK(u)' /\ CursorOK(u)'
  BY <1>1 DEF Create, PassExpiry
<1>2. ASSUME NEW x \in Txs, Broadcast(x) \/ Bury(x) \/ Reorg(x)
      PROVE  PhaseOK(u)' /\ CursorOK(u)'
  BY <1>2 DEF Broadcast, Bury, Reorg
<1>3. ASSUME NEW t \in Ticks, NEW p, DoneWith(t, p)
      PROVE  PhaseOK(u)' /\ CursorOK(u)'
  <2>1. phase[t] \in {"check", "expire"}
    OBVIOUS
  <2>2. CASE phase[t] = "check"
    <3>1. pc'[t] \in {"mark", "sweep"}
      BY <1>3, <2>2, LoopHeadValues DEF DoneWith
    <3> QED BY <1>3, <2>2, <3>1 DEF DoneWith
  <2>3. CASE phase[t] = "expire"
    <3>1. pc'[t] \in {"expire", "finish"}
      BY <1>3, <2>3, LoopHeadValues DEF DoneWith
    <3> QED BY <1>3, <2>3, <3>1 DEF DoneWith
  <2> QED BY <2>1, <2>2, <2>3
<1>4. ASSUME NEW t \in Ticks, NEW l \in {"idle", "finish"}, Reset(t, l)
      PROVE  PhaseOK(u)' /\ CursorOK(u)'
  BY <1>4 DEF Reset
<1>5. ASSUME NEW t \in Ticks, TickStep(t) PROVE PhaseOK(u)' /\ CursorOK(u)'
  <2>1. CASE StartTick(t)
    BY <2>1 DEF StartTick
  <2>2. CASE QueryActive(t)
    <3>1. pc'[t] \in {"mark", "sweep"}
      BY <2>2, LoopHeadValues DEF QueryActive
    <3> QED BY <2>2, <3>1 DEF QueryActive
  <2>3. CASE MarkChecked(t)
    BY <2>3 DEF MarkChecked
  <2>4. CASE FetchWithoutEffect(t)
    BY <2>4, <1>3 DEF FetchWithoutEffect
  <2>5. CASE FetchMatch(t)
    BY <2>5 DEF FetchMatch
  <2>6. CASE ReadForUpdate(t)
    BY <2>6 DEF ReadForUpdate
  <2>7. CASE SaveUpdate(t)
    BY <2>7 DEF SaveUpdate
  <2>8. CASE Notify(t)
    BY <2>8, <1>3 DEF Notify
  <2>9. CASE QueryOverdue(t)
    <3>1. pc'[t] \in {"expire", "finish"}
      BY <2>9, LoopHeadValues DEF QueryOverdue
    <3> QED BY <2>9, <3>1 DEF QueryOverdue
  <2>10. CASE ReadForExpiry(t)
    BY <2>10 DEF ReadForExpiry
  <2>11. CASE FinishTick(t)
    BY <2>11, <1>4 DEF FinishTick
  <2> QED
    BY <1>5, <2>1, <2>2, <2>3, <2>4, <2>5, <2>6, <2>7, <2>8, <2>9, <2>10, <2>11
    DEF TickStep
<1>6. ASSUME NEW t \in Ticks, DbErrorOnPayment(t)
      PROVE  PhaseOK(u)' /\ CursorOK(u)'
  <2>1. PICK p : DoneWith(t, p)
    BY <1>6 DEF DbErrorOnPayment
  <2> QED BY <2>1, <1>3
<1>7. ASSUME NEW t \in Ticks, DbErrorOnTick(t)
      PROVE  PhaseOK(u)' /\ CursorOK(u)'
  BY <1>7, <1>4 DEF DbErrorOnTick
<1>8. ASSUME NEW i \in Instances, Crash(i)
      PROVE  PhaseOK(u)' /\ CursorOK(u)'
  BY <1>8 DEF Crash
<1>9. CASE UNCHANGED vars
  BY <1>9 DEF vars
<1> QED BY <1>1, <1>2, <1>5, <1>6, <1>7, <1>8, <1>9 DEF Next

\* The variables of the monitor keep their types: no tick is ever at a label,
\* and no row in a status, that the code does not have.
THEOREM TypeCorrect == Spec => [](TypeOK /\ LocalOK)
<1>1. Init => TypeOK /\ LocalOK
  BY ConstantsOK, LiteralRows
  DEF Init, TypeOK, PcValues, LocalOK, PhaseOK, CursorOK
<1> QED BY <1>1, TypeStep, LocalStep, PTL DEF Spec
-----------------------------------------------------------------------------
\* A step of a tick other than its first and its last keeps it under way, and
\* touches neither another tick nor the flags.
LEMMA MiddleStep ==
    ASSUME TypeOK, LocalOK, NEW t \in Ticks,
           \/ QueryActive(t) \/ MarkChecked(t) \/ FetchWithoutEffect(t)
           \/ FetchMatch(t) \/ ReadForUpdate(t) \/ SaveUpdate(t) \/ Notify(t)
           \/ QueryOverdue(t) \/ ReadForExpiry(t)
           \/ DbErrorOnPayment(t) \/ DbErrorOnTick(t)
    PROVE  /\ UNCHANGED isChecking
           /\ pc[t] # "idle"
           /\ pc' = [pc EXCEPT ![t] = pc'[t]]
           /\ pc'[t] # "idle"
<1> USE DEF TypeOK
<1>1. ASSUME NEW ph \in {"check", "expire"}, NEW rest
      PROVE  LoopHead(ph, rest) # "idle"
  BY <1>1 DEF LoopHead
<1>2. ASSUME NEW p, DoneWith(t, p), pc[t] # "idle"
      PROVE  pc' = [pc EXCEPT ![t] = pc'[t]] /\ pc'[t] # "idle"
  BY <1>1, <1>2 DEF DoneWith
<1>3. CASE QueryActive(t)
  BY <1>1, <1>3 DEF QueryActive
<1>4. CASE MarkChecked(t) \/ FetchMatch(t) \/ ReadForUpdate(t)
           \/ SaveUpdate(t) \/ ReadForExpiry(t)
  BY <1>4 DEF MarkChecked, FetchMatch, ReadForUpdate, SaveUpdate, ReadForExpiry
<1>5. CASE FetchWithoutEffect(t)
  BY <1>2, <1>5 DEF FetchWithoutEffect
<1>6. CASE Notify(t)
  BY <1>2, <1>6 DEF Notify
<1>7. CASE QueryOverdue(t)
  BY <1>1, <1>7 DEF QueryOverdue
<1>8. CASE DbErrorOnPayment(t)
  <2>1. pc[t] # "idle" /\ \E p : DoneWith(t, p)
    BY <1>8 DEF DbErrorOnPayment
  <2> QED BY <1>2, <1>8, <2>1 DEF DbErrorOnPayment
<1>9. CASE DbErrorOnTick(t)
  BY <1>9 DEF DbErrorOnTick, Reset
<1> QED BY <1>3, <1>4, <1>5, <1>6, <1>7, <1>8, <1>9

LEMMA ExclusionStep ==
    TypeOK /\ LocalOK /\ TickExclusion /\ [Next]_vars => TickExclusion'
<1> SUFFICES ASSUME TypeOK, LocalOK, TickExclusion, [Next]_vars
             PROVE  TickExclusion'
  OBVIOUS
<1> USE ConstantsOK DEF TypeOK, TickExclusion
<1>1. ASSUME UNCHANGED <<pc, isChecking>> PROVE TickExclusion'
  BY <1>1
<1>2. ASSUME NEW t \in Ticks, UNCHANGED isChecking, pc[t] # "idle",
             pc' = [pc EXCEPT ![t] = pc'[t]], pc'[t] # "idle"
      PROVE  TickExclusion'
  <2>1. \A u \in Ticks : pc'[u] # "idle" <=> pc[u] # "idle"
    BY <1>2
  <2>2. \A u \in Ticks : pc'[u] # "idle" => isChecking'[Host[u]]
    BY <1>2, <2>1
  <2>3. \A i \in Instances :
           isChecking'[i] => \E u \in Ticks : Host[u] = i /\ pc'[u] # "idle"
    BY <1>2, <2>1
  <2>4. \A u, w \in Ticks :
           Host[u] = Host[w] /\ pc'[u] # "idle" /\ pc'[w] # "idle" => u = w
    BY <2>1
  <2> QED BY <2>2, <2>3, <2>4
<1>3. ASSUME NEW t \in Ticks, StartTick(t) PROVE TickExclusion'
  BY <1>3 DEF StartTick, CanStart
<1>4. ASSUME NEW t \in Ticks, FinishTick(t) PROVE TickExclusion'
  BY <1>4 DEF FinishTick, Reset
<1>5. ASSUME NEW i \in Instances, Crash(i) PROVE TickExclusion'
  BY <1>5 DEF Crash
<1>6. ASSUME NEW t \in Ticks,
             TickStep(t) \/ DbErrorOnPayment(t) \/ DbErrorOnTick(t)
      PROVE  TickExclusion'
  BY <1>2, <1>3, <1>4, <1>6, MiddleStep DEF TickStep
<1>7. ASSUME NEW p \in Payments, Create(p) \/ PassExpiry(p) PROVE TickExclusion'
  BY <1>1, <1>7 DEF Create, PassExpiry, tickVars
<1>8. ASSUME NEW x \in Txs, Broadcast(x) \/ Bury(x) \/ Reorg(x)
      PROVE  TickExclusion'
  BY <1>1, <1>8 DEF Broadcast, Bury, Reorg, tickVars
<1>9. CASE UNCHANGED vars
  BY <1>1, <1>9 DEF vars, tickVars
<1> QED BY <1>5, <1>6, <1>7, <1>8, <1>9 DEF Next

\* isChecking keeps the ticks of an instance apart, for any number of instances
\* and whatever fails.
THEOREM TicksExclude == Spec => []TickExclusion
<1>1. Init => TickExclusion
  BY ConstantsOK DEF Init, TickExclusion
<1> QED BY <1>1, TypeCorrect, ExclusionStep, PTL DEF Spec

-----------------------------------------------------------------------------
(* One instance: no copy is stale.                                         *)

Fits(t) == CopiesFresh(t) /\ SweepFresh(t) /\ WorkFits(t)

\* The inductive invariant.
MonitorInv ==
    /\ TypeOK
    /\ LocalOK
    /\ TickExclusion
    /\ StatusEvidence
    /\ \A t \in Ticks : Fits(t)
    /\ EventsFit

\* On one instance at most one tick is under way.
LEMMA OneTick ==
    ASSUME SingleInstance, TickExclusion,
           NEW t \in Ticks, NEW u \in Ticks, pc[t] # "idle", pc[u] # "idle"
    PROVE  t = u
BY ConstantsOK DEF SingleInstance, TickExclusion

\* Nothing is asked of a tick that comes to be idle or between its loops.
LEMMA RestFits ==
    ASSUME NEW t \in Ticks, pc'[t] \in {"idle", "query", "sweep", "finish"}
    PROVE  Fits(t)'
BY DEF Fits, CopiesFresh, SweepFresh, WorkFits

\* When the loop leaves a payment behind and no row changes, the copies of the
\* other payments are as fresh as they were.
LEMMA DoneWithFits ==
    ASSUME TypeOK, LocalOK, NEW t \in Ticks, Fits(t),
           pc[t] \in {"mark", "fetch", "read", "write", "notify"},
           pc[t] = "notify" => cur[t] \in Payments,
           NEW p \in Payments, DoneWith(t, p), UNCHANGED row,
           pc[t] = "notify" => p = cur[t]
    PROVE  Fits(t)'
<1> USE DEF TypeOK, Fits, CopiesFresh, SweepFresh, WorkFits, Ahead, DoneWith
<1>1. phase'[t] = phase[t] /\ phase[t] \in {"check", "expire"}
  OBVIOUS
<1>2. \A q \in Payments : q \in todo'[t] =>
         Ahead(t, q) /\ snap'[t][q] = snap[t][q]
  OBVIOUS
<1>3. CASE phase[t] = "check"
  <2>1. pc'[t] \in {"mark", "sweep"}
    BY <1>3, LoopHeadValues
  <2> QED BY <1>1, <1>2, <1>3, <2>1
<1>4. CASE phase[t] = "expire"
  <2>1. pc'[t] \in {"expire", "finish"}
    BY <1>4, LoopHeadValues
  <2>2. pc[t] \in {"write", "notify"}
    BY <1>4 DEF LocalOK, PhaseOK
  <2> QED BY <1>1, <1>2, <1>4, <2>1, <2>2
<1> QED BY <1>1, <1>3, <1>4

\* The entity that updatePaymentStatus makes of an open row fits the payment.
LEMMA AppliedEvidence ==
    ASSUME NEW p \in Payments, row[p] \in Row, NEW u \in Row,
           Evidence(p, row[p]), row[p].status \in Open, UpdateFits(p, u)
    PROVE  /\ Evidence(p, Apply(row[p], u))
           /\ Apply(row[p], u).status \in {"detected", "confirming", "confirmed"}
           /\ Apply(row[p], u).status = "detected" => row[p].status = "pending"
<1>1. u.tx # NoTx
  BY ConstantsOK DEF UpdateFits
<1>2. Apply(row[p], u).tx = u.tx /\ Apply(row[p], u).status = u.status
  BY <1>1 DEF Apply
<1>3. u.conf # 0 => Apply(row[p], u).conf = u.conf
  BY DEF Apply
<1>4. u.conf = 0 => Apply(row[p], u).conf = row[p].conf
  BY DEF Apply
<1> QED BY ConstantsOK, <1>2, <1>3, <1>4 DEF UpdateFits, Evidence, Row, Open

LEMMA ExpiredEvidence ==
    ASSUME NEW p \in Payments, row[p] \in Row,
           Evidence(p, row[p]), row[p].status \in {"pending", "detected"}
    PROVE  /\ Evidence(p, Apply(row[p], ExpiredUpdate))
           /\ Apply(row[p], ExpiredUpdate).status = "expired"
BY DEF Evidence, Apply, ExpiredUpdate, Row

\* A step of tick t preserves what is known of t, of the rows and the events.
LEMMA OwnStep ==
    ASSUME MonitorInv, NEW t \in Ticks,
           TickStep(t) \/ DbErrorOnPayment(t) \/ DbErrorOnTick(t)
    PROVE  Fits(t)' /\ EventsFit' /\ StatusEvidence'
<1> USE DEF MonitorInv, TypeOK
<1>0. ASSUME UNCHANGED <<row, confirmedEvents>>
      PROVE  EventsFit' /\ StatusEvidence'
  BY <1>0 DEF EventsFit, StatusEvidence, Evidence
<1>1. CASE StartTick(t)
  BY <1>0, <1>1, RestFits DEF StartTick
<1>2. CASE QueryActive(t)
  <2>1. phase[t] = "check" /\ phase'[t] = "check"
    BY <1>2 DEF QueryActive, LocalOK, PhaseOK
  <2>2. PICK b \in SUBSET Payments :
          /\ IsBatch(b)
          /\ todo' = [todo EXCEPT ![t] = b]
          /\ snap' = [snap EXCEPT ![t] =
                        [p \in Payments |-> IF p \in b THEN row[p] ELSE NoRow]]
          /\ pc' = [pc EXCEPT ![t] = LoopHead("check", b)]
    BY <1>2 DEF QueryActive
  <2>3. pc'[t] \in {"mark", "sweep"}
    BY <2>2, LoopHeadValues
  <2>4. \A p \in b : p \in Payments /\ row[p].status \in Open
    BY <2>2 DEF IsBatch, IsActive, Open
  <2>5. \A p \in Payments : p \in todo'[t] => p \in b /\ snap'[t][p] = row[p]
    BY <2>2
  <2>6. UNCHANGED row
    BY <1>2 DEF QueryActive
  <2>7. CopiesFresh(t)'
    BY <2>4, <2>5, <2>6 DEF CopiesFresh, Ahead
  <2>8. SweepFresh(t)' /\ WorkFits(t)'
    BY <2>1, <2>3 DEF SweepFresh, WorkFits
  <2> QED BY <1>0, <1>2, <2>7, <2>8 DEF Fits, QueryActive
<1>3. CASE MarkChecked(t)
  <2>1. PICK p \in todo[t] :
          row' = [row EXCEPT ![p] = snap[t][p]] /\ cur' = [cur EXCEPT ![t] = p]
    BY <1>3 DEF MarkChecked
  <2>2. phase[t] = "check" /\ pc[t] = "mark"
    BY <1>3 DEF MarkChecked, LocalOK, PhaseOK
  <2>3. Ahead(t, p) /\ p \in Payments
    BY <2>1, <2>2 DEF Ahead
  <2>4. snap[t][p] = row[p]
    BY <2>2, <2>3 DEF Fits, CopiesFresh
  <2>5. UNCHANGED row
    BY <2>1, <2>3, <2>4
  <2>6. \A q \in Payments : Ahead(t, q)' => Ahead(t, q)
    BY <1>3 DEF MarkChecked, Ahead
  <2>7. Fits(t)'
    BY <1>3, <2>2, <2>5, <2>6
    DEF MarkChecked, Fits, CopiesFresh, SweepFresh, WorkFits
  <2> QED BY <1>0, <1>3, <2>5, <2>7 DEF MarkChecked
<1>4. CASE FetchWithoutEffect(t)
  <2>1. cur[t] \in Payments
    BY <1>4 DEF FetchWithoutEffect, LocalOK, CursorOK
  <2> QED BY <1>0, <1>4, <2>1, DoneWithFits DEF FetchWithoutEffect
<1>5. CASE FetchMatch(t)
  <2> DEFINE p == cur[t]
  <2>1. PICK x \in seen \cap Matches[p] :
          LET v == Verdict(snap[t][p], depth[x], Required[p])
          IN  /\ v # "none"
              /\ upd' = [upd EXCEPT ![t] =
                             [status |-> v, tx |-> x, conf |-> depth[x]]]
    BY <1>5 DEF FetchMatch
  <2> DEFINE v == Verdict(snap[t][p], depth[x], Required[p])
  <2>2. pc[t] = "fetch" /\ phase[t] = "check" /\ p \in todo[t] /\ p \in Payments
    BY <1>5 DEF FetchMatch, LocalOK, PhaseOK, CursorOK
  <2>3. snap[t][p] = row[p]
    BY <2>2 DEF Fits, CopiesFresh, Ahead
  <2>4. depth[x] \in Nat /\ Required[p] \in Nat /\ x \in Matches[p]
    BY <2>1, <2>2, ConstantsOK
  <2>5. /\ upd'[t].status = v /\ upd'[t].tx = x /\ upd'[t].conf = depth[x]
        /\ v # "none"
    BY <2>1
  <2>6. \/ v = "detected" /\ depth[x] = 0 /\ row[p].status = "pending"
        \/ v = "confirming" /\ depth[x] \in 1..(Required[p] - 1)
        \/ v = "confirmed" /\ depth[x] > 0 /\ depth[x] >= Required[p]
    BY <2>3, <2>4, <2>5 DEF Verdict, InMempool, DeepEnough
  <2>7. UpdateFits(p, upd'[t])
    BY <2>4, <2>5, <2>6 DEF UpdateFits
  <2>8. WorkFits(t)'
    BY <1>5, <2>7 DEF FetchMatch, WorkFits, UpdateFits
  <2>9. CopiesFresh(t)' /\ SweepFresh(t)'
    BY <1>5, <2>2 DEF FetchMatch, Fits, CopiesFresh, SweepFresh, Ahead
  <2> QED BY <1>0, <1>5, <2>8, <2>9 DEF FetchMatch, Fits
<1>6. CASE ReadForUpdate(t)
  <2> DEFINE p == cur[t]
  <2>1. pc[t] = "read" /\ phase[t] = "check" /\ p \in todo[t] /\ p \in Payments
    BY <1>6 DEF ReadForUpdate, LocalOK, PhaseOK, CursorOK
  <2>2. row[p].status \in Open /\ UpdateFits(p, upd[t])
    BY <2>1 DEF Fits, CopiesFresh, WorkFits, Ahead
  <2>3. Evidence(p, row[p])
    BY <2>1 DEF StatusEvidence
  <2>4. ent'[t] = Apply(row[p], upd[t]) /\ pc'[t] = "write"
    BY <1>6 DEF ReadForUpdate
  <2>5. /\ Evidence(p, ent'[t])
        /\ ent'[t].status \in {"detected", "confirming", "confirmed"}
        /\ ent'[t].status = "detected" => row[p].status = "pending"
    BY <2>1, <2>2, <2>3, <2>4, AppliedEvidence
  <2>6. WorkFits(t)'
    BY <1>6, <2>1, <2>4, <2>5 DEF ReadForUpdate, WorkFits, EntityFits, Evidence
  <2>7. CopiesFresh(t)' /\ SweepFresh(t)'
    BY <1>6, <2>1 DEF ReadForUpdate, Fits, CopiesFresh, SweepFresh, Ahead
  <2> QED BY <1>0, <1>6, <2>6, <2>7 DEF ReadForUpdate, Fits
<1>7. CASE SaveUpdate(t)
  <2> DEFINE p == cur[t]
  <2>1. /\ pc[t] = "write" /\ p \in todo[t] /\ p \in Payments
        /\ row' = [row EXCEPT ![p] = ent[t]]
        /\ pc'[t] = "notify"
        /\ UNCHANGED <<cur, ent, todo, phase, snap, upd, confirmedEvents>>
    BY <1>7 DEF SaveUpdate, LocalOK, CursorOK
  <2>2. EntityFits(t) /\ Ahead(t, p)
    BY <2>1 DEF Fits, WorkFits, Ahead
  <2>3. row[p].status \in Open
    BY <2>1, <2>2 DEF Fits, CopiesFresh, SweepFresh, Open
  <2>4. confirmedEvents[p] = 0
    BY <2>1, <2>3 DEF EventsFit, Open
  <2>5. EventsFit'
    BY <2>1, <2>4 DEF EventsFit
  <2>6. StatusEvidence'
    BY <2>1, <2>2 DEF StatusEvidence, EntityFits, Evidence
  <2>7. WorkFits(t)'
    BY <2>1, <2>2, <2>4 DEF WorkFits, EntityFits
  <2>8. \A q \in Payments : Ahead(t, q)' => Ahead(t, q) /\ row'[q] = row[q]
    BY <2>1 DEF Ahead
  <2>9. CopiesFresh(t)' /\ SweepFresh(t)'
    BY <2>1, <2>8 DEF Fits, CopiesFresh, SweepFresh
  <2> QED BY <2>5, <2>6, <2>7, <2>9 DEF Fits
<1>8. CASE Notify(t)
  <2> DEFINE p == cur[t]
  <2>1. /\ pc[t] = "notify" /\ p \in Payments
        /\ DoneWith(t, p) /\ UNCHANGED row
    BY <1>8 DEF Notify, LocalOK, CursorOK
  <2>2. row[p] = ent[t] /\ confirmedEvents[p] = 0
    BY <2>1 DEF Fits, WorkFits
  <2>3. EventsFit'
    BY <1>8, <2>1, <2>2 DEF Notify, TellsConfirmed, EventsFit
  <2>4. StatusEvidence'
    BY <2>1 DEF StatusEvidence, Evidence
  <2> QED BY <2>1, <2>3, <2>4, DoneWithFits
<1>9. CASE QueryOverdue(t)
  <2> DEFINE b == {p \in Payments : IsOverdue(p)}
  <2>1. /\ todo'[t] = b /\ phase'[t] = "expire" /\ UNCHANGED row
        /\ pc'[t] \in {"expire", "finish"}
    BY <1>9, LoopHeadValues DEF QueryOverdue
  <2>2. \A p \in b : row[p].status \in {"pending", "detected"}
    BY DEF IsOverdue
  <2>3. Fits(t)'
    BY <2>1, <2>2 DEF Fits, CopiesFresh, SweepFresh, WorkFits, Ahead
  <2> QED BY <1>0, <1>9, <2>3 DEF QueryOverdue
<1>10. CASE ReadForExpiry(t)
  <2>1. PICK p \in todo[t] :
          /\ cur' = [cur EXCEPT ![t] = p]
          /\ ent' = [ent EXCEPT ![t] = Apply(row[p], ExpiredUpdate)]
    BY <1>10 DEF ReadForExpiry
  <2>2. /\ pc[t] = "expire" /\ phase[t] = "expire" /\ p \in Payments
        /\ cur'[t] = p /\ ent'[t] = Apply(row[p], ExpiredUpdate)
        /\ pc'[t] = "write" /\ UNCHANGED <<row, phase, todo, snap, upd>>
    BY <1>10, <2>1 DEF ReadForExpiry, LocalOK, PhaseOK
  <2>3. row[p].status \in {"pending", "detected"} /\ Evidence(p, row[p])
    BY <2>1, <2>2 DEF Fits, SweepFresh, Ahead, StatusEvidence
  <2>4. Evidence(p, ent'[t]) /\ ent'[t].status = "expired"
    BY <2>2, <2>3, ExpiredEvidence
  <2>5. WorkFits(t)'
    BY <2>2, <2>4 DEF WorkFits, EntityFits, Evidence
  <2>6. CopiesFresh(t)' /\ SweepFresh(t)'
    BY <2>2 DEF Fits, CopiesFresh, SweepFresh, Ahead
  <2> QED BY <1>0, <1>10, <2>5, <2>6 DEF ReadForExpiry, Fits
<1>11. CASE FinishTick(t)
  BY <1>0, <1>11, RestFits DEF FinishTick, Reset
<1>12. CASE DbErrorOnPayment(t)
  <2>1. UNCHANGED row /\ pc[t] \in {"mark", "read", "write"}
    BY <1>12 DEF DbErrorOnPayment
  <2>2. PICK p \in Payments : DoneWith(t, p)
    BY <1>12 DEF DbErrorOnPayment, LocalOK, CursorOK
  <2>3. Fits(t)'
    BY <2>1, <2>2, DoneWithFits
  <2> QED BY <1>0, <1>12, <2>3 DEF DbErrorOnPayment
<1>13. CASE DbErrorOnTick(t)
  BY <1>0, <1>13, RestFits DEF DbErrorOnTick, Reset
<1> QED
  BY <1>1, <1>2, <1>3, <1>4, <1>5, <1>6, <1>7, <1>8, <1>9, <1>10, <1>11, <1>12,
     <1>13 DEF TickStep

LEMMA MonitorStep ==
    ASSUME SingleInstance, MonitorInv, [Next]_vars
    PROVE  MonitorInv'
<1> USE DEF MonitorInv
<1>1. TypeOK' /\ LocalOK' /\ TickExclusion'
  BY TypeStep, LocalStep, ExclusionStep
<1>2. ASSUME UNCHANGED <<tickVars, row, confirmedEvents>>
      PROVE  EventsFit' /\ StatusEvidence' /\ \A u \in Ticks : Fits(u)'
  BY <1>2 DEF tickVars, EventsFit, StatusEvidence, Evidence, Fits, CopiesFresh,
              SweepFresh, WorkFits, Ahead, UpdateFits, EntityFits
<1>3. ASSUME NEW t \in Ticks,
             TickStep(t) \/ DbErrorOnPayment(t) \/ DbErrorOnTick(t)
      PROVE  EventsFit' /\ StatusEvidence' /\ \A u \in Ticks : Fits(u)'
  <2>1. Fits(t)' /\ EventsFit' /\ StatusEvidence'
    BY <1>3, OwnStep
  <2>2. ASSUME NEW u \in Ticks, u # t PROVE Fits(u)'
    <3>1. pc'[u] = pc[u]
      BY <1>3, <2>2, MiddleStep DEF TickStep, StartTick, FinishTick, Reset, TypeOK
    <3>2. pc[t] # "idle" \/ pc'[t] # "idle"
      BY <1>3, MiddleStep DEF TickStep, StartTick, FinishTick, TypeOK
    <3>3. pc[u] = "idle"
      <4>1. CASE pc[t] # "idle"
        BY <2>2, <4>1, OneTick
      <4>2. CASE pc[t] = "idle"
        <5>1. CanStart(t)
          BY <1>3, <4>2, MiddleStep DEF TickStep, StartTick, FinishTick
        <5> QED BY <5>1, ConstantsOK DEF CanStart, TickExclusion, SingleInstance
      <4> QED BY <4>1, <4>2
    <3> QED BY <3>1, <3>3, RestFits
  <2> QED BY <2>1, <2>2
<1>4. ASSUME NEW p \in Payments, Create(p)
      PROVE  EventsFit' /\ StatusEvidence' /\ \A u \in Ticks : Fits(u)'
  <2>1. /\ row[p].status = "none" /\ row' = [row EXCEPT ![p] = NewRow]
        /\ UNCHANGED <<tickVars, confirmedEvents>>
    BY <1>4 DEF Create
  <2>2. EventsFit' /\ StatusEvidence'
    BY <2>1 DEF EventsFit, StatusEvidence, Evidence, NewRow, TypeOK
  <2>3. ASSUME NEW u \in Ticks PROVE Fits(u)'
    <3>1. CASE pc[u] \in {"idle", "query", "sweep", "finish"}
      BY <2>1, <3>1, RestFits DEF tickVars
    <3>2. CASE pc[u] \in {"mark", "fetch", "read", "write", "notify", "expire"}
      <4>1. phase[u] \in {"check", "expire"}
        BY DEF TypeOK
      <4>2. pc[u] = "expire" => phase[u] = "expire"
        BY DEF LocalOK, PhaseOK
      <4>3. ASSUME NEW q \in Payments, Ahead(u, q) PROVE row[q].status # "none"
        <5>1. CASE phase[u] = "check"
          <6>1. pc[u] \in {"mark", "fetch", "read", "write", "notify"}
            BY <3>2, <4>2, <5>1
          <6> QED BY <4>3, <5>1, <6>1 DEF Fits, CopiesFresh, Open
        <5>2. CASE phase[u] = "expire"
          <6>1. pc[u] \in {"expire", "write", "notify"}
            BY <3>2, <5>2 DEF LocalOK, PhaseOK
          <6> QED BY <4>3, <5>2, <6>1 DEF Fits, SweepFresh
        <5> QED BY <4>1, <5>1, <5>2
      <4>4. \A q \in Payments : Ahead(u, q) => q # p
        BY <2>1, <4>3
      <4>5. \A q \in Payments : Ahead(u, q) => row'[q] = row[q]
        BY <2>1, <4>4 DEF TypeOK
      <4>6. \A q \in Payments : Ahead(u, q)' <=> Ahead(u, q)
        BY <2>1 DEF tickVars, Ahead
      <4>7. CopiesFresh(u)' /\ SweepFresh(u)'
        BY <2>1, <4>5, <4>6 DEF tickVars, Fits, CopiesFresh, SweepFresh
      <4>8. pc[u] \in {"read", "write", "notify"} => cur[u] \in todo[u]
        BY DEF LocalOK, CursorOK
      <4>9. pc[u] \in {"read", "write", "notify"} => row'[cur[u]] = row[cur[u]]
        <5>1. pc[u] \in {"read", "write"} => Ahead(u, cur[u]) /\ cur[u] \in Payments
          BY <4>8 DEF Ahead, TypeOK
        <5>2. pc[u] = "notify" => row[cur[u]].status # "none" /\ cur[u] \in Payments
          BY <4>8 DEF Fits, WorkFits, TypeOK
        <5> QED BY <2>1, <4>5, <5>1, <5>2 DEF TypeOK
      <4>10. WorkFits(u)'
        BY <2>1, <4>9 DEF tickVars, Fits, WorkFits, UpdateFits, EntityFits, Evidence
      <4> QED BY <4>7, <4>10 DEF Fits
    <3> QED BY <3>1, <3>2 DEF TypeOK, PcValues
  <2> QED BY <2>2, <2>3
<1>5. ASSUME NEW p \in Payments, PassExpiry(p)
      PROVE  EventsFit' /\ StatusEvidence' /\ \A u \in Ticks : Fits(u)'
  BY <1>2, <1>5 DEF PassExpiry
<1>6. ASSUME NEW x \in Txs, Broadcast(x) \/ Bury(x) \/ Reorg(x)
      PROVE  EventsFit' /\ StatusEvidence' /\ \A u \in Ticks : Fits(u)'
  BY <1>2, <1>6 DEF Broadcast, Bury, Reorg
<1>7. ASSUME NEW i \in Instances, Crash(i)
      PROVE  EventsFit' /\ StatusEvidence' /\ \A u \in Ticks : Fits(u)'
  <2>1. \A u \in Ticks : pc'[u] = "idle"
    BY <1>7, ConstantsOK DEF Crash, SingleInstance
  <2>2. EventsFit' /\ StatusEvidence'
    BY <1>7 DEF Crash, EventsFit, StatusEvidence, Evidence
  <2> QED BY <2>1, <2>2, RestFits
<1>8. CASE UNCHANGED vars
  <2>1. UNCHANGED <<tickVars, row, confirmedEvents>>
    BY <1>8 DEF vars
  <2> QED BY <1>1, <1>2, <2>1
<1> QED BY <1>1, <1>3, <1>4, <1>5, <1>6, <1>7, <1>8 DEF Next

\* From the initial state on, on one instance, the inductive invariant holds.
LEMMA MonitorInvariant == ASSUME SingleInstance PROVE Spec => []MonitorInv
<1>1. Init => MonitorInv
  <2> SUFFICES ASSUME Init PROVE MonitorInv
    OBVIOUS
  <2>1. TypeOK /\ LocalOK /\ TickExclusion
    BY ConstantsOK, LiteralRows
    DEF Init, TypeOK, PcValues, LocalOK, PhaseOK, CursorOK, TickExclusion
  <2>2. StatusEvidence /\ EventsFit
    BY DEF Init, StatusEvidence, Evidence, EventsFit, NoRow
  <2>3. \A t \in Ticks : Fits(t)
    BY DEF Init, Fits, CopiesFresh, SweepFresh, WorkFits
  <2> QED BY <2>1, <2>2, <2>3 DEF MonitorInv
<1>2. MonitorInv /\ [Next]_vars => MonitorInv'
  BY MonitorStep
<1> QED BY <1>1, <1>2, PTL DEF Spec

\* On one instance every status rests on its evidence: a detected, confirming
\* or confirmed payment names a transaction that pays it, a confirming one has
\* too few confirmations and a confirmed one enough.
THEOREM StatusRestsOnEvidence == SingleInstance => (Spec => []StatusEvidence)
<1> SUFFICES ASSUME SingleInstance PROVE Spec => []StatusEvidence
  OBVIOUS
<1>1. MonitorInv => StatusEvidence
  BY DEF MonitorInv
<1> QED BY <1>1, MonitorInvariant, PTL

\* On one instance every confirmation is announced at most once, and no copy
\* of a payment that the monitor saves is stale.
THEOREM NeverStale == SingleInstance => (Spec => [](ConfirmedOnce /\ NoStaleCopy))
<1> SUFFICES ASSUME SingleInstance PROVE Spec => [](ConfirmedOnce /\ NoStaleCopy)
  OBVIOUS
<1>1. MonitorInv => ConfirmedOnce /\ NoStaleCopy
  BY DEF MonitorInv, ConfirmedOnce, NoStaleCopy, EventsFit, LocalOK, Fits
<1> QED BY <1>1, MonitorInvariant, PTL

-----------------------------------------------------------------------------
(* One instance: the monitor implements the life cycle.                    *)

\* Every step leaves the statuses and the events alone, moves one payment to a
\* status that may follow its own, or announces one confirmation.
LEMMA LifecycleStep ==
    ASSUME MonitorInv, [Next]_vars
    PROVE  \/ UNCHANGED <<row, confirmedEvents>>
           \/ /\ UNCHANGED confirmedEvents
              /\ \E p \in Payments : \E r \in Row :
                    /\ row' = [row EXCEPT ![p] = r]
                    /\ \/ r.status = row[p].status
                       \/ r.status \in Lifecycle!Successors(row[p].status)
           \/ /\ UNCHANGED row
              /\ \E p \in Payments :
                    /\ row[p].status = "confirmed"
                    /\ confirmedEvents[p] = 0
                    /\ confirmedEvents' = [confirmedEvents EXCEPT ![p] = 1]
<1> USE DEF MonitorInv, TypeOK
<1>1. ASSUME NEW p \in Payments, Create(p)
      PROVE  /\ UNCHANGED confirmedEvents
             /\ row' = [row EXCEPT ![p] = NewRow]
             /\ NewRow.status \in Lifecycle!Successors(row[p].status)
  BY <1>1 DEF Create, NewRow, Lifecycle!Successors, Lifecycle!Final
<1>2. ASSUME NEW t \in Ticks, MarkChecked(t)
      PROVE  UNCHANGED <<row, confirmedEvents>>
  <2>1. PICK p \in todo[t] : row' = [row EXCEPT ![p] = snap[t][p]]
    BY <1>2 DEF MarkChecked
  <2>2. snap[t][p] = row[p]
    BY <1>2 DEF MarkChecked, LocalOK, PhaseOK, Fits, CopiesFresh, Ahead
  <2> QED BY <1>2, <2>1, <2>2 DEF MarkChecked
<1>3. ASSUME NEW t \in Ticks, SaveUpdate(t)
      PROVE  /\ UNCHANGED confirmedEvents
             /\ cur[t] \in Payments
             /\ row' = [row EXCEPT ![cur[t]] = ent[t]]
             /\ \/ ent[t].status = row[cur[t]].status
                \/ ent[t].status \in Lifecycle!Successors(row[cur[t]].status)
  <2>1. /\ pc[t] = "write" /\ cur[t] \in Payments /\ EntityFits(t)
        /\ Ahead(t, cur[t]) /\ phase[t] \in {"check", "expire"}
    BY <1>3 DEF SaveUpdate, LocalOK, CursorOK, Fits, WorkFits, Ahead
  <2>2. CASE phase[t] = "check"
    <3>1. row[cur[t]].status \in Open
      BY <2>1, <2>2 DEF Fits, CopiesFresh
    <3>2. /\ ent[t].status \in {"detected", "confirming", "confirmed"}
          /\ ent[t].status = "detected" => row[cur[t]].status = "pending"
      BY <2>1, <2>2 DEF EntityFits
    <3> QED BY <1>3, <2>1, <3>1, <3>2 DEF SaveUpdate, Open, Lifecycle!Successors, Lifecycle!Final
  <2>3. CASE phase[t] = "expire"
    <3>1. row[cur[t]].status \in {"pending", "detected"}
      BY <2>1, <2>3 DEF Fits, SweepFresh
    <3>2. ent[t].status = "expired"
      BY <2>1, <2>3 DEF EntityFits
    <3> QED BY <1>3, <2>1, <3>1, <3>2 DEF SaveUpdate, Lifecycle!Successors, Lifecycle!Final
  <2> QED BY <2>1, <2>2, <2>3
<1>4. ASSUME NEW t \in Ticks, Notify(t)
      PROVE  \/ UNCHANGED <<row, confirmedEvents>>
             \/ /\ UNCHANGED row
                /\ cur[t] \in Payments
                /\ row[cur[t]].status = "confirmed"
                /\ confirmedEvents[cur[t]] = 0
                /\ confirmedEvents' = [confirmedEvents EXCEPT ![cur[t]] = 1]
  <2> DEFINE p == cur[t]
  <2>1. /\ pc[t] = "notify" /\ p \in Payments /\ UNCHANGED row
        /\ confirmedEvents' = IF ent[t].status = "confirmed"
                               THEN [confirmedEvents EXCEPT ![p] = @ + 1]
                               ELSE confirmedEvents
    BY <1>4 DEF Notify, TellsConfirmed, LocalOK, CursorOK
  <2>2. row[p] = ent[t] /\ confirmedEvents[p] = 0
    BY <2>1 DEF Fits, WorkFits
  <2>3. CASE ent[t].status = "confirmed"
    BY <2>1, <2>2, <2>3
  <2>4. CASE ent[t].status # "confirmed"
    BY <2>1, <2>4
  <2> QED BY <2>3, <2>4
<1>5. ASSUME NEW t \in Ticks, TickStep(t), ~MarkChecked(t), ~SaveUpdate(t),
             ~Notify(t)
      PROVE  UNCHANGED <<row, confirmedEvents>>
  BY <1>5 DEF TickStep, StartTick, QueryActive, FetchWithoutEffect, FetchMatch,
              ReadForUpdate, QueryOverdue, ReadForExpiry, FinishTick
<1>6. ASSUME NEW t \in Ticks, DbErrorOnPayment(t) \/ DbErrorOnTick(t)
      PROVE  UNCHANGED <<row, confirmedEvents>>
  BY <1>6 DEF DbErrorOnPayment, DbErrorOnTick
<1>7. ASSUME NEW p \in Payments, PassExpiry(p)
      PROVE  UNCHANGED <<row, confirmedEvents>>
  BY <1>7 DEF PassExpiry
<1>8. ASSUME NEW x \in Txs, Broadcast(x) \/ Bury(x) \/ Reorg(x)
      PROVE  UNCHANGED <<row, confirmedEvents>>
  BY <1>8 DEF Broadcast, Bury, Reorg
<1>9. ASSUME NEW i \in Instances, Crash(i)
      PROVE  UNCHANGED <<row, confirmedEvents>>
  BY <1>9 DEF Crash
<1>10. CASE UNCHANGED vars
  BY <1>10 DEF vars
<1>11. CASE \E t \in Ticks : TickStep(t)
  <2>1. PICK t \in Ticks : TickStep(t)
    BY <1>11
  <2>2. CASE SaveUpdate(t)
    BY <1>3, <2>2
  <2> QED BY <1>2, <1>4, <1>5, <2>1, <2>2
<1>12. CASE \E p \in Payments : Create(p)
  BY <1>1, <1>12, LiteralRows
<1> QED BY <1>6, <1>7, <1>8, <1>9, <1>10, <1>11, <1>12 DEF Next

\* On one instance a payment that reached a final status keeps it.
THEOREM FinalIsStable == SingleInstance => (Spec => TerminalStable)
<1> SUFFICES ASSUME SingleInstance PROVE Spec => TerminalStable
  OBVIOUS
<1>1. ASSUME MonitorInv, [Next]_vars
      PROVE  \A p \in Payments :
                row[p].status \in Final => row'[p].status = row[p].status
  <2>1. ASSUME NEW p \in Payments, NEW q \in Payments, NEW r \in Row,
               row[p].status \in Final, row' = [row EXCEPT ![q] = r],
               \/ r.status = row[q].status
               \/ r.status \in Lifecycle!Successors(row[q].status)
        PROVE  row'[p].status = row[p].status
    <3>1. row \in [Payments -> Row]
      BY <1>1 DEF MonitorInv, TypeOK
    <3>2. Lifecycle!Successors(row[p].status) = {}
      BY <2>1 DEF Final, Lifecycle!Successors, Lifecycle!Final
    <3> QED BY <2>1, <3>1, <3>2
  <2>2. CASE UNCHANGED row
    BY <2>2
  <2> QED BY <1>1, <2>1, <2>2, LifecycleStep
<1> QED BY <1>1, MonitorInvariant, PTL DEF Spec, TerminalStable

\* On one instance the monitor implements the life cycle of a payment.
THEOREM MonitorImplementsLifecycle == SingleInstance => (Spec => ImplementsLifecycle)
<1> SUFFICES ASSUME SingleInstance PROVE Spec => ImplementsLifecycle
  OBVIOUS
<1> DEFINE st == [p \in Payments |-> row[p].status]
<1>1. Init => Lifecycle!Init
  BY DEF Init, Lifecycle!Init, NoRow
<1>2. ASSUME MonitorInv, [Next]_vars
      PROVE  [Lifecycle!Next]_(Lifecycle!vars)
  <2> USE DEF MonitorInv, TypeOK
  <2>1. CASE UNCHANGED <<row, confirmedEvents>>
    BY <2>1 DEF Lifecycle!vars
  <2>2. ASSUME UNCHANGED confirmedEvents, NEW p \in Payments, NEW r \in Row,
               row' = [row EXCEPT ![p] = r],
               \/ r.status = row[p].status
               \/ r.status \in Lifecycle!Successors(row[p].status)
        PROVE  [Lifecycle!Next]_(Lifecycle!vars)
    <3>1. st' = [st EXCEPT ![p] = r.status]
      <4>1. st' = [q \in Payments |-> row'[q].status]
        OBVIOUS
      <4>2. \A q \in Payments :
               row'[q].status = IF q = p THEN r.status ELSE row[q].status
        BY <1>2, <2>2
      <4> QED BY <4>1, <4>2
    <3>2. CASE r.status = row[p].status
      <4>1. st' = st
        BY <2>2, <3>2
      <4> QED BY <2>2, <4>1 DEF Lifecycle!vars
    <3>3. CASE r.status \in Lifecycle!Successors(row[p].status)
      <4>1. st[p] = row[p].status
        OBVIOUS
      <4>2. Lifecycle!Advance(p)
        BY <2>2, <3>1, <3>3, <4>1 DEF Lifecycle!Advance
      <4> QED BY <4>2 DEF Lifecycle!Next
    <3> QED BY <2>2, <3>2, <3>3
  <2>3. ASSUME UNCHANGED row, NEW p \in Payments, row[p].status = "confirmed",
               confirmedEvents[p] = 0,
               confirmedEvents' = [confirmedEvents EXCEPT ![p] = 1]
        PROVE  [Lifecycle!Next]_(Lifecycle!vars)
    <3>1. Lifecycle!Announce(p)
      BY <2>3 DEF Lifecycle!Announce
    <3> QED BY <3>1 DEF Lifecycle!Next
  <2> QED BY <1>2, <2>1, <2>2, <2>3, LifecycleStep
<1> QED
  BY <1>1, <1>2, MonitorInvariant, PTL DEF Spec, ImplementsLifecycle, Lifecycle!Spec

-----------------------------------------------------------------------------
(* The writers of the payments table together.                             *)

LinkValue == Batches \cup {NoBatch}

\* What PaymentSystem adds to the variables of the monitor.
SystemTypes ==
    /\ link \in [Payments -> LinkValue]
    /\ linkSnap \in [Ticks -> [Payments -> LinkValue]]
    /\ linkEnt \in [Ticks -> LinkValue]
    /\ bpc \in [Batches -> {"new"} \cup Settle!Working \cup Settle!Ended]
    /\ btodo \in [Batches -> SUBSET Payments]
    /\ held \in [Batches -> [Payments -> Row]]
    /\ simPc \in [Sims -> {"new", "write", "notify", "done"}]
    /\ simOn \in [Sims -> Payments \cup {NoPayment}]
    /\ simEnt \in [Sims -> Row]
    /\ simLink \in [Sims -> LinkValue]
    /\ pushed \in [Payments -> Status]
    /\ crossed \subseteq Payments
    /\ contested \subseteq Payments

\* A simulation that has begun is about a test payment it found.
SimOK ==
    \A s \in Sims :
        IF simPc[s] = "new" THEN simOn[s] = NoPayment
        ELSE simOn[s] \in Payments \cap Test /\ simEnt[s].status # "none"

Shapes == TypeOK /\ LocalOK /\ TickExclusion /\ SystemTypes /\ SimOK

-----------------------------------------------------------------------------
(* Steps of the system and of the monitor.                                 *)

LEMMA MonitorIsNext == ASSUME Monitor PROVE Next
<1>1. ASSUME NEW t \in Ticks,
             \/ QueryLinks(t) \/ MarkWhole(t) \/ ReadWhole(t)
             \/ SaveWhole(t) \/ NotifyRooms(t)
      PROVE  TickStep(t)
  BY <1>1 DEF QueryLinks, MarkWhole, ReadWhole, SaveWhole, NotifyRooms, TickStep
<1>2. ASSUME NEW t \in Ticks,
             \/ StartTick(t) \/ FetchWithoutEffect(t) \/ FetchMatch(t)
             \/ QueryOverdue(t) \/ FinishTick(t)
      PROVE  TickStep(t)
  BY <1>2 DEF TickStep
<1>3. QED
  BY <1>1, <1>2 DEF Monitor, Next

\* The others leave the ticks alone, and keep the type of a row.
LEMMA OthersLeaveTicks ==
    ASSUME Shapes, Settlement \/ Sandbox
    PROVE  /\ UNCHANGED <<overdue, chainVars, isChecking, tickVars, crashes, dbErrors>>
           /\ row' \in [Payments -> Row]
           /\ confirmedEvents' \in [Payments -> Nat]
<1> USE DEF Shapes, TypeOK, SystemTypes
<1>1. CASE UNCHANGED vars
  BY <1>1 DEF vars
<1>2. ASSUME NEW b \in Batches, LinkWhole(b)
      PROVE  /\ UNCHANGED <<overdue, chainVars, isChecking, tickVars, crashes, dbErrors>>
             /\ row' \in [Payments -> Row]
             /\ UNCHANGED confirmedEvents
  BY <1>2 DEF LinkWhole
<1>3. ASSUME NEW s \in Sims, SimSave(s) \/ SimNotify(s)
      PROVE  /\ UNCHANGED <<overdue, chainVars, isChecking, tickVars, crashes, dbErrors>>
             /\ row' \in [Payments -> Row]
             /\ confirmedEvents' \in [Payments -> Nat]
  <2>1. CASE SimSave(s)
    BY <2>1 DEF SimSave
  <2>2. CASE SimNotify(s)
    <3>1. \A p \in Payments : confirmedEvents[p] + 1 \in Nat
      OBVIOUS
    <3>2. confirmedEvents' \in [Payments -> Nat]
      BY <2>2, <3>1 DEF SimNotify
    <3>3. QED
      BY <2>2, <3>2 DEF SimNotify
  <2>3. QED
    BY <1>3, <2>1, <2>2
<1>4. CASE Settlement
  BY <1>1, <1>2, <1>4 DEF Settlement, HoldRows
<1>5. CASE Sandbox
  BY <1>1, <1>3, <1>5 DEF Sandbox, SimRead
<1>6. QED
  BY <1>4, <1>5

LEMMA TicksStay ==
    ASSUME Shapes, [SystemNext]_systemVars
    PROVE  TypeOK' /\ LocalOK' /\ TickExclusion'
<1> USE DEF Shapes
<1>1. CASE [Next]_vars
  BY <1>1, TypeStep, LocalStep, ExclusionStep
<1>2. CASE Settlement \/ Sandbox
  <2>1. /\ UNCHANGED <<overdue, chainVars, isChecking, tickVars, crashes, dbErrors>>
        /\ row' \in [Payments -> Row]
        /\ confirmedEvents' \in [Payments -> Nat]
    BY <1>2, OthersLeaveTicks
  <2>2. TypeOK'
    BY <2>1 DEF TypeOK, tickVars, chainVars
  <2>3. LocalOK'
    BY <2>1 DEF LocalOK, PhaseOK, CursorOK, tickVars
  <2>4. TickExclusion'
    BY <2>1 DEF TickExclusion, tickVars
  <2>5. QED
    BY <2>2, <2>3, <2>4
<1>3. QED
  BY <1>1, <1>2, MonitorIsNext DEF SystemNext, systemVars

\* A simulation's entity is a row whose status was asked for.
LEMMA SimulatedRow ==
    ASSUME NEW p \in Payments, row[p] \in Row, NEW status \in Simulated,
           NEW u, u = [status |-> status, tx |-> MockTx,
                       conf |-> IF status = "confirmed" THEN Required[p] ELSE 1]
    PROVE  /\ Apply(row[p], u) \in Row
           /\ Apply(row[p], u).status \in Status \ {"none"}
<1>1. Required[p] \in Nat /\ MockTx \in Txs /\ status \in Status \ {"none"}
  BY ConstantsOK, SystemConstants
<1>2. u \in Row
  BY <1>1 DEF Row
<1>3. Apply(row[p], u).status = u.status
  BY DEF Apply
<1>4. QED
  BY <1>1, <1>2, <1>3, ApplyType

LEMMA MonitorTypes ==
    ASSUME Shapes, Monitor
    PROVE  /\ link' \in [Payments -> LinkValue]
           /\ linkSnap' \in [Ticks -> [Payments -> LinkValue]]
           /\ linkEnt' \in [Ticks -> LinkValue]
           /\ pushed' \in [Payments -> Status]
<1> DEFINE Goal == /\ link' \in [Payments -> LinkValue]
                   /\ linkSnap' \in [Ticks -> [Payments -> LinkValue]]
                   /\ linkEnt' \in [Ticks -> LinkValue]
                   /\ pushed' \in [Payments -> Status]
<1> USE DEF Shapes, TypeOK, SystemTypes, linkCopies
<1>1. ASSUME NEW t \in Ticks, QueryLinks(t) PROVE Goal
  <2> DEFINE Copies == [p \in Payments |-> IF p \in todo'[t] THEN link[p] ELSE NoBatch]
  <2>1. Copies \in [Payments -> LinkValue]
    BY DEF LinkValue
  <2>2. /\ linkSnap' = [linkSnap EXCEPT ![t] = Copies]
        /\ UNCHANGED <<link, linkEnt, pushed>>
    BY <1>1 DEF QueryLinks
  <2> HIDE DEF Copies
  <2>3. QED
    BY <2>1, <2>2
<1>2. ASSUME NEW t \in Ticks, MarkWhole(t) PROVE Goal
  <2>1. PICK p \in todo[t] : cur' = [cur EXCEPT ![t] = p]
    BY <1>2 DEF MarkWhole, MarkChecked
  <2>2. cur'[t] = p /\ p \in Payments
    BY <2>1
  <2>3. link' = [link EXCEPT ![cur'[t]] = linkSnap[t][cur'[t]]]
    BY <1>2 DEF MarkWhole
  <2>4. link' = [link EXCEPT ![p] = linkSnap[t][p]]
    BY <2>2, <2>3
  <2>5. QED
    BY <1>2, <2>2, <2>4 DEF MarkWhole
<1>3. ASSUME NEW t \in Ticks, ReadWhole(t) PROVE Goal
  <2>1. cur'[t] \in Payments
    <3>1. CASE ReadForUpdate(t)
      BY <3>1 DEF ReadForUpdate, LocalOK, CursorOK
    <3>2. CASE ReadForExpiry(t)
      BY <3>2 DEF ReadForExpiry
    <3>3. QED
      BY <1>3, <3>1, <3>2 DEF ReadWhole
  <2>2. QED
    BY <1>3, <2>1 DEF ReadWhole
<1>4. ASSUME NEW t \in Ticks, SaveWhole(t) PROVE Goal
  BY <1>4 DEF SaveWhole
<1>5. ASSUME NEW t \in Ticks, NotifyRooms(t) PROVE Goal
  <2>1. ent[t].status \in Status
    BY DEF Row
  <2>2. QED
    BY <1>5, <2>1 DEF NotifyRooms, Payload
<1>6. CASE UNCHANGED <<link, linkCopies, pushed>>
  BY <1>6
<1>7. QED
  BY <1>1, <1>2, <1>3, <1>4, <1>5, <1>6 DEF Monitor

LEMMA SystemTypesStay ==
    ASSUME Shapes, [SystemNext]_systemVars
    PROVE  SystemTypes'
<1> USE DEF Shapes, TypeOK, SystemTypes
<1>1. CASE Monitor
  BY <1>1, MonitorTypes DEF Monitor, batchVars, simVars
<1>2. ASSUME NEW b \in Batches, HoldRows(b) \/ LinkWhole(b),
             UNCHANGED <<linkCopies, simVars, pushed, crossed>>
      PROVE  SystemTypes'
  <2>1. CASE HoldRows(b)
    <3> DEFINE Copies == [p \in Payments |-> IF p \in btodo'[b] THEN row[p] ELSE NoRow]
    <3>1. Settle!Unsettled(b) \subseteq Payments
      BY DEF Settle!Unsettled
    <3>2. Copies \in [Payments -> Row]
      BY DEF Row, NoRow, Status
    <3>3. held' = [held EXCEPT ![b] = Copies]
      BY <2>1 DEF HoldRows
    <3>4. held' \in [Batches -> [Payments -> Row]]
      <4> HIDE DEF Copies
      <4> QED BY <3>2, <3>3
    <3> HIDE DEF Copies
    <3>5. QED
      BY <1>2, <2>1, <3>1, <3>4
      DEF HoldRows, Settle!QueryUnsettled, Settle!GoTo, Settle!tables,
          Settle!Working, Settle!outside, Settle!faults, linkCopies, simVars
  <2>2. CASE LinkWhole(b)
    BY <1>2, <2>2 DEF LinkWhole, Settle!Working, LinkValue, linkCopies, simVars
  <2>3. QED
    BY <1>2, <2>1, <2>2
<1>3. ASSUME NEW b \in Batches, UNCHANGED <<vars, held>>,
             \/ Settle!Ask(b) \/ Settle!Refuse(b) \/ Settle!Insert(b)
             \/ Settle!ExecutePayout(b) \/ Settle!RecordPayout(b)
             \/ Settle!Announce(b),
             UNCHANGED <<linkCopies, simVars, pushed, crossed>>
      PROVE  SystemTypes'
  <2>1. /\ UNCHANGED <<link, btodo, contested>>
        /\ bpc' \in [Batches -> {"new"} \cup Settle!Working \cup Settle!Ended]
    BY <1>3
    DEF Settle!Ask, Settle!Refuse, Settle!Insert, Settle!ExecutePayout,
        Settle!RecordPayout, Settle!Announce, Settle!GoTo, Settle!tables,
        Settle!Working, Settle!Ended
  <2>2. QED
    BY <1>3, <2>1 DEF linkCopies, simVars
<1>4. ASSUME NEW s \in Sims, SimRead(s), UNCHANGED <<linkCopies, batchVars>>
      PROVE  SystemTypes'
  <2>1. PICK p \in Payments, status \in Simulated :
          /\ simOn' = [simOn EXCEPT ![s] = p]
          /\ simLink' = [simLink EXCEPT ![s] = link[p]]
          /\ simEnt' = [simEnt EXCEPT ![s] = Apply(row[p],
                 [status |-> status, tx |-> MockTx,
                  conf |-> IF status = "confirmed" THEN Required[p] ELSE 1])]
    BY <1>4 DEF SimRead
  <2>2. simEnt' \in [Sims -> Row]
    BY <2>1, SimulatedRow
  <2>3. QED
    BY <1>4, <2>1, <2>2 DEF SimRead, linkCopies, batchVars
<1>5. ASSUME NEW s \in Sims, SimSave(s), UNCHANGED <<linkCopies, batchVars>>
      PROVE  SystemTypes'
  <2>1. simOn[s] \in Payments
    BY <1>5 DEF SimSave, SimOK
  <2>2. crossed' \subseteq Payments
    BY <1>5, <2>1 DEF SimSave
  <2>3. QED
    BY <1>5, <2>1, <2>2 DEF SimSave, linkCopies, batchVars
<1>6. ASSUME NEW s \in Sims, SimNotify(s), UNCHANGED <<linkCopies, batchVars>>
      PROVE  SystemTypes'
  <2>1. simOn[s] \in Payments
    BY <1>6 DEF SimNotify, SimOK
  <2>2. crossed' \subseteq Payments
    BY <1>6, <2>1 DEF SimNotify
  <2>3. simEnt[s].status \in Status
    BY DEF Row
  <2>4. QED
    BY <1>6, <2>1, <2>2, <2>3 DEF SimNotify, linkCopies, batchVars
<1>7. CASE UNCHANGED systemVars
  BY <1>7 DEF systemVars, linkCopies, batchVars, simVars
<1>8. CASE Settlement
  BY <1>2, <1>3, <1>8 DEF Settlement
<1>9. CASE Sandbox
  BY <1>4, <1>5, <1>6, <1>9 DEF Sandbox
<1>10. QED
  BY <1>1, <1>7, <1>8, <1>9 DEF SystemNext

LEMMA SimStays ==
    ASSUME Shapes, [SystemNext]_systemVars
    PROVE  SimOK'
<1> USE DEF Shapes, TypeOK, SystemTypes
<1>1. CASE UNCHANGED simVars
  BY <1>1 DEF SimOK, simVars
<1>2. ASSUME NEW s \in Sims, SimRead(s) PROVE SimOK'
  <2>1. PICK p \in Payments, status \in Simulated :
          /\ MaySimulate(p)
          /\ simOn' = [simOn EXCEPT ![s] = p]
          /\ simEnt' = [simEnt EXCEPT ![s] = Apply(row[p],
                 [status |-> status, tx |-> MockTx,
                  conf |-> IF status = "confirmed" THEN Required[p] ELSE 1])]
    BY <1>2 DEF SimRead
  <2>2. simEnt'[s].status # "none" /\ simOn'[s] = p /\ p \in Test
    BY <2>1, SimulatedRow DEF MaySimulate
  <2>3. QED
    BY <1>2, <2>1, <2>2 DEF SimRead, SimOK
<1>3. ASSUME NEW s \in Sims, SimSave(s) \/ SimNotify(s) PROVE SimOK'
  BY <1>3 DEF SimSave, SimNotify, SimOK
<1>4. QED
  BY <1>1, <1>2, <1>3
  DEF SystemNext, Monitor, Settlement, Sandbox, systemVars

LEMMA ShapesStay ==
    ASSUME Shapes, [SystemNext]_systemVars
    PROVE  Shapes'
BY TicksStay, SystemTypesStay, SimStays DEF Shapes

-----------------------------------------------------------------------------
(* What the copies are worth, where no simulation met another writer.      *)

\* The copies of tick t equal the rows, which are open; what it has saved and
\* not told yet is still stored.
RowsHold(t) ==
    /\ pc[t] \in {"mark", "fetch", "read", "write", "notify"} /\ phase[t] = "check"
          => \A p \in Payments \ crossed :
                Ahead(t, p) => snap[t][p] = row[p] /\ row[p].status \in Open
    /\ pc[t] \in {"expire", "write", "notify"} /\ phase[t] = "expire"
          => \A p \in Payments \ crossed :
                Ahead(t, p) => row[p].status \in {"pending", "detected"}
    /\ pc[t] = "read" => upd[t].status # "none"
    /\ pc[t] = "write" => ent[t].status # "none"
    /\ pc[t] = "notify" /\ cur[t] \notin crossed
          => row[cur[t]] = ent[t] /\ ent[t].status # "none"

\* The rows a batch has still to link are those it read, and confirmed.
BatchesHold ==
    \A b \in Batches : \A p \in btodo[b] \ crossed :
        held[b][p] = row[p] /\ row[p].status = "confirmed"

\* Of a payment that is not there nothing was pushed.
NewIsPending ==
    \A p \in Payments \ crossed : row[p].status = "none" => pushed[p] = "pending"

PushInv ==
    /\ Shapes
    /\ \A t \in Ticks : RowsHold(t)
    /\ BatchesHold
    /\ NewIsPending
    /\ PushedIsStored

LEMMA IdleHolds ==
    ASSUME NEW t \in Ticks, pc'[t] \in {"idle", "query", "sweep", "finish"}
    PROVE  RowsHold(t)'
BY DEF RowsHold

\* A payment that is ahead of a tick is open, and in no batch.
LEMMA AheadIsOpen ==
    ASSUME PushInv, NEW t \in Ticks, NEW p \in Payments \ crossed, Ahead(t, p),
           pc[t] \in {"mark", "fetch", "read", "write", "notify", "expire"}
    PROVE  row[p].status \in Open /\ \A b \in Batches : p \notin btodo[b]
<1> USE DEF PushInv, Shapes, TypeOK
<1>1. phase[t] \in {"check", "expire"} /\ PhaseOK(t)
  BY DEF LocalOK
<1>2. CASE phase[t] = "check"
  <2>1. pc[t] \in {"mark", "fetch", "read", "write", "notify"}
    BY <1>1, <1>2 DEF PhaseOK
  <2>2. row[p].status \in Open
    BY <1>2, <2>1 DEF RowsHold
  <2>3. QED
    BY <2>2 DEF BatchesHold, Open
<1>3. CASE phase[t] = "expire"
  <2>1. pc[t] \in {"expire", "write", "notify"}
    BY <1>1, <1>3 DEF PhaseOK
  <2>2. row[p].status \in {"pending", "detected"}
    BY <1>3, <2>1 DEF RowsHold
  <2>3. QED
    BY <2>2 DEF BatchesHold, Open
<1>4. QED
  BY <1>1, <1>2, <1>3

\* A payment whose row is not there is in no tick's hands.
LEMMA NoneIsFree ==
    ASSUME PushInv, NEW t \in Ticks, NEW p \in Payments \ crossed, p \in todo[t],
           pc[t] \in {"mark", "fetch", "read", "write", "notify", "expire"}
    PROVE  row[p].status # "none"
<1>1. CASE Ahead(t, p)
  BY <1>1, AheadIsOpen DEF Open
<1>2. CASE ~Ahead(t, p)
  BY <1>2 DEF Ahead, PushInv, RowsHold
<1>3. QED
  BY <1>1, <1>2

\* Where the rows in a tick's hands do not change, it holds what it held.
LEMMA TickKept ==
    ASSUME PushInv, NEW t \in Ticks, UNCHANGED tickVars, crossed \subseteq crossed',
           \A p \in Payments \ crossed' : p \in todo[t] => row'[p] = row[p]
    PROVE  RowsHold(t)'
<1> USE DEF PushInv, Shapes, TypeOK
<1>1. \A p \in Payments : Ahead(t, p)' <=> Ahead(t, p)
  BY DEF Ahead, tickVars
<1>2. \A p \in Payments : Ahead(t, p) => p \in todo[t]
  BY DEF Ahead
<1>3. pc[t] = "notify" => cur[t] \in todo[t] /\ cur[t] \in Payments
  BY DEF LocalOK, CursorOK
<1>4. RowsHold(t)
  OBVIOUS
<1>5. QED
  BY <1>1, <1>2, <1>3, <1>4 DEF RowsHold, tickVars

\* When the loop leaves a payment behind and no row changes, what it holds of
\* the others does not change either.
LEMMA DoneWithHolds ==
    ASSUME PushInv, NEW t \in Ticks, NEW p \in Payments, DoneWith(t, p),
           pc[t] \in {"fetch", "notify"}, p = cur[t], UNCHANGED <<row, crossed>>
    PROVE  RowsHold(t)'
<1> USE DEF PushInv, Shapes, TypeOK
<1>1. phase'[t] = phase[t] /\ phase[t] \in {"check", "expire"}
  BY DEF DoneWith
<1>2. \A q \in Payments : q \in todo'[t] =>
         Ahead(t, q) /\ snap'[t][q] = snap[t][q]
  BY DEF DoneWith, Ahead
<1>3. CASE phase[t] = "check"
  <2>1. pc'[t] \in {"mark", "sweep"}
    BY <1>3, LoopHeadValues DEF DoneWith
  <2>2. QED
    BY <1>1, <1>2, <1>3, <2>1 DEF RowsHold, Ahead
<1>4. CASE phase[t] = "expire"
  <2>1. pc'[t] \in {"expire", "finish"}
    BY <1>4, LoopHeadValues DEF DoneWith
  <2>2. pc[t] = "notify"
    BY <1>4 DEF LocalOK, PhaseOK
  <2>3. QED
    BY <1>1, <1>2, <1>4, <2>1, <2>2 DEF RowsHold, Ahead
<1>5. QED
  BY <1>1, <1>3, <1>4

\* A step of a tick keeps what it holds true.
LEMMA OwnHolds ==
    ASSUME PushInv, NEW t \in Ticks, TickStep(t), UNCHANGED crossed
    PROVE  RowsHold(t)'
<1> USE DEF PushInv, Shapes, TypeOK
<1>1. CASE StartTick(t)
  BY <1>1, IdleHolds DEF StartTick
<1>2. CASE QueryActive(t)
  <2>1. PICK b \in SUBSET Payments :
          /\ IsBatch(b)
          /\ todo' = [todo EXCEPT ![t] = b]
          /\ snap' = [snap EXCEPT ![t] =
                        [p \in Payments |-> IF p \in b THEN row[p] ELSE NoRow]]
          /\ pc' = [pc EXCEPT ![t] = LoopHead("check", b)]
    BY <1>2 DEF QueryActive
  <2>2. pc'[t] \in {"mark", "sweep"} /\ phase'[t] = "check" /\ UNCHANGED row
    BY <1>2, <2>1, LoopHeadValues DEF QueryActive, LocalOK, PhaseOK
  <2>3. \A p \in b : row[p].status \in Open
    BY <2>1 DEF IsBatch, IsActive, Open
  <2>4. \A p \in Payments : p \in todo'[t] => p \in b /\ snap'[t][p] = row[p]
    BY <2>1
  <2>5. QED
    BY <2>2, <2>3, <2>4 DEF RowsHold, Ahead
<1>3. CASE MarkChecked(t)
  <2>1. PICK p \in todo[t] :
          row' = [row EXCEPT ![p] = snap[t][p]] /\ cur' = [cur EXCEPT ![t] = p]
    BY <1>3 DEF MarkChecked
  <2>2. /\ phase[t] = "check" /\ pc[t] = "mark" /\ pc'[t] = "fetch"
        /\ UNCHANGED <<phase, todo, snap>>
    BY <1>3 DEF MarkChecked, LocalOK, PhaseOK
  <2>3. \A q \in Payments \ crossed : Ahead(t, q) => row'[q] = row[q]
    BY <2>1, <2>2 DEF RowsHold
  <2>4. \A q \in Payments : Ahead(t, q)' => Ahead(t, q)
    BY <2>2 DEF Ahead
  <2>5. QED
    BY <2>2, <2>3, <2>4 DEF RowsHold
<1>4. CASE FetchWithoutEffect(t)
  <2>1. cur[t] \in Payments /\ pc[t] = "fetch" /\ UNCHANGED row
    BY <1>4 DEF FetchWithoutEffect, LocalOK, CursorOK
  <2>2. QED
    BY <1>4, <2>1, DoneWithHolds DEF FetchWithoutEffect
<1>5. CASE FetchMatch(t)
  <2>1. PICK x \in seen \cap Matches[cur[t]] :
          LET v == Verdict(snap[t][cur[t]], depth[x], Required[cur[t]])
          IN  /\ v # "none"
              /\ upd' = [upd EXCEPT ![t] =
                             [status |-> v, tx |-> x, conf |-> depth[x]]]
    BY <1>5 DEF FetchMatch
  <2>2. upd'[t].status # "none"
    BY <2>1
  <2>3. /\ pc[t] = "fetch" /\ pc'[t] = "read" /\ phase[t] = "check"
        /\ UNCHANGED <<row, phase, todo, snap, cur>>
    BY <1>5 DEF FetchMatch, LocalOK, PhaseOK
  <2>4. QED
    BY <2>2, <2>3 DEF RowsHold, Ahead
<1>6. CASE ReadForUpdate(t)
  <2>1. /\ pc[t] = "read" /\ pc'[t] = "write" /\ phase[t] = "check"
        /\ ent'[t] = Apply(row[cur[t]], upd[t])
        /\ UNCHANGED <<row, phase, todo, snap, cur>>
    BY <1>6 DEF ReadForUpdate, LocalOK, PhaseOK
  <2>2. ent'[t].status # "none"
    BY <2>1 DEF RowsHold, Apply
  <2>3. QED
    BY <2>1, <2>2 DEF RowsHold, Ahead
<1>7. CASE SaveUpdate(t)
  <2>1. /\ pc[t] = "write" /\ pc'[t] = "notify" /\ cur[t] \in Payments
        /\ row' = [row EXCEPT ![cur[t]] = ent[t]]
        /\ UNCHANGED <<phase, todo, snap, cur, upd, ent>>
    BY <1>7 DEF SaveUpdate, LocalOK, CursorOK
  <2>2. ent[t].status # "none" /\ row'[cur[t]] = ent[t]
    BY <2>1 DEF RowsHold
  <2>3. \A q \in Payments : Ahead(t, q)' => Ahead(t, q) /\ row'[q] = row[q]
    BY <2>1 DEF Ahead
  <2>4. QED
    BY <2>1, <2>2, <2>3 DEF RowsHold
<1>8. CASE Notify(t)
  <2>1. cur[t] \in Payments /\ pc[t] = "notify" /\ UNCHANGED row
    BY <1>8 DEF Notify, LocalOK, CursorOK
  <2>2. QED
    BY <1>8, <2>1, DoneWithHolds DEF Notify
<1>9. CASE QueryOverdue(t)
  <2> DEFINE b == {p \in Payments : IsOverdue(p)}
  <2>1. /\ todo'[t] = b /\ phase'[t] = "expire" /\ UNCHANGED row
        /\ pc'[t] \in {"expire", "finish"}
    BY <1>9, LoopHeadValues DEF QueryOverdue
  <2>2. \A p \in b : row[p].status \in {"pending", "detected"}
    BY DEF IsOverdue
  <2>3. QED
    BY <2>1, <2>2 DEF RowsHold, Ahead
<1>10. CASE ReadForExpiry(t)
  <2>1. PICK p \in todo[t] :
          /\ cur' = [cur EXCEPT ![t] = p]
          /\ ent' = [ent EXCEPT ![t] = Apply(row[p], ExpiredUpdate)]
    BY <1>10 DEF ReadForExpiry
  <2>2. /\ pc[t] = "expire" /\ phase[t] = "expire" /\ pc'[t] = "write"
        /\ UNCHANGED <<row, phase, todo, snap>>
    BY <1>10 DEF ReadForExpiry, LocalOK, PhaseOK
  <2>3. ent'[t].status # "none"
    BY <2>1 DEF Apply, ExpiredUpdate
  <2>4. QED
    BY <2>2, <2>3 DEF RowsHold, Ahead
<1>11. CASE FinishTick(t)
  BY <1>11, IdleHolds DEF FinishTick, Reset
<1>12. QED
  BY <1>1, <1>2, <1>3, <1>4, <1>5, <1>6, <1>7, <1>8, <1>9, <1>10, <1>11 DEF TickStep

\* On one instance a step of one tick keeps what every tick holds.
LEMMA AllHold ==
    ASSUME SingleInstance, PushInv, NEW t \in Ticks, TickStep(t), UNCHANGED crossed
    PROVE  \A u \in Ticks : RowsHold(u)'
<1> USE DEF PushInv, Shapes
<1>1. ASSUME NEW u \in Ticks, u # t PROVE RowsHold(u)'
  <2>1. pc'[u] = pc[u]
    BY <1>1, MiddleStep DEF TickStep, StartTick, FinishTick, Reset, TypeOK
  <2>2. CASE pc[t] # "idle"
    <3>1. pc[u] = "idle"
      BY <1>1, <2>2, OneTick
    <3>2. QED
      BY <2>1, <3>1, IdleHolds
  <2>3. CASE pc[t] = "idle"
    <3>1. CanStart(t)
      BY <2>3, MiddleStep DEF TickStep, StartTick, FinishTick
    <3>2. pc[u] = "idle"
      BY <3>1, ConstantsOK DEF CanStart, TickExclusion, SingleInstance
    <3>3. QED
      BY <2>1, <3>2, IdleHolds
  <2>4. QED
    BY <2>2, <2>3
<1>2. QED
  BY <1>1, OwnHolds

\* The rows a tick writes: only SaveUpdate changes one, of an open payment.
LEMMA RowsWritten ==
    ASSUME PushInv, NEW t \in Ticks, TickStep(t), NEW p \in Payments \ crossed
    PROVE  \/ row'[p] = row[p]
           \/ /\ SaveUpdate(t) /\ p = cur[t] /\ row[p].status \in Open
              /\ row'[p] = ent[t] /\ ent[t].status # "none"
              /\ \A b \in Batches : p \notin btodo[b]
<1> USE DEF PushInv, Shapes, TypeOK
<1>1. CASE MarkChecked(t)
  <2>1. PICK q \in todo[t] : row' = [row EXCEPT ![q] = snap[t][q]]
    BY <1>1 DEF MarkChecked
  <2>2. pc[t] = "mark" /\ phase[t] = "check"
    BY <1>1 DEF MarkChecked, LocalOK, PhaseOK
  <2>3. q = p => snap[t][p] = row[p]
    BY <2>1, <2>2 DEF RowsHold, Ahead
  <2>4. QED
    BY <2>1, <2>3
<1>2. CASE SaveUpdate(t)
  <2>1. /\ pc[t] = "write" /\ cur[t] \in todo[t] /\ cur[t] \in Payments
        /\ row' = [row EXCEPT ![cur[t]] = ent[t]]
    BY <1>2 DEF SaveUpdate, LocalOK, CursorOK
  <2>2. CASE p = cur[t]
    <3>1. Ahead(t, p)
      BY <2>1, <2>2 DEF Ahead
    <3>2. row[p].status \in Open /\ \A b \in Batches : p \notin btodo[b]
      BY <2>1, <3>1, AheadIsOpen
    <3>3. ent[t].status # "none"
      BY <2>1 DEF RowsHold
    <3>4. QED
      BY <1>2, <2>1, <2>2, <3>2, <3>3
  <2>3. CASE p # cur[t]
    BY <2>1, <2>3
  <2>4. QED
    BY <2>2, <2>3
<1>3. CASE UNCHANGED row
  BY <1>3
<1>4. QED
  BY <1>1, <1>2, <1>3
  DEF TickStep, StartTick, QueryActive, FetchWithoutEffect, FetchMatch,
      ReadForUpdate, Notify, QueryOverdue, ReadForExpiry, FinishTick

-----------------------------------------------------------------------------
(* Clients are told what is stored.                                        *)

\* Someone is just about to tell the clients who watch p.
Announcing(p) ==
    \/ \E t \in Ticks : pc[t] = "notify" /\ cur[t] = p
    \/ \E s \in Sims : simPc[s] = "notify" /\ simOn[s] = p

Stored == BatchesHold /\ NewIsPending /\ PushedIsStored

\* A step that writes no row and tells nobody keeps what is stored and pushed.
LEMMA StoreKept ==
    ASSUME PushInv, crossed \subseteq crossed',
           \A p \in Payments \ crossed' :
              /\ row'[p] = row[p] /\ pushed'[p] = pushed[p]
              /\ Announcing(p) => Announcing(p)',
           \A b \in Batches : \A p \in btodo'[b] :
              p \in btodo[b] /\ held'[b][p] = held[b][p]
    PROVE  Stored'
<1> USE DEF PushInv, Shapes
<1>1. BatchesHold'
  <2>1. SUFFICES ASSUME NEW b \in Batches, NEW p \in btodo'[b] \ crossed'
                 PROVE  held'[b][p] = row'[p] /\ row'[p].status = "confirmed"
    BY DEF BatchesHold
  <2>2. p \in btodo[b] /\ p \notin crossed /\ p \in Payments
    BY DEF SystemTypes
  <2>3. held[b][p] = row[p] /\ row[p].status = "confirmed"
    BY <2>2 DEF BatchesHold
  <2>4. QED
    BY <2>1, <2>2, <2>3
<1>2. NewIsPending'
  BY DEF NewIsPending
<1>3. PushedIsStored'
  <2>1. SUFFICES ASSUME NEW p \in Payments \ crossed'
                 PROVE  row'[p].status \in {"none", pushed'[p]} \/ Announcing(p)'
    BY DEF PushedIsStored, Announcing
  <2>2. row[p].status \in {"none", pushed[p]} \/ Announcing(p)
    BY DEF PushedIsStored, Announcing
  <2>3. QED
    BY <2>1, <2>2
<1>4. QED
  BY <1>1, <1>2, <1>3 DEF Stored

\* A tick step that is not a notification leaves the announcers there are.
LEMMA StillAnnouncing ==
    ASSUME PushInv, NEW t \in Ticks, TickStep(t), UNCHANGED <<simPc, simOn>>,
           NEW p \in Payments, Notify(t) => p # cur[t], Announcing(p)
    PROVE  Announcing(p)'
<1> USE DEF PushInv, Shapes, TypeOK
<1>1. ASSUME NEW u \in Ticks, pc[u] = "notify", cur[u] = p PROVE Announcing(p)'
  <2>1. CASE u = t
    <3>1. ~Notify(t)
      BY <1>1, <2>1
    <3>2. FALSE
      BY <1>1, <2>1, <3>1
      DEF TickStep, StartTick, QueryActive, MarkChecked, FetchWithoutEffect,
          FetchMatch, ReadForUpdate, SaveUpdate, QueryOverdue, ReadForExpiry,
          FinishTick
    <3>3. QED
      BY <3>2
  <2>2. CASE u # t
    <3>1. pc'[u] = pc[u] /\ cur'[u] = cur[u]
      BY <2>2
      DEF TickStep, StartTick, QueryActive, MarkChecked, FetchWithoutEffect,
          FetchMatch, ReadForUpdate, SaveUpdate, Notify, QueryOverdue,
          ReadForExpiry, FinishTick, DoneWith, Reset
    <3>2. QED
      BY <1>1, <3>1 DEF Announcing
  <2>3. QED
    BY <2>1, <2>2
<1>2. QED
  BY <1>1 DEF Announcing

LEMMA MonitorPushes ==
    ASSUME SingleInstance, PushInv, Monitor
    PROVE  Stored' /\ \A u \in Ticks : RowsHold(u)'
<1> DEFINE Goal == Stored' /\ \A u \in Ticks : RowsHold(u)'
<1> USE DEF PushInv, Shapes
<1>0. UNCHANGED <<batchVars, simVars, crossed>>
  BY DEF Monitor
<1>1. ASSUME NEW t \in Ticks, TickStep(t), ~SaveUpdate(t), ~Notify(t),
             UNCHANGED pushed
      PROVE  Goal
  <2>1. \A p \in Payments \ crossed : row'[p] = row[p]
    BY <1>1, RowsWritten
  <2>2. \A p \in Payments : Announcing(p) => Announcing(p)'
    BY <1>0, <1>1, StillAnnouncing DEF simVars
  <2>3. Stored'
    BY <1>0, <1>1, <2>1, <2>2, StoreKept DEF batchVars
  <2>4. QED
    BY <1>0, <1>1, <2>3, AllHold
<1>2. ASSUME NEW t \in Ticks, SaveWhole(t) PROVE Goal
  <2>1. /\ SaveUpdate(t) /\ TickStep(t) /\ UNCHANGED pushed
        /\ pc[t] = "write" /\ pc'[t] = "notify" /\ cur' = cur
    BY <1>2 DEF SaveWhole, SaveUpdate, TickStep, TypeOK
  <2>2. \A p \in Payments \ crossed :
           \/ row'[p] = row[p]
           \/ /\ p = cur[t] /\ row'[p] = ent[t] /\ ent[t].status # "none"
              /\ \A b \in Batches : p \notin btodo[b]
    BY <2>1, RowsWritten
  <2>3. Announcing(cur[t])'
    BY <2>1 DEF Announcing
  <2>4. ~Notify(t)
    BY <2>1 DEF Notify
  <2>5. \A p \in Payments : Announcing(p) => Announcing(p)'
    BY <1>0, <2>1, <2>4, StillAnnouncing DEF simVars
  <2>6. BatchesHold'
    BY <1>0, <2>2 DEF BatchesHold, batchVars, SystemTypes
  <2>7. NewIsPending'
    BY <1>0, <2>1, <2>2 DEF NewIsPending
  <2>8. PushedIsStored'
    <3>1. SUFFICES ASSUME NEW p \in Payments \ crossed
                   PROVE  row'[p].status \in {"none", pushed'[p]} \/ Announcing(p)'
      BY <1>0 DEF PushedIsStored, Announcing
    <3>2. row[p].status \in {"none", pushed[p]} \/ Announcing(p)
      BY DEF PushedIsStored, Announcing
    <3>3. QED
      BY <2>1, <2>2, <2>3, <2>5, <3>2
  <2>9. QED
    BY <1>0, <2>1, <2>6, <2>7, <2>8, AllHold DEF Stored
<1>3. ASSUME NEW t \in Ticks, NotifyRooms(t) PROVE Goal
  <2>1. /\ Notify(t) /\ TickStep(t) /\ pc[t] = "notify" /\ UNCHANGED row
        /\ cur[t] \in Payments /\ pushed' = [pushed EXCEPT ![cur[t]] = ent[t].status]
    BY <1>3 DEF NotifyRooms, Notify, Payload, TickStep, TypeOK, LocalOK, CursorOK
  <2>2. cur[t] \notin crossed =>
           /\ row[cur[t]].status # "none"
           /\ pushed'[cur[t]] = row[cur[t]].status
    BY <2>1 DEF RowsHold, SystemTypes
  <2>3. \A p \in Payments : p # cur[t] => pushed'[p] = pushed[p]
    BY <2>1 DEF SystemTypes
  <2>4. BatchesHold'
    BY <1>0, <2>1 DEF BatchesHold, batchVars
  <2>5. NewIsPending'
    BY <1>0, <2>1, <2>2, <2>3 DEF NewIsPending
  <2>6. PushedIsStored'
    <3>1. SUFFICES ASSUME NEW p \in Payments \ crossed
                   PROVE  row'[p].status \in {"none", pushed'[p]} \/ Announcing(p)'
      BY <1>0 DEF PushedIsStored, Announcing
    <3>2. row[p].status \in {"none", pushed[p]} \/ Announcing(p)
      BY DEF PushedIsStored, Announcing
    <3>3. p # cur[t] /\ Announcing(p) => Announcing(p)'
      BY <1>0, <2>1, StillAnnouncing DEF simVars
    <3>4. QED
      BY <2>1, <2>2, <2>3, <3>2, <3>3
  <2>7. QED
    BY <1>0, <2>1, <2>4, <2>5, <2>6, AllHold DEF Stored
<1>4. ASSUME UNCHANGED <<tickVars, row, pushed>> PROVE Goal
  <2>1. \A p \in Payments : Announcing(p) => Announcing(p)'
    BY <1>0, <1>4 DEF Announcing, tickVars, simVars
  <2>2. Stored'
    BY <1>0, <1>4, <2>1, StoreKept DEF batchVars
  <2>3. QED
    BY <1>0, <1>4, <2>2, TickKept
<1>5. ASSUME NEW p \in Payments, Create(p), UNCHANGED pushed PROVE Goal
  <2>1. /\ row[p].status = "none" /\ UNCHANGED tickVars
        /\ row' = [row EXCEPT ![p] = NewRow]
    BY <1>5 DEF Create
  <2>2. p \notin crossed => \A b \in Batches : p \notin btodo[b]
    BY <2>1 DEF BatchesHold
  <2>3. BatchesHold'
    BY <1>0, <2>1, <2>2 DEF BatchesHold, batchVars, SystemTypes, TypeOK
  <2>4. row'[p].status = "pending" /\ \A q \in Payments : q # p => row'[q] = row[q]
    BY <2>1 DEF NewRow, TypeOK
  <2>5. NewIsPending'
    BY <1>0, <1>5, <2>4 DEF NewIsPending
  <2>6. PushedIsStored'
    <3>1. p \notin crossed => pushed[p] = "pending"
      BY <2>1 DEF NewIsPending
    <3>2. QED
      BY <1>0, <1>5, <2>1, <2>4, <3>1 DEF PushedIsStored, tickVars, simVars
  <2>7. ASSUME NEW u \in Ticks PROVE RowsHold(u)'
    <3>1. CASE pc[u] \in {"idle", "query", "sweep", "finish"}
      BY <2>1, <3>1, IdleHolds DEF tickVars
    <3>2. CASE pc[u] \in {"mark", "fetch", "read", "write", "notify", "expire"}
      <4>1. p \in todo[u] => p \in crossed
        BY <2>1, <3>2, NoneIsFree
      <4>2. QED
        BY <1>0, <2>1, <2>4, <4>1, TickKept
    <3>3. QED
      BY <3>1, <3>2 DEF TypeOK, PcValues
  <2>8. QED
    BY <2>3, <2>5, <2>6, <2>7 DEF Stored
<1>6. ASSUME NEW t \in Ticks, QueryLinks(t) \/ MarkWhole(t) \/ ReadWhole(t)
      PROVE  Goal
  <2>1. /\ TickStep(t) /\ UNCHANGED pushed
        /\ pc[t] \in {"query", "mark", "read", "expire"}
    BY <1>6 DEF QueryLinks, MarkWhole, ReadWhole, TickStep, QueryActive,
                MarkChecked, ReadForUpdate, ReadForExpiry
  <2>2. ~SaveUpdate(t) /\ ~Notify(t)
    BY <2>1 DEF SaveUpdate, Notify
  <2>3. QED
    BY <1>1, <2>1, <2>2
<1>7. ASSUME NEW t \in Ticks, UNCHANGED pushed,
             \/ StartTick(t) \/ FetchWithoutEffect(t) \/ FetchMatch(t)
             \/ QueryOverdue(t) \/ FinishTick(t)
      PROVE  Goal
  <2>1. TickStep(t) /\ pc[t] \in {"idle", "fetch", "sweep", "finish"}
    BY <1>7 DEF TickStep, StartTick, FetchWithoutEffect, FetchMatch,
                QueryOverdue, FinishTick
  <2>2. ~SaveUpdate(t) /\ ~Notify(t)
    BY <2>1 DEF SaveUpdate, Notify
  <2>3. QED
    BY <1>1, <1>7, <2>1, <2>2
<1>8. ASSUME NEW p \in Payments, PassExpiry(p), UNCHANGED pushed PROVE Goal
  BY <1>4, <1>8 DEF PassExpiry
<1>9. ASSUME NEW x \in Txs, Broadcast(x) \/ Bury(x) \/ Reorg(x), UNCHANGED pushed
      PROVE  Goal
  BY <1>4, <1>9 DEF Broadcast, Bury, Reorg
<1>10. QED
  BY <1>2, <1>3, <1>5, <1>6, <1>7, <1>8, <1>9 DEF Monitor

\* What a batch does to the rows and the payments it holds.
LEMMA SettlementSteps ==
    ASSUME PushInv, Settlement
    PROVE  /\ UNCHANGED <<tickVars, linkCopies, simVars, pushed, crossed>>
           /\ \/ \E b \in Batches : HoldRows(b) /\ UNCHANGED row
              \/ /\ UNCHANGED held
                 /\ \A b \in Batches : btodo'[b] \subseteq btodo[b]
           /\ \A p \in Payments \ crossed : row'[p] = row[p]
<1> USE DEF PushInv, Shapes, SystemTypes
<1>1. UNCHANGED <<linkCopies, simVars, pushed, crossed>>
  BY DEF Settlement
<1>2. ASSUME NEW b \in Batches, LinkWhole(b)
      PROVE  /\ UNCHANGED <<tickVars, held>>
             /\ \A c \in Batches : btodo'[c] \subseteq btodo[c]
             /\ \A p \in Payments \ crossed : row'[p] = row[p]
  <2>1. PICK q \in btodo[b] : /\ row' = [row EXCEPT ![q] = held[b][q]]
                              /\ btodo' = [btodo EXCEPT ![b] = @ \ {q}]
    BY <1>2 DEF LinkWhole
  <2>2. q \notin crossed => held[b][q] = row[q]
    BY DEF BatchesHold
  <2>3. QED
    BY <1>2, <2>1, <2>2 DEF LinkWhole, TypeOK
<1>3. ASSUME NEW b \in Batches, UNCHANGED <<vars, held>>,
             \/ Settle!Ask(b) \/ Settle!Refuse(b) \/ Settle!Insert(b)
             \/ Settle!ExecutePayout(b) \/ Settle!RecordPayout(b)
             \/ Settle!Announce(b)
      PROVE  UNCHANGED <<tickVars, row, held, btodo>>
  BY <1>3 DEF vars, Settle!Ask, Settle!Refuse, Settle!Insert,
              Settle!ExecutePayout, Settle!RecordPayout, Settle!Announce
<1>4. ASSUME NEW b \in Batches, HoldRows(b) PROVE UNCHANGED <<tickVars, row>>
  BY <1>4 DEF HoldRows, vars
<1>5. QED
  BY <1>1, <1>2, <1>3, <1>4 DEF Settlement

LEMMA SettlementPushes ==
    ASSUME PushInv, Settlement
    PROVE  Stored' /\ \A u \in Ticks : RowsHold(u)'
<1> USE DEF PushInv, Shapes, SystemTypes
<1>1. /\ UNCHANGED <<tickVars, simVars, pushed, crossed>>
      /\ \A p \in Payments \ crossed : row'[p] = row[p]
  BY SettlementSteps
<1>2. \A u \in Ticks : RowsHold(u)'
  BY <1>1, TickKept
<1>3. \A p \in Payments : Announcing(p) => Announcing(p)'
  BY <1>1 DEF Announcing, tickVars, simVars
<1>4. ASSUME NEW b \in Batches, HoldRows(b), UNCHANGED row PROVE Stored'
  <2>1. /\ btodo' = [btodo EXCEPT ![b] = Settle!Unsettled(b)]
        /\ held' = [held EXCEPT ![b] =
              [p \in Payments |-> IF p \in btodo'[b] THEN row[p] ELSE NoRow]]
    BY <1>4 DEF HoldRows, Settle!QueryUnsettled
  <2>2. \A p \in Settle!Unsettled(b) : p \in Payments /\ row[p].status = "confirmed"
    BY DEF Settle!Unsettled
  <2>3. BatchesHold'
    BY <1>1, <1>4, <2>1, <2>2 DEF BatchesHold
  <2>4. NewIsPending' /\ PushedIsStored'
    BY <1>1, <1>4 DEF NewIsPending, PushedIsStored, tickVars, simVars
  <2>5. QED
    BY <2>3, <2>4 DEF Stored
<1>5. ASSUME UNCHANGED held, \A b \in Batches : btodo'[b] \subseteq btodo[b]
      PROVE  Stored'
  BY <1>1, <1>3, <1>5, StoreKept
<1>6. QED
  BY <1>2, <1>4, <1>5, SettlementSteps

LEMMA SandboxPushes ==
    ASSUME PushInv, Sandbox
    PROVE  Stored' /\ \A u \in Ticks : RowsHold(u)'
<1> DEFINE Goal == Stored' /\ \A u \in Ticks : RowsHold(u)'
<1> USE DEF PushInv, Shapes, SystemTypes
<1>0. UNCHANGED <<held, btodo>>
  BY DEF Sandbox, batchVars
<1>1. ASSUME NEW s \in Sims, SimRead(s) PROVE Goal
  <2>1. /\ simPc[s] = "new" /\ simPc' = [simPc EXCEPT ![s] = "write"]
        /\ \A u \in Sims : u # s => simOn'[u] = simOn[u]
        /\ UNCHANGED <<tickVars, row, pushed, crossed>>
    BY <1>1 DEF SimRead, vars
  <2>2. \A p \in Payments : Announcing(p) => Announcing(p)'
    BY <2>1 DEF Announcing, tickVars
  <2>3. QED
    BY <1>0, <2>1, <2>2, StoreKept, TickKept
<1>2. ASSUME NEW s \in Sims, SimSave(s) PROVE Goal
  <2> DEFINE q == simOn[s]
  <2>1. /\ q \in Payments /\ simEnt[s].status # "none"
        /\ row' = [row EXCEPT ![q] = simEnt[s]]
        /\ simPc' = [simPc EXCEPT ![s] = "notify"] /\ simPc[s] = "write"
        /\ crossed \subseteq crossed'
        /\ q \notin crossed' => ~Meets(s)
        /\ UNCHANGED <<tickVars, simOn, pushed>>
    BY <1>2 DEF SimSave, SimOK
  <2>2. q \notin crossed' =>
           /\ \A t \in Ticks : q \notin todo[t]
           /\ \A b \in Batches : q \notin btodo[b]
    BY <2>1 DEF Meets
  <2>3. row'[q] = simEnt[s] /\ \A p \in Payments : p # q => row'[p] = row[p]
    BY <2>1 DEF TypeOK
  <2>4. \A u \in Ticks : RowsHold(u)'
    BY <2>1, <2>2, <2>3, TickKept
  <2>5. Announcing(q)' /\ \A p \in Payments : Announcing(p) => Announcing(p)'
    BY <2>1 DEF Announcing, tickVars
  <2>6. BatchesHold'
    BY <1>0, <2>1, <2>2, <2>3 DEF BatchesHold
  <2>7. NewIsPending'
    BY <2>1, <2>3 DEF NewIsPending
  <2>8. PushedIsStored'
    <3>1. SUFFICES ASSUME NEW p \in Payments \ crossed'
                   PROVE  row'[p].status \in {"none", pushed'[p]} \/ Announcing(p)'
      BY DEF PushedIsStored, Announcing
    <3>2. row[p].status \in {"none", pushed[p]} \/ Announcing(p)
      BY <2>1 DEF PushedIsStored, Announcing
    <3>3. QED
      BY <2>1, <2>3, <2>5, <3>2
  <2>9. QED
    BY <2>4, <2>6, <2>7, <2>8 DEF Stored
<1>3. ASSUME NEW s \in Sims, SimNotify(s) PROVE Goal
  <2> DEFINE q == simOn[s]
  <2>1. /\ q \in Payments /\ simEnt[s].status # "none"
        /\ pushed' = [pushed EXCEPT ![q] = simEnt[s].status]
        /\ simPc' = [simPc EXCEPT ![s] = "done"] /\ simPc[s] = "notify"
        /\ crossed \subseteq crossed'
        /\ q \notin crossed' => row[q] = simEnt[s]
        /\ UNCHANGED <<row, tickVars, simOn>>
    BY <1>3 DEF SimNotify, SimOK, tickVars
  <2>2. \A u \in Ticks : RowsHold(u)'
    BY <2>1, TickKept
  <2>3. \A p \in Payments : p # q =>
           pushed'[p] = pushed[p] /\ (Announcing(p) => Announcing(p)')
    BY <2>1 DEF Announcing, tickVars
  <2>4. pushed'[q] = simEnt[s].status
    BY <2>1
  <2>5. BatchesHold'
    BY <1>0, <2>1 DEF BatchesHold
  <2>6. NewIsPending'
    BY <2>1, <2>3 DEF NewIsPending
  <2>7. PushedIsStored'
    <3>1. SUFFICES ASSUME NEW p \in Payments \ crossed'
                   PROVE  row'[p].status \in {"none", pushed'[p]} \/ Announcing(p)'
      BY DEF PushedIsStored, Announcing
    <3>2. row[p].status \in {"none", pushed[p]} \/ Announcing(p)
      BY <2>1 DEF PushedIsStored, Announcing
    <3>3. QED
      BY <2>1, <2>3, <2>4, <3>2
  <2>8. QED
    BY <2>2, <2>5, <2>6, <2>7 DEF Stored
<1>4. QED
  BY <1>1, <1>2, <1>3 DEF Sandbox

LEMMA PushStep ==
    ASSUME SingleInstance, PushInv, [SystemNext]_systemVars
    PROVE  PushInv'
<1>1. Shapes'
  BY ShapesStay DEF PushInv
<1>2. CASE UNCHANGED systemVars
  <2>1. UNCHANGED <<vars, simVars, btodo, held, pushed, crossed>>
    BY <1>2 DEF systemVars, batchVars
  <2>2. UNCHANGED <<tickVars, row>>
    BY <2>1 DEF vars
  <2>3. \A u \in Ticks : RowsHold(u)'
    BY <2>1, <2>2, TickKept
  <2>4. \A p \in Payments : Announcing(p) => Announcing(p)'
    BY <2>1, <2>2 DEF Announcing, tickVars, simVars
  <2>5. Stored'
    BY <2>1, <2>2, <2>4, StoreKept
  <2>6. QED
    BY <1>1, <2>3, <2>5 DEF PushInv, Stored
<1>3. CASE SystemNext
  <2>1. Stored' /\ \A u \in Ticks : RowsHold(u)'
    BY <1>3, MonitorPushes, SettlementPushes, SandboxPushes DEF SystemNext
  <2>2. QED
    BY <1>1, <2>1 DEF PushInv, Stored
<1>4. QED
  BY <1>2, <1>3

LEMMA SystemStarts == SystemInit => PushInv
<1> SUFFICES ASSUME SystemInit PROVE PushInv
  OBVIOUS
<1>1. TypeOK /\ LocalOK /\ TickExclusion
  BY ConstantsOK, LiteralRows
  DEF SystemInit, Init, TypeOK, PcValues, LocalOK, PhaseOK, CursorOK, TickExclusion
<1>2. SystemTypes
  BY LiteralRows DEF SystemInit, Settle!Init, SystemTypes, LinkValue, Status
<1>3. SimOK /\ \A t \in Ticks : RowsHold(t)
  BY DEF SystemInit, Init, SimOK, RowsHold
<1>4. BatchesHold /\ NewIsPending /\ PushedIsStored
  BY DEF SystemInit, Init, Settle!Init, BatchesHold, NewIsPending, PushedIsStored,
         NoRow
<1>5. QED
  BY <1>1, <1>2, <1>3, <1>4 DEF PushInv, Shapes

LEMMA PushInvariant == ASSUME SingleInstance PROVE SystemSpec => []PushInv
<1>1. PushInv /\ [SystemNext]_systemVars => PushInv'
  BY PushStep
<1>2. QED
  BY <1>1, SystemStarts, PTL DEF SystemSpec

\* On one instance the clients of a payment have been told its stored status,
\* or are about to be, whatever batches and simulations run beside the monitor.
THEOREM ClientsAreTold == SingleInstance => (SystemSpec => []PushedIsStored)
<1> SUFFICES ASSUME SingleInstance PROVE SystemSpec => []PushedIsStored
  OBVIOUS
<1>1. PushInv => PushedIsStored
  BY DEF PushInv
<1>2. QED
  BY <1>1, PushInvariant, PTL

-----------------------------------------------------------------------------
(* What is settled stays so.                                               *)

Looping == {"mark", "fetch", "read", "write", "notify"}

\* The links in the copies of tick t are those of the rows.
LinksHold(t) ==
    /\ pc[t] \in Looping /\ phase[t] = "check"
          => \A p \in Payments \ crossed : Ahead(t, p) => linkSnap[t][p] = link[p]
    /\ pc[t] = "write" /\ cur[t] \notin crossed => linkEnt[t] = link[cur[t]]

\* Batches have different payments to link, but for contested ones.
BatchesApart ==
    /\ \A b \in Batches : btodo[b] # {} => bpc[b] \in {"insert", "link"}
    /\ \A b, c \in Batches : b # c => btodo[b] \cap btodo[c] \subseteq contested

BatchesUnlinked ==
    \A b \in Batches :
        \A p \in btodo[b] \ (crossed \cup contested) : link[p] = NoBatch

\* A simulation is, or was, about the test payment p.
Played(p) == p \in Test /\ \E s \in Sims : simOn[s] = p

LinkedConfirmed ==
    \A p \in Payments \ crossed :
        link[p] # NoBatch => row[p].status = "confirmed" \/ Played(p)

LinkInv ==
    /\ PushInv
    /\ \A t \in Ticks : LinksHold(t)
    /\ BatchesApart
    /\ BatchesUnlinked
    /\ LinkedConfirmed

LEMMA ContestedGrows == ASSUME [SystemNext]_systemVars PROVE contested \subseteq contested'
<1>1. ASSUME NEW b \in Batches, HoldRows(b) PROVE contested \subseteq contested'
  BY <1>1 DEF HoldRows, Settle!QueryUnsettled
<1>2. ASSUME NEW b \in Batches, LinkWhole(b) PROVE contested \subseteq contested'
  BY <1>2 DEF LinkWhole
<1>3. ASSUME NEW b \in Batches,
             \/ Settle!Ask(b) \/ Settle!Refuse(b) \/ Settle!Insert(b)
             \/ Settle!ExecutePayout(b) \/ Settle!RecordPayout(b)
             \/ Settle!Announce(b)
      PROVE  contested \subseteq contested'
  BY <1>3 DEF Settle!Ask, Settle!Refuse, Settle!Insert, Settle!ExecutePayout,
              Settle!RecordPayout, Settle!Announce
<1>4. CASE Settlement
  BY <1>1, <1>2, <1>3, <1>4 DEF Settlement
<1>5. QED
  BY <1>4 DEF SystemNext, Monitor, Sandbox, systemVars, batchVars

\* What a query shares with another batch at work is contested from then on.
LEMMA ApartStays ==
    ASSUME Shapes, BatchesApart, [SystemNext]_systemVars
    PROVE  BatchesApart'
<1> USE DEF Shapes, SystemTypes, BatchesApart
<1>0. contested \subseteq contested'
  BY ContestedGrows
<1>1. CASE UNCHANGED <<bpc, btodo>>
  BY <1>0, <1>1
<1>2. ASSUME NEW b \in Batches, NEW l, bpc' = [bpc EXCEPT ![b] = l],
             \A c \in Batches : btodo'[c] \subseteq btodo[c],
             btodo'[b] # {} => l \in {"insert", "link"}
      PROVE  BatchesApart'
  BY <1>0, <1>2
<1>3. ASSUME NEW b \in Batches, HoldRows(b) PROVE BatchesApart'
  <2> DEFINE U == Settle!Unsettled(b)
             K == Settle!Claimed(b)
  <2>1. /\ bpc' = [bpc EXCEPT ![b] = "insert"]
        /\ btodo' = [btodo EXCEPT ![b] = U]
        /\ contested' = contested \cup (U \cap K)
    BY <1>3 DEF HoldRows, Settle!QueryUnsettled, Settle!GoTo
  <2>2. \A c \in Batches \ {b} : btodo[c] \subseteq K
    <3>1. SUFFICES ASSUME NEW c \in Batches \ {b}, NEW q \in btodo[c]
                   PROVE  q \in K
      OBVIOUS
    <3>2. bpc[c] \in Settle!Working
      BY <3>1 DEF Settle!Working
    <3>3. QED
      BY <3>1, <3>2 DEF Settle!Claimed
  <2> HIDE DEF U, K
  <2>3. \A c \in Batches : btodo'[c] = IF c = b THEN U ELSE btodo[c]
    BY <2>1
  <2>4. \A c \in Batches : bpc'[c] = IF c = b THEN "insert" ELSE bpc[c]
    BY <2>1
  <2>5. QED
    BY <2>1, <2>2, <2>3, <2>4
<1>4. ASSUME NEW b \in Batches, LinkWhole(b) PROVE BatchesApart'
  <2>1. PICK q \in btodo[b] :
          /\ btodo' = [btodo EXCEPT ![b] = @ \ {q}]
          /\ bpc' = [bpc EXCEPT ![b] = IF btodo[b] = {q} THEN "payout" ELSE "link"]
    BY <1>4 DEF LinkWhole
  <2>2. btodo'[b] # {} => btodo[b] # {q}
    BY <2>1
  <2>3. QED
    BY <1>2, <2>1, <2>2
<1>5. ASSUME NEW b \in Batches,
             \/ Settle!Ask(b) \/ Settle!Refuse(b) \/ Settle!Insert(b)
             \/ Settle!ExecutePayout(b) \/ Settle!RecordPayout(b)
             \/ Settle!Announce(b)
      PROVE  BatchesApart'
  <2>1. UNCHANGED btodo
    BY <1>5 DEF Settle!Ask, Settle!Refuse, Settle!Insert, Settle!ExecutePayout,
                Settle!RecordPayout, Settle!Announce
  <2>2. PICK l : /\ bpc' = [bpc EXCEPT ![b] = l]
                 /\ bpc[b] \in {"insert", "link"} => l \in {"insert", "link"}
    BY <1>5 DEF Settle!Ask, Settle!Refuse, Settle!Insert, Settle!ExecutePayout,
                Settle!RecordPayout, Settle!Announce, Settle!GoTo
  <2>3. QED
    BY <1>2, <2>1, <2>2
<1>6. CASE Settlement
  BY <1>3, <1>4, <1>5, <1>6 DEF Settlement
<1>7. QED
  BY <1>1, <1>6 DEF SystemNext, Monitor, Sandbox, systemVars, batchVars

\* What the steps do to the links.
LEMMA MonitorLinks ==
    ASSUME LinkInv, Monitor, NEW p \in Payments \ crossed
    PROVE  link'[p] = link[p]
<1> USE DEF LinkInv, PushInv, Shapes, TypeOK, SystemTypes
<1>1. ASSUME NEW t \in Ticks, MarkWhole(t) PROVE link'[p] = link[p]
  <2>1. PICK q \in todo[t] : cur' = [cur EXCEPT ![t] = q]
    BY <1>1 DEF MarkWhole, MarkChecked
  <2>2. cur'[t] = q
    BY <2>1
  <2>3. link' = [link EXCEPT ![cur'[t]] = linkSnap[t][cur'[t]]]
    BY <1>1 DEF MarkWhole
  <2>4. link' = [link EXCEPT ![q] = linkSnap[t][q]]
    BY <2>2, <2>3
  <2>5. pc[t] = "mark" /\ phase[t] = "check"
    BY <1>1 DEF MarkWhole, MarkChecked, LocalOK, PhaseOK
  <2>6. q = p => linkSnap[t][q] = link[q]
    BY <2>1, <2>5 DEF LinksHold, Looping, Ahead
  <2>7. QED
    BY <2>4, <2>6
<1>2. ASSUME NEW t \in Ticks, SaveWhole(t) PROVE link'[p] = link[p]
  <2>1. pc[t] = "write" /\ link' = [link EXCEPT ![cur[t]] = linkEnt[t]]
    BY <1>2 DEF SaveWhole, SaveUpdate
  <2>2. cur[t] = p => linkEnt[t] = link[p]
    BY <2>1 DEF LinksHold
  <2>3. QED
    BY <2>1, <2>2
<1>3. CASE UNCHANGED link
  BY <1>3
<1>4. QED
  BY <1>1, <1>2, <1>3 DEF Monitor, QueryLinks, ReadWhole, NotifyRooms

LEMMA SandboxLinks ==
    ASSUME LinkInv, Sandbox, NEW p \in Payments \ crossed'
    PROVE  link'[p] = link[p] /\ p \notin crossed
<1> USE DEF LinkInv, PushInv, Shapes, SystemTypes
<1>1. ASSUME NEW s \in Sims, SimSave(s) PROVE link'[p] = link[p] /\ p \notin crossed
  <2>1. link' = [link EXCEPT ![simOn[s]] = simLink[s]]
    BY <1>1 DEF SimSave
  <2>2. p = simOn[s] => link[p] = simLink[s]
    BY <1>1 DEF SimSave
  <2>3. p \notin crossed
    BY <1>1 DEF SimSave
  <2>4. QED
    BY <2>1, <2>2, <2>3
<1>2. ASSUME NEW s \in Sims, SimRead(s) \/ SimNotify(s)
      PROVE  link'[p] = link[p] /\ p \notin crossed
  BY <1>2 DEF SimRead, SimNotify
<1>3. QED
  BY <1>1, <1>2 DEF Sandbox

LEMMA SettlementLinks ==
    ASSUME LinkInv, Settlement
    PROVE  \/ UNCHANGED link /\ \A b \in Batches : btodo'[b] \subseteq btodo[b]
           \/ \E b \in Batches : HoldRows(b) /\ UNCHANGED link
           \/ \E b \in Batches, q \in Payments :
                 /\ q \in btodo[b] /\ bpc[b] \in Settle!Working
                 /\ link' = [link EXCEPT ![q] = b]
                 /\ btodo' = [btodo EXCEPT ![b] = @ \ {q}]
<1> USE DEF LinkInv, PushInv, Shapes, SystemTypes
<1>1. ASSUME NEW b \in Batches, LinkWhole(b)
      PROVE  \E q \in Payments :
                 /\ q \in btodo[b] /\ bpc[b] \in Settle!Working
                 /\ link' = [link EXCEPT ![q] = b]
                 /\ btodo' = [btodo EXCEPT ![b] = @ \ {q}]
  BY <1>1 DEF LinkWhole, Settle!Working
<1>2. ASSUME NEW b \in Batches, HoldRows(b) PROVE UNCHANGED link
  BY <1>2 DEF HoldRows, Settle!QueryUnsettled, Settle!tables
<1>3. ASSUME NEW b \in Batches,
             \/ Settle!Ask(b) \/ Settle!Refuse(b) \/ Settle!Insert(b)
             \/ Settle!ExecutePayout(b) \/ Settle!RecordPayout(b)
             \/ Settle!Announce(b)
      PROVE  UNCHANGED <<link, btodo>>
  BY <1>3 DEF Settle!Ask, Settle!Refuse, Settle!Insert, Settle!ExecutePayout,
              Settle!RecordPayout, Settle!Announce, Settle!tables
<1>4. QED
  BY <1>1, <1>2, <1>3 DEF Settlement

\* A step of a tick that takes nothing on keeps the links it holds.
LEMMA LinksKept ==
    ASSUME LinkInv, NEW t \in Ticks, UNCHANGED linkCopies, crossed \subseteq crossed',
           pc'[t] \in Looping /\ phase'[t] = "check"
              => pc[t] \in Looping /\ phase[t] = "check",
           \A p \in Payments : Ahead(t, p)' => Ahead(t, p),
           pc'[t] = "write" => pc[t] = "write" /\ cur'[t] = cur[t],
           \A p \in Payments \ crossed' :
              Ahead(t, p) /\ pc[t] \in Looping => link'[p] = link[p]
    PROVE  LinksHold(t)'
<1> USE DEF LinkInv, PushInv, Shapes, TypeOK
<1>1. pc[t] = "write" => Ahead(t, cur[t]) /\ cur[t] \in Payments
  BY DEF LocalOK, CursorOK, Ahead
<1>2. LinksHold(t)
  OBVIOUS
<1>3. QED
  BY <1>1, <1>2 DEF LinksHold, Looping, linkCopies

LEMMA OwnLinks ==
    ASSUME LinkInv, Monitor, NEW t \in Ticks,
           \/ QueryLinks(t) \/ MarkWhole(t) \/ ReadWhole(t) \/ SaveWhole(t)
           \/ NotifyRooms(t)
           \/ /\ \/ StartTick(t) \/ FetchWithoutEffect(t) \/ FetchMatch(t)
                 \/ QueryOverdue(t) \/ FinishTick(t)
              /\ UNCHANGED linkCopies
    PROVE  LinksHold(t)'
<1> USE DEF LinkInv, PushInv, Shapes, TypeOK, SystemTypes
<1>0. UNCHANGED crossed /\ \A p \in Payments \ crossed : link'[p] = link[p]
  BY MonitorLinks DEF Monitor
<1>1. CASE QueryLinks(t)
  <2>1. /\ \A p \in Payments : p \in todo'[t] => linkSnap'[t][p] = link[p]
        /\ UNCHANGED link
    BY <1>1 DEF QueryLinks
  <2>2. PICK b : pc' = [pc EXCEPT ![t] = LoopHead("check", b)]
    BY <1>1 DEF QueryLinks, QueryActive
  <2>3. pc'[t] # "write"
    BY <2>2, LoopHeadValues
  <2>4. QED
    BY <2>1, <2>3 DEF LinksHold, Ahead
<1>2. CASE MarkWhole(t)
  <2>1. /\ pc[t] = "mark" /\ pc'[t] = "fetch"
        /\ UNCHANGED <<phase, todo, linkCopies>>
    BY <1>2 DEF MarkWhole, MarkChecked
  <2>2. QED
    BY <1>0, <2>1, LinksKept DEF Looping, Ahead
<1>3. CASE ReadWhole(t)
  <2>1. /\ pc[t] \in {"read", "expire"} /\ pc'[t] = "write"
        /\ UNCHANGED <<row, phase, todo, link, linkSnap>>
    BY <1>3 DEF ReadWhole, ReadForUpdate, ReadForExpiry
  <2>2. linkEnt'[t] = link[cur'[t]]
    BY <1>3 DEF ReadWhole
  <2>3. phase'[t] = "check" => pc[t] \in Looping
    BY <2>1 DEF LocalOK, PhaseOK, Looping
  <2>4. \A p \in Payments : Ahead(t, p)' => Ahead(t, p)
    BY <2>1 DEF Ahead
  <2>5. QED
    BY <1>0, <2>1, <2>2, <2>3, <2>4 DEF LinksHold
<1>4. CASE SaveWhole(t)
  <2>1. /\ pc[t] = "write" /\ pc'[t] = "notify"
        /\ UNCHANGED <<phase, todo, linkCopies>>
    BY <1>4 DEF SaveWhole, SaveUpdate
  <2>2. QED
    BY <1>0, <2>1, LinksKept DEF Looping, Ahead
<1>5. ASSUME NEW p \in Payments, DoneWith(t, p), pc[t] \in Looping,
             UNCHANGED linkCopies, pc[t] = "notify" => p = cur[t]
      PROVE  LinksHold(t)'
  <2>1. phase'[t] = phase[t] /\ todo'[t] = todo[t] \ {p}
    BY <1>5 DEF DoneWith
  <2>2. pc'[t] \in {"mark", "sweep", "expire", "finish"}
    <3>1. pc'[t] = LoopHead(phase[t], todo[t] \ {p})
      BY <1>5 DEF DoneWith
    <3>2. phase[t] \in {"check", "expire"}
      OBVIOUS
    <3>3. QED
      BY <3>1, <3>2, LoopHeadValues
  <2>3. \A q \in Payments : Ahead(t, q)' => Ahead(t, q)
    BY <1>5, <2>1 DEF Ahead
  <2>4. QED
    BY <1>0, <1>5, <2>1, <2>2, <2>3, LinksKept
<1>6. CASE NotifyRooms(t)
  <2>1. /\ DoneWith(t, cur[t]) /\ pc[t] = "notify" /\ cur[t] \in Payments
        /\ UNCHANGED linkCopies
    BY <1>6 DEF NotifyRooms, Notify, LocalOK, CursorOK
  <2>2. QED
    BY <1>5, <2>1 DEF Looping
<1>7. CASE UNCHANGED linkCopies /\ FetchWithoutEffect(t)
  <2>1. DoneWith(t, cur[t]) /\ pc[t] = "fetch" /\ cur[t] \in Payments
    BY <1>7 DEF FetchWithoutEffect, LocalOK, CursorOK
  <2>2. QED
    BY <1>5, <1>7, <2>1 DEF Looping
<1>8. CASE UNCHANGED linkCopies /\ FetchMatch(t)
  <2>1. pc[t] = "fetch" /\ pc'[t] = "read" /\ UNCHANGED <<phase, todo>>
    BY <1>8 DEF FetchMatch
  <2>2. QED
    BY <1>0, <1>8, <2>1, LinksKept DEF Looping, Ahead
<1>9. CASE QueryOverdue(t)
  <2>1. pc'[t] \in {"expire", "finish"} /\ phase'[t] = "expire"
    BY <1>9, LoopHeadValues DEF QueryOverdue
  <2>2. QED
    BY <2>1 DEF LinksHold
<1>10. CASE StartTick(t) \/ FinishTick(t)
  <2>1. pc'[t] \in {"query", "idle"}
    BY <1>10 DEF StartTick, FinishTick, Reset
  <2>2. QED
    BY <2>1 DEF LinksHold, Looping
<1>11. QED
  BY <1>1, <1>2, <1>3, <1>4, <1>6, <1>7, <1>8, <1>9, <1>10

LEMMA MonitorHoldsLinks ==
    ASSUME SingleInstance, LinkInv, Monitor, NEW u \in Ticks
    PROVE  LinksHold(u)'
<1> USE DEF LinkInv, PushInv, Shapes
<1>0. UNCHANGED crossed /\ \A p \in Payments \ crossed : link'[p] = link[p]
  BY MonitorLinks DEF Monitor
<1>1. ASSUME UNCHANGED <<tickVars, linkCopies>> PROVE LinksHold(u)'
  BY <1>0, <1>1, LinksKept DEF tickVars, Ahead
<1>2. ASSUME NEW t \in Ticks, TickStep(t), LinksHold(t)' PROVE LinksHold(u)'
  <2>1. CASE u = t
    BY <1>2, <2>1
  <2>2. CASE u # t
    <3>1. pc'[u] = pc[u]
      BY <1>2, <2>2, MiddleStep DEF TickStep, StartTick, FinishTick, Reset, TypeOK
    <3>2. pc[u] = "idle"
      <4>1. CASE pc[t] # "idle"
        BY <2>2, <4>1, OneTick
      <4>2. CASE pc[t] = "idle"
        <5>1. CanStart(t)
          BY <1>2, <4>2, MiddleStep DEF TickStep, StartTick, FinishTick
        <5>2. QED
          BY <5>1, ConstantsOK DEF CanStart, TickExclusion, SingleInstance
      <4>3. QED
        BY <4>1, <4>2
    <3>3. QED
      BY <3>1, <3>2 DEF LinksHold, Looping
  <2>3. QED
    BY <2>1, <2>2
<1>3. ASSUME NEW t \in Ticks,
             \/ QueryLinks(t) \/ MarkWhole(t) \/ ReadWhole(t) \/ SaveWhole(t)
             \/ NotifyRooms(t)
      PROVE  LinksHold(u)'
  <2>1. LinksHold(t)'
    BY <1>3, OwnLinks
  <2>2. TickStep(t)
    BY <1>3 DEF QueryLinks, MarkWhole, ReadWhole, SaveWhole, NotifyRooms, TickStep
  <2>3. QED
    BY <1>2, <2>1, <2>2
<1>4. ASSUME NEW t \in Ticks, UNCHANGED linkCopies,
             \/ StartTick(t) \/ FetchWithoutEffect(t) \/ FetchMatch(t)
             \/ QueryOverdue(t) \/ FinishTick(t)
      PROVE  LinksHold(u)'
  <2>1. LinksHold(t)'
    BY <1>4, OwnLinks
  <2>2. TickStep(t)
    BY <1>4 DEF TickStep
  <2>3. QED
    BY <1>2, <2>1, <2>2
<1>5. ASSUME NEW p \in Payments, Create(p) \/ PassExpiry(p), UNCHANGED linkCopies
      PROVE  LinksHold(u)'
  BY <1>1, <1>5 DEF Create, PassExpiry
<1>6. ASSUME NEW x \in Txs, Broadcast(x) \/ Bury(x) \/ Reorg(x), UNCHANGED linkCopies
      PROVE  LinksHold(u)'
  BY <1>1, <1>6 DEF Broadcast, Bury, Reorg
<1>7. QED
  BY <1>3, <1>4, <1>5, <1>6 DEF Monitor

LEMMA SettlementHoldsLinks ==
    ASSUME LinkInv, Settlement, NEW t \in Ticks
    PROVE  LinksHold(t)'
<1> USE DEF LinkInv, PushInv, Shapes, SystemTypes
<1>1. UNCHANGED <<tickVars, linkCopies, crossed>>
  BY SettlementSteps
<1>2. \A p \in Payments \ crossed :
         Ahead(t, p) /\ pc[t] \in Looping => link'[p] = link[p]
  <2>1. SUFFICES ASSUME NEW p \in Payments \ crossed, Ahead(t, p), pc[t] \in Looping
                 PROVE  link'[p] = link[p]
    OBVIOUS
  <2>2. \A b \in Batches : p \notin btodo[b]
    BY <2>1, AheadIsOpen DEF Looping
  <2>3. QED
    BY <2>2, SettlementLinks
<1>3. QED
  BY <1>1, <1>2, LinksKept DEF tickVars, Ahead

LEMMA SandboxHoldsLinks ==
    ASSUME LinkInv, Sandbox, NEW t \in Ticks
    PROVE  LinksHold(t)'
<1> USE DEF LinkInv, PushInv, Shapes
<1>1. UNCHANGED <<tickVars, linkCopies>>
  BY OthersLeaveTicks DEF Sandbox
<1>2. crossed \subseteq crossed' /\ \A p \in Payments \ crossed' : link'[p] = link[p]
  <2>1. crossed \subseteq crossed'
    BY DEF Sandbox, SimRead, SimSave, SimNotify
  <2>2. QED
    BY <2>1, SandboxLinks
<1>3. QED
  BY <1>1, <1>2, LinksKept DEF tickVars, Ahead

\* Where no simulation met another writer, a row changes only while the payment
\* is not confirmed, or under a simulation.
LEMMA RowChanges ==
    ASSUME LinkInv, SystemNext, NEW p \in Payments \ crossed', row'[p] # row[p]
    PROVE  row[p].status # "confirmed" \/ Played(p)
<1> USE DEF LinkInv, PushInv, Shapes, TypeOK, SystemTypes
<1>1. CASE Monitor
  <2>1. p \notin crossed
    BY <1>1 DEF Monitor
  <2>2. ASSUME NEW t \in Ticks, TickStep(t) PROVE row[p].status # "confirmed"
    BY <2>1, <2>2, RowsWritten DEF Open
  <2>3. ASSUME NEW q \in Payments, Create(q) \/ PassExpiry(q)
        PROVE  row[p].status # "confirmed"
    BY <2>3 DEF Create, PassExpiry
  <2>4. ASSUME NEW x \in Txs, Broadcast(x) \/ Bury(x) \/ Reorg(x) PROVE FALSE
    BY <2>4 DEF Broadcast, Bury, Reorg
  <2>5. QED
    BY <1>1, <2>2, <2>3, <2>4
    DEF Monitor, QueryLinks, MarkWhole, ReadWhole, SaveWhole, NotifyRooms, TickStep
<1>2. CASE Settlement
  BY <1>2, SettlementSteps
<1>3. CASE Sandbox
  <2>1. PICK s \in Sims : SimRead(s) \/ SimSave(s) \/ SimNotify(s)
    BY <1>3 DEF Sandbox
  <2>2. SimSave(s)
    BY <2>1 DEF SimRead, SimNotify, vars
  <2>3. p = simOn[s] /\ simPc[s] # "new"
    BY <2>2 DEF SimSave
  <2>4. QED
    BY <2>3 DEF SimOK, Played
<1>4. QED
  BY <1>1, <1>2, <1>3 DEF SystemNext

\* A payment a simulation is about stays one.
LEMMA StillPlayed ==
    ASSUME LinkInv, SystemNext, NEW p \in Payments, Played(p)
    PROVE  Played(p)'
<1> USE DEF LinkInv, PushInv, Shapes, SystemTypes
<1>1. PICK u \in Sims : simOn[u] = p
  BY DEF Played
<1>2. simPc[u] # "new"
  BY <1>1, ConstantsOK DEF SimOK
<1>3. simOn'[u] = p
  BY <1>1, <1>2
  DEF SystemNext, Monitor, Settlement, Sandbox, simVars, SimRead, SimSave, SimNotify
<1>4. QED
  BY <1>3 DEF Played

\* What a step does to the link of a payment: only a batch changes it, of a
\* payment that is confirmed and has none, unless it is contested.
LEMMA LinkChanges ==
    ASSUME LinkInv, SystemNext, NEW p \in Payments \ crossed', link'[p] # link[p]
    PROVE  /\ link[p] = NoBatch \/ p \in contested
           /\ link'[p] # NoBatch
           /\ row'[p].status = "confirmed"
<1> USE DEF LinkInv
<1>1. Settlement /\ p \notin crossed
  BY MonitorLinks, SandboxLinks DEF SystemNext, Monitor, Settlement
<1>2. \E b \in Batches : p \in btodo[b] /\ link'[p] = b
  BY <1>1, SettlementLinks DEF PushInv, Shapes, SystemTypes, HoldRows
<1>3. (link[p] = NoBatch \/ p \in contested) /\ row[p].status = "confirmed"
  BY <1>1, <1>2 DEF BatchesUnlinked, BatchesHold, PushInv
<1>4. row'[p] = row[p]
  BY <1>1, SettlementSteps
<1>5. QED
  BY <1>2, <1>3, <1>4, SystemConstants

LEMMA CrossedGrows == ASSUME SystemNext PROVE crossed \subseteq crossed'
BY DEF SystemNext, Monitor, Settlement, Sandbox, SimRead, SimSave, SimNotify

LEMMA UnlinkedStays ==
    ASSUME LinkInv, SystemNext
    PROVE  BatchesUnlinked'
<1> USE DEF LinkInv, PushInv, Shapes, SystemTypes
<1>1. SUFFICES ASSUME NEW b \in Batches, 
                      NEW p \in btodo'[b] \ (crossed' \cup contested')
               PROVE  link'[p] = NoBatch
  BY DEF BatchesUnlinked
<1>2. p \notin crossed /\ p \notin contested
  BY CrossedGrows, ContestedGrows
<1>3. ASSUME p \in btodo[b], link'[p] = link[p] PROVE link'[p] = NoBatch
  BY <1>2, <1>3 DEF BatchesUnlinked
<1>4. CASE Monitor
  BY <1>2, <1>3, <1>4, MonitorLinks DEF Monitor, batchVars
<1>5. CASE Sandbox
  BY <1>3, <1>5, SandboxLinks DEF Sandbox, batchVars
<1>6. CASE Settlement
  <2>1. CASE UNCHANGED link /\ \A c \in Batches : btodo'[c] \subseteq btodo[c]
    BY <1>3, <2>1
  <2>2. ASSUME NEW c \in Batches, HoldRows(c), UNCHANGED link
        PROVE  link'[p] = NoBatch
    <3>1. btodo' = [btodo EXCEPT ![c] = Settle!Unsettled(c)]
      BY <2>2 DEF HoldRows, Settle!QueryUnsettled
    <3>2. \A q \in Settle!Unsettled(c) : link[q] = NoBatch
      BY DEF Settle!Unsettled
    <3>3. QED
      BY <1>3, <2>2, <3>1, <3>2
  <2>3. ASSUME NEW c \in Batches, NEW q \in Payments, q \in btodo[c],
               link' = [link EXCEPT ![q] = c],
               btodo' = [btodo EXCEPT ![c] = @ \ {q}]
        PROVE  link'[p] = NoBatch
    <3>1. p \in btodo[b]
      BY <2>3
    <3>2. p # q
      <4>1. SUFFICES ASSUME p = q PROVE FALSE
        OBVIOUS
      <4>2. b # c
        BY <2>3, <4>1
      <4>3. p \in btodo[b] /\ p \in btodo[c]
        BY <2>3, <3>1, <4>1
      <4>4. QED
        BY <1>2, <4>2, <4>3 DEF BatchesApart
    <3>3. QED
      BY <1>3, <2>3, <3>1, <3>2
  <2>4. QED
    BY <1>6, <2>1, <2>2, <2>3, SettlementLinks
<1>7. QED
  BY <1>4, <1>5, <1>6 DEF SystemNext

LEMMA LinkStep ==
    ASSUME SingleInstance, LinkInv, [SystemNext]_systemVars
    PROVE  LinkInv'
<1>1. PushInv' /\ BatchesApart'
  BY PushStep, ApartStays DEF LinkInv, PushInv
<1>2. CASE UNCHANGED systemVars
  <2>1. UNCHANGED <<vars, link, linkCopies, simOn, btodo, crossed, contested>>
    BY <1>2 DEF systemVars, batchVars, simVars
  <2>2. UNCHANGED <<tickVars, row>>
    BY <2>1 DEF vars
  <2>3. \A t \in Ticks : LinksHold(t)'
    BY <2>1, <2>2 DEF LinkInv, LinksHold, Ahead, tickVars, linkCopies
  <2>4. BatchesUnlinked' /\ LinkedConfirmed'
    BY <2>1, <2>2 DEF LinkInv, BatchesUnlinked, LinkedConfirmed, Played
  <2>5. QED
    BY <1>1, <2>3, <2>4 DEF LinkInv
<1>3. CASE SystemNext
  <2>1. \A t \in Ticks : LinksHold(t)'
    BY <1>3, MonitorHoldsLinks, SettlementHoldsLinks, SandboxHoldsLinks DEF SystemNext
  <2>2. LinkedConfirmed'
    <3>1. SUFFICES ASSUME NEW p \in Payments \ crossed', link'[p] # NoBatch
                   PROVE  row'[p].status = "confirmed" \/ Played(p)'
      BY DEF LinkedConfirmed
    <3>2. p \notin crossed
      BY <1>3, CrossedGrows
    <3>3. CASE link'[p] # link[p]
      BY <1>3, <3>3, LinkChanges
    <3>4. CASE link'[p] = link[p]
      <4>1. row[p].status = "confirmed" \/ Played(p)
        BY <3>1, <3>2, <3>4 DEF LinkInv, LinkedConfirmed
      <4>2. row'[p] # row[p] => row[p].status # "confirmed" \/ Played(p)
        BY <1>3, RowChanges
      <4>3. QED
        BY <1>3, <4>1, <4>2, StillPlayed
    <3>5. QED
      BY <3>3, <3>4
  <2>3. QED
    BY <1>1, <1>3, <2>1, <2>2, UnlinkedStays DEF LinkInv
<1>4. QED
  BY <1>2, <1>3

LEMMA LinkInvariant ==
    ASSUME SingleInstance
    PROVE  SystemSpec => []LinkInv
<1>1. SystemInit => LinkInv
  <2> SUFFICES ASSUME SystemInit PROVE LinkInv
    OBVIOUS
  <2>2. PushInv
    BY SystemStarts
  <2>3. \A t \in Ticks : LinksHold(t)
    BY DEF SystemInit, Init, LinksHold, Looping
  <2>4. BatchesApart /\ BatchesUnlinked /\ LinkedConfirmed
    BY DEF SystemInit, Settle!Init, BatchesApart, BatchesUnlinked,
           LinkedConfirmed, Settle!Working
  <2>5. QED
    BY <2>2, <2>3, <2>4 DEF LinkInv
<1>2. LinkInv /\ [SystemNext]_systemVars => LinkInv'
  BY LinkStep
<1>3. QED
  BY <1>1, <1>2, PTL DEF SystemSpec

\* On one instance a payment linked to a settlement stays linked, and no copy
\* of a row that the monitor or a batch saves takes its status back; it changes
\* the settlement only if two batches at work had it to link.
THEOREM SettledRemains == SingleInstance => (SystemSpec => SettledStays)
<1> SUFFICES ASSUME SingleInstance PROVE SystemSpec => SettledStays
  OBVIOUS
<1> DEFINE Kept == \A p \in Payments \ crossed' :
                      link[p] # NoBatch =>
                         /\ link'[p] # NoBatch
                         /\ link'[p] = link[p] \/ p \in contested
                         /\ \/ row'[p].status = row[p].status
                            \/ p \in Test /\ \E s \in Sims : simOn[s] = p
<1>1. ASSUME LinkInv, SystemNext PROVE Kept
  <2>1. SUFFICES ASSUME NEW p \in Payments \ crossed', link[p] # NoBatch
                 PROVE  /\ link'[p] # NoBatch
                        /\ link'[p] = link[p] \/ p \in contested
                        /\ row'[p].status = row[p].status \/ Played(p)
    BY DEF Played
  <2>2. p \notin crossed
    BY <1>1, CrossedGrows
  <2>3. row[p].status = "confirmed" \/ Played(p)
    BY <1>1, <2>1, <2>2 DEF LinkInv, LinkedConfirmed
  <2>4. QED
    BY <1>1, <2>1, <2>3, LinkChanges, RowChanges
<1>2. LinkInv /\ [SystemNext]_systemVars => [Kept]_systemVars
  BY <1>1
<1>3. QED
  BY <1>2, LinkInvariant, PTL DEF SystemSpec, SettledStays
=============================================================================
