-------------------------- MODULE SettlementsProofs --------------------------
(***************************************************************************)
(* Proofs about Settlements: a payment is paid out twice only if two       *)
(* batches at work had it to link at once, whichever calls overlap, fail   *)
(* or die.                                                                 *)
(***************************************************************************)
EXTENDS Settlements, TLAPS

\* Batches at work have different payments to link, but for contested ones.
Apart ==
    \A b, c \in Batches :
        b # c /\ pc[b] \in Working /\ pc[c] \in Working
            => todo[b] \cap todo[c] \subseteq contested

\* A batch holds payments it asked for; a linked payment is in its batch.
BatchOK ==
    \A b \in Batches :
        /\ batch[b] \subseteq Asked[b]
        /\ todo[b] \subseteq batch[b]
        /\ \A p \in Payments : link[p] = b => p \in batch[b]
        /\ pc[b] \in {"new", "query"} => batch[b] = {}

\* The loop takes unlinked payments and leaves linked ones behind.
LoopOK ==
    \A b \in Batches :
        /\ pc[b] \in {"insert", "link"} =>
              \A p \in batch[b] \ contested :
                  IF p \in todo[b] THEN link[p] = NoBatch ELSE link[p] = b
        /\ pc[b] \in {"payout", "record", "fail", "announce"} =>
              \A p \in batch[b] \ contested : link[p] = b
        /\ pc[b] \in {"payout", "record", "fail", "announce"} => todo[b] = {}
        /\ b \in paid => pc[b] \notin {"new", "query", "insert", "link",
                                       "payout", "refused"}

SettlementInv == TypeOK /\ Apart /\ BatchOK /\ LoopOK /\ PaidIsLinked

-----------------------------------------------------------------------------
\* Every state of a behaviour is well typed: the settlement never has the
\* status pending or cancelled of its enum.
THEOREM SettlementTypes == Spec => []TypeOK
<1>1. Init => TypeOK
  BY SettlementConstants DEF Init, TypeOK
<1>2. TypeOK /\ [Next]_vars => TypeOK'
  <2> SUFFICES ASSUME TypeOK, [Next]_vars PROVE TypeOK'
    OBVIOUS
  <2> USE SettlementConstants DEF TypeOK, Statuses, GoTo, SetStatus, tables, outside,
                                  faults
  <2>1. CASE \E p \in Payments : Confirm(p)
    BY <2>1 DEF Confirm
  <2>2. ASSUME NEW b \in Batches, Ask(b) PROVE TypeOK'
    BY <2>2 DEF Ask, Working
  <2>3. ASSUME NEW b \in Batches, QueryUnsettled(b) PROVE TypeOK'
    <3>1. Unsettled(b) \subseteq Payments
      BY DEF Unsettled
    <3>2. QED
      BY <2>3, <3>1 DEF QueryUnsettled, Working
  <2>4. ASSUME NEW b \in Batches, Refuse(b) PROVE TypeOK'
    BY <2>4 DEF Refuse, Ended
  <2>5. ASSUME NEW b \in Batches, Insert(b) PROVE TypeOK'
    BY <2>5 DEF Insert, Working
  <2>6. ASSUME NEW b \in Batches, LinkPayment(b) PROVE TypeOK'
    BY <2>6 DEF LinkPayment, Working
  <2>7. ASSUME NEW b \in Batches, ExecutePayout(b) PROVE TypeOK'
    BY <2>7 DEF ExecutePayout, Working
  <2>8. ASSUME NEW b \in Batches, RecordPayout(b) PROVE TypeOK'
    BY <2>8 DEF RecordPayout, Working
  <2>9. ASSUME NEW b \in Batches, RecordFailure(b) PROVE TypeOK'
    BY <2>9 DEF RecordFailure, Working
  <2>10. ASSUME NEW b \in Batches, Announce(b) PROVE TypeOK'
    BY <2>10 DEF Announce, Ended
  <2>11. ASSUME NEW b \in Batches, MarkCompleted(b) PROVE TypeOK'
    BY <2>11 DEF MarkCompleted, Stored
  <2>12. ASSUME NEW b \in Batches, DbError(b) PROVE TypeOK'
    BY <2>12 DEF DbError, Working, Ended
  <2>13. ASSUME NEW b \in Batches, Die(b) PROVE TypeOK'
    BY <2>13 DEF Die, Working, Ended
  <2>14. CASE UNCHANGED vars
    BY <2>14 DEF vars
  <2>15. QED
    BY <2>1, <2>2, <2>3, <2>4, <2>5, <2>6, <2>7, <2>8, <2>9, <2>10, <2>11,
       <2>12, <2>13, <2>14 DEF Next, CreateBatch
<1>3. QED
  BY <1>1, <1>2, PTL DEF Spec

\* Only a query gives a batch payments, and what it shares with another batch
\* at work is contested from then on.
LEMMA StaysApart ==
    ASSUME TypeOK, Apart, BatchOK, [Next]_vars PROVE Apart'
<1> USE SettlementConstants DEF TypeOK, Statuses, Apart, GoTo, Working
<1>1. ASSUME NEW b \in Batches, QueryUnsettled(b) PROVE Apart'
  <2> DEFINE U == Unsettled(b)
             K == Claimed(b)
  <2>1. \A c \in Batches \ {b} : pc[c] \in Working => todo[c] \subseteq K
    BY DEF Claimed
  <2>2. /\ \A c \in Batches : todo'[c] = IF c = b THEN U ELSE todo[c]
        /\ \A c \in Batches : pc'[c] = IF c = b THEN "insert" ELSE pc[c]
        /\ contested' = contested \cup (U \cap K)
    BY <1>1 DEF QueryUnsettled
  <2> HIDE DEF U, K
  <2>3. QED
    BY <2>1, <2>2
<1>2. ASSUME NEW b \in Batches, Ask(b) PROVE Apart'
  <2>1. todo[b] = {}
    BY <1>2 DEF Ask, BatchOK
  <2>2. QED
    BY <1>2, <2>1 DEF Ask
<1>3. ASSUME NEW b \in Batches,
             \/ Refuse(b) \/ Insert(b) \/ LinkPayment(b) \/ ExecutePayout(b)
             \/ RecordPayout(b) \/ RecordFailure(b) \/ Announce(b)
      PROVE  Apart'
  <2>1. /\ pc[b] \in Working /\ contested' = contested
        /\ \A c \in Batches : c # b => pc'[c] = pc[c]
        /\ \A c \in Batches : todo'[c] \subseteq todo[c]
    BY <1>3 DEF Refuse, Insert, LinkPayment, ExecutePayout, RecordPayout,
                RecordFailure, Announce
  <2>2. QED
    BY <2>1
<1>4. ASSUME NEW b \in Batches, DbError(b) \/ Die(b) PROVE Apart'
  BY <1>4 DEF DbError, Die
<1>5. CASE \/ UNCHANGED vars
           \/ \E p \in Payments : Confirm(p)
           \/ \E b \in Batches : MarkCompleted(b)
  BY <1>5 DEF vars, Confirm, MarkCompleted, Stored
<1>6. QED
  BY <1>1, <1>2, <1>3, <1>4, <1>5 DEF Next, CreateBatch

LEMMA StepKeepsBooks ==
    ASSUME SettlementInv, TypeOK', [Next]_vars
    PROVE  BatchOK' /\ LoopOK' /\ PaidIsLinked'
<1> USE SettlementConstants DEF SettlementInv, TypeOK, Statuses, BatchOK, LoopOK,
        PaidIsLinked, GoTo, tables, outside, faults
<1>1. ASSUME NEW b \in Batches, Ask(b)
      PROVE  BatchOK' /\ LoopOK' /\ PaidIsLinked'
  BY <1>1 DEF Ask
<1>2. ASSUME NEW b \in Batches, QueryUnsettled(b)
      PROVE  BatchOK' /\ LoopOK' /\ PaidIsLinked'
  <2>1. Unsettled(b) \subseteq Asked[b]
    BY DEF Unsettled
  <2>2. \A p \in Unsettled(b) : link[p] = NoBatch
    BY DEF Unsettled
  <2>3. b \notin paid /\ \A p \in Payments : link[p] # b
    BY <1>2 DEF QueryUnsettled
  <2>4. /\ contested \subseteq contested' /\ link' = link /\ paid' = paid
        /\ \A c \in Batches : batch'[c] = IF c = b THEN Unsettled(b) ELSE batch[c]
        /\ \A c \in Batches : todo'[c] = IF c = b THEN Unsettled(b) ELSE todo[c]
        /\ \A c \in Batches : pc'[c] = IF c = b THEN "insert" ELSE pc[c]
    BY <1>2 DEF QueryUnsettled
  <2>5. BatchOK'
    BY <2>1, <2>3, <2>4
  <2>6. LoopOK'
    BY <2>2, <2>3, <2>4
  <2>7. PaidIsLinked'
    BY <2>3, <2>4
  <2>8. QED
    BY <2>5, <2>6, <2>7
<1>3. ASSUME NEW b \in Batches, Refuse(b)
      PROVE  BatchOK' /\ LoopOK' /\ PaidIsLinked'
  BY <1>3 DEF Refuse
<1>4. ASSUME NEW b \in Batches, Insert(b)
      PROVE  BatchOK' /\ LoopOK' /\ PaidIsLinked'
  BY <1>4 DEF Insert
<1>5. ASSUME NEW b \in Batches, LinkPayment(b)
      PROVE  BatchOK' /\ LoopOK' /\ PaidIsLinked'
  <2>1. PICK p \in todo[b] :
            /\ link' = [link EXCEPT ![p] = b]
            /\ todo' = [todo EXCEPT ![b] = @ \ {p}]
            /\ GoTo(b, IF todo[b] = {p} THEN "payout" ELSE "link")
    BY <1>5 DEF LinkPayment
  <2>2. /\ pc[b] = "link" /\ b \notin paid
        /\ p \in Payments /\ p \in batch[b] /\ p \in todo[b]
        /\ p \notin contested => link[p] = NoBatch
    BY <1>5, <2>1 DEF LinkPayment
  <2>3. \A c \in Batches : c # b /\ pc[c] \in Working =>
            p \notin todo[c] \/ p \in contested
    BY <2>2 DEF Apart, Working
  <2>4. /\ batch' = batch /\ paid' = paid /\ contested' = contested
        /\ \A c \in Batches : c # b => pc'[c] = pc[c] /\ todo'[c] = todo[c]
        /\ \A q \in Payments : link'[q] = IF q = p THEN b ELSE link[q]
        /\ pc'[b] = IF todo[b] = {p} THEN "payout" ELSE "link"
        /\ todo'[b] = todo[b] \ {p}
    BY <1>5, <2>1, <2>2 DEF LinkPayment
  <2>5. BatchOK'
    BY <2>2, <2>4
  <2>6. ASSUME NEW c \in Batches, c # b
        PROVE  /\ pc'[c] \in {"insert", "link"} =>
                     \A q \in batch'[c] \ contested' :
                        IF q \in todo'[c] THEN link'[q] = NoBatch
                                          ELSE link'[q] = c
               /\ pc'[c] \in {"payout", "record", "fail", "announce"} =>
                     /\ todo'[c] = {}
                     /\ \A q \in batch'[c] \ contested' : link'[q] = c
    <3>1. /\ pc'[c] = pc[c] /\ todo'[c] = todo[c] /\ batch'[c] = batch[c]
          /\ \A q \in Payments : q # p => link'[q] = link[q]
          /\ batch[c] \subseteq Payments
      BY <2>4, <2>6
    <3>2. ASSUME pc[c] \in {"insert", "link"}
          PROVE  p \in batch[c] \ contested => FALSE
      BY <2>2, <2>3, <2>6, <3>2 DEF Working
    <3>3. ASSUME pc[c] \in {"payout", "record", "fail", "announce"}
          PROVE  p \in batch[c] \ contested => FALSE
      BY <2>2, <2>6, <3>3
    <3>4. QED
      BY <2>4, <3>1, <3>2, <3>3
  <2>7. /\ pc'[b] = "link" =>
              \A q \in batch'[b] \ contested' :
                  IF q \in todo'[b] THEN link'[q] = NoBatch ELSE link'[q] = b
        /\ pc'[b] = "payout" =>
              /\ todo'[b] = {}
              /\ \A q \in batch'[b] \ contested' : link'[q] = b
    BY <2>2, <2>4
  <2>8. LoopOK'
    BY <2>2, <2>4, <2>6, <2>7
  <2>9. PaidIsLinked'
    BY <2>2, <2>4
  <2>10. QED
    BY <2>5, <2>8, <2>9
<1>6. ASSUME NEW b \in Batches, ExecutePayout(b)
      PROVE  BatchOK' /\ LoopOK' /\ PaidIsLinked'
  BY <1>6 DEF ExecutePayout
<1>7. ASSUME NEW b \in Batches,
             RecordPayout(b) \/ RecordFailure(b) \/ Announce(b)
      PROVE  BatchOK' /\ LoopOK' /\ PaidIsLinked'
  BY <1>7 DEF RecordPayout, RecordFailure, Announce
<1>8. ASSUME NEW b \in Batches, DbError(b) \/ Die(b)
      PROVE  BatchOK' /\ LoopOK' /\ PaidIsLinked'
  BY <1>8 DEF DbError, Die, Working
<1>9. CASE \/ UNCHANGED vars
           \/ \E p \in Payments : Confirm(p)
           \/ \E b \in Batches : MarkCompleted(b)
  BY <1>9 DEF vars, Confirm, MarkCompleted, Stored
<1>10. QED
  BY <1>1, <1>2, <1>3, <1>4, <1>5, <1>6, <1>7, <1>8, <1>9
     DEF Next, CreateBatch

LEMMA SettlementInvariant == Spec => []SettlementInv
<1>1. Init => Apart /\ BatchOK /\ LoopOK /\ PaidIsLinked
  BY SettlementConstants
     DEF Init, Apart, BatchOK, LoopOK, PaidIsLinked, Working
<1>2. SettlementInv /\ TypeOK' /\ [Next]_vars => SettlementInv'
  BY StaysApart, StepKeepsBooks DEF SettlementInv
<1>3. QED
  BY <1>1, <1>2, SettlementTypes, PTL DEF Spec, SettlementInv

\* A payment is paid out in two settlements only if one batch queried it
\* while another at work had still to link it, whatever database call fails
\* and whichever call of createBatch dies in the middle: a retry after a
\* failure or a death, or a batch that comes later, never pays it again.
THEOREM PaidTwiceOnlyIfContested == Spec => []PaidOnce
<1>1. SettlementInv => PaidOnce
  BY SettlementConstants DEF SettlementInv, TypeOK, Statuses, BatchOK, PaidIsLinked,
     PaidOnce
<1>2. QED
  BY <1>1, SettlementInvariant, PTL

\* A settlement that was paid out lists the payments that are linked to it
\* and no others, also when recording the payout failed, but for payments two
\* batches at work had to link.
THEOREM PaidStaysLinked == Spec => []PaidIsLinked
<1>1. SettlementInv => PaidIsLinked
  BY DEF SettlementInv
<1>2. QED
  BY <1>1, SettlementInvariant, PTL

-----------------------------------------------------------------------------
\* A payment is linked by a batch that has reached the loop, the payout
\* precedes what records it, and nothing ends a call but a fault or its work.
RefusalInv ==
    /\ \A p \in Payments : link[p] # NoBatch =>
          pc[link[p]] \notin {"new", "query", "insert", "refused"}
    /\ \A b \in Batches :
          pc[b] \in {"record", "fail", "announce", "done"} => b \in paid
    /\ dbErrors = 0 /\ deaths = 0 =>
          \A b \in Batches : pc[b] \notin {"error", "lost"}

LEMMA RefusalStep ==
    ASSUME TypeOK, RefusalInv, [Next]_vars PROVE RefusalInv'
<1> USE SettlementConstants DEF TypeOK, Statuses, RefusalInv, GoTo, SetStatus, tables,
        outside, faults
<1>1. ASSUME NEW p \in Payments, Confirm(p) PROVE RefusalInv'
  BY <1>1 DEF Confirm
<1>2. ASSUME NEW b \in Batches, Ask(b) PROVE RefusalInv'
  BY <1>2 DEF Ask
<1>3. ASSUME NEW b \in Batches, QueryUnsettled(b) \/ Refuse(b) \/ Insert(b)
      PROVE  RefusalInv'
  BY <1>3 DEF QueryUnsettled, Refuse, Insert
<1>4. ASSUME NEW b \in Batches, LinkPayment(b) PROVE RefusalInv'
  <2>1. PICK p \in todo[b] :
            /\ link' = [link EXCEPT ![p] = b]
            /\ todo' = [todo EXCEPT ![b] = @ \ {p}]
            /\ GoTo(b, IF todo[b] = {p} THEN "payout" ELSE "link")
    BY <1>4 DEF LinkPayment
  <2>2. /\ paid' = paid /\ dbErrors' = dbErrors /\ deaths' = deaths
        /\ \A c \in Batches : c # b => pc'[c] = pc[c]
        /\ pc'[b] \in {"payout", "link"}
        /\ \A q \in Payments : link'[q] = IF q = p THEN b ELSE link[q]
    BY <1>4, <2>1 DEF LinkPayment
  <2>3. QED
    BY <2>2
<1>5. ASSUME NEW b \in Batches, ExecutePayout(b) PROVE RefusalInv'
  BY <1>5 DEF ExecutePayout
<1>6. ASSUME NEW b \in Batches,
             RecordPayout(b) \/ RecordFailure(b) \/ Announce(b)
      PROVE  RefusalInv'
  BY <1>6 DEF RecordPayout, RecordFailure, Announce
<1>7. ASSUME NEW b \in Batches, MarkCompleted(b) PROVE RefusalInv'
  BY <1>7 DEF MarkCompleted, Stored
<1>8. ASSUME NEW b \in Batches, DbError(b) PROVE RefusalInv'
  BY <1>8 DEF DbError
<1>9. ASSUME NEW b \in Batches, Die(b) PROVE RefusalInv'
  BY <1>9 DEF Die, Working
<1>10. CASE UNCHANGED vars
  BY <1>10 DEF vars
<1>11. QED
  BY <1>1, <1>2, <1>3, <1>4, <1>5, <1>6, <1>7, <1>8, <1>9, <1>10
     DEF Next, CreateBatch

\* The refusal "no confirmed, unsettled payments found" is true of the money:
\* as long as no call failed or died, each confirmed payment the refused batch
\* asks for was paid out or is in a batch that goes on to the payout.  
THEOREM RefusalsAreTrue == Spec => RefusalsTrue
<1> DEFINE Settling(b) ==
        pc[b] = "query" /\ pc'[b] = "refused" /\ dbErrors = 0 /\ deaths = 0
            => \A p \in Asked[b] \cap confirmed :
                  link[p] \in paid \cup {c \in Batches : pc[c] \in Working}
<1>1. Init => RefusalInv
  BY SettlementConstants DEF Init, RefusalInv
<1>2. TypeOK /\ RefusalInv /\ [Next]_vars => RefusalInv'
  BY RefusalStep
<1>3. ASSUME TypeOK, RefusalInv, [Next]_vars, NEW b \in Batches
      PROVE  Settling(b)
  <2> SUFFICES ASSUME pc[b] = "query", pc'[b] = "refused",
                      dbErrors = 0, deaths = 0,
                      NEW p \in Asked[b] \cap confirmed
               PROVE  link[p] \in paid \cup {c \in Batches : pc[c] \in Working}
    OBVIOUS
  <2>1. Unsettled(b) = {}
    <3>1. ASSUME NEW c \in Batches, c # b,
                 Ask(c) \/ CreateBatch(c) \/ DbError(c) \/ Die(c)
          PROVE  pc'[b] = pc[b]
      BY <1>3, <3>1 DEF TypeOK, GoTo, Ask, CreateBatch, QueryUnsettled, Refuse, Insert,
                  LinkPayment, ExecutePayout, RecordPayout, RecordFailure,
                  Announce, DbError, Die
    <3>2. CASE Refuse(b)
      BY <3>2 DEF Refuse
    <3>3. CASE Ask(b) \/ QueryUnsettled(b) \/ Insert(b) \/ LinkPayment(b)
               \/ ExecutePayout(b) \/ RecordPayout(b) \/ RecordFailure(b)
               \/ Announce(b) \/ DbError(b) \/ Die(b)
      BY <1>3, <3>3 DEF TypeOK, GoTo, Ask, QueryUnsettled, Insert, LinkPayment,
                  ExecutePayout, RecordPayout, RecordFailure, Announce,
                  DbError, Die
    <3>4. CASE \/ UNCHANGED vars
               \/ \E q \in Payments : Confirm(q)
               \/ \E c \in Batches : MarkCompleted(c)
      BY <3>4 DEF vars, Confirm, MarkCompleted
    <3>5. QED
      BY <1>3, <3>1, <3>2, <3>3, <3>4 DEF Next, CreateBatch
  <2>2. p \in Payments /\ link[p] # NoBatch
    BY <2>1, SettlementConstants DEF Unsettled, TypeOK
  <2>3. link[p] \in Batches
    BY <1>3, <2>2 DEF TypeOK
  <2>4. /\ pc[link[p]] \notin {"new", "query", "insert", "refused"}
        /\ pc[link[p]] \notin {"error", "lost"}
        /\ pc[link[p]] = "done" => link[p] \in paid
    BY <1>3, <2>2, <2>3 DEF RefusalInv
  <2>5. pc[link[p]] \in Working \/ pc[link[p]] = "done"
    BY <1>3, <2>3, <2>4 DEF TypeOK, Working, Ended
  <2>6. QED
    BY <2>3, <2>4, <2>5
<1>4. TypeOK /\ RefusalInv /\ [Next]_vars => [\A b \in Batches : Settling(b)]_vars
  BY <1>3
<1> HIDE DEF Settling
<1>5. Spec => [][\A b \in Batches : Settling(b)]_vars
  BY <1>1, <1>2, <1>4, SettlementTypes, PTL DEF Spec
<1>6. QED
  BY <1>5 DEF RefusalsTrue, Settling
=============================================================================
