----------------------- MODULE WebhookDeliveryProofs -----------------------
(***************************************************************************)
(* Proofs about WebhookDelivery: what holds whatever fails, and what holds *)
(* as long as the database answers.                                        *)
(***************************************************************************)
EXTENDS WebhookDelivery, TLAPS

Live(j) == jpc[j] # "free"

\* A slot holds a delivery exactly while its job is in memory; a queued job
\* holds no entity and a run is left; a free slot has not run.
SlotsOK ==
    \A j \in Jobs :
        /\ Live(j) => work[j] \in Deliveries
        /\ jpc[j] \in {"free", "queued"} => ent[j] = NoRow
        /\ jpc[j] \in {"free", "queued"} => runs[j] < MaxRuns
        /\ jpc[j] = "free" => runs[j] = 0

\* A success in memory, or in the table, was accepted.
SuccessOK ==
    /\ SuccessWasAccepted
    /\ \A j \in Jobs :
          Live(j) /\ ent[j].status = "success" => accepted[work[j]] > 0

FaultyInv == TypeOK /\ SlotsOK /\ SuccessOK

-----------------------------------------------------------------------------
(* Whatever fails.                                                         *)

LEMMA InitFaulty == ASSUME Init PROVE FaultyInv
  BY WebhookConstants DEF Init, FaultyInv, TypeOK, Delivery, DeliveryStatus, EndpointStatus, SlotsOK, SuccessOK,
     SuccessWasAccepted, Live, NoRow

LEMMA StepFaulty == ASSUME FaultyInv, [Next]_vars PROVE FaultyInv'
<1> USE WebhookConstants DEF FaultyInv, TypeOK, Delivery, DeliveryStatus, EndpointStatus, SlotsOK, SuccessOK,
        SuccessWasAccepted, Live, NoRow, dispatchVars, jobVars, Handling,
        Continue, Release
<1>1. ASSUME NEW e \in Endpoints, CreateEndpoint(e) \/ DeleteEndpoint(e)
      PROVE  FaultyInv'
  BY <1>1 DEF CreateEndpoint, DeleteEndpoint, Stored
<1>2. ASSUME NEW v \in Events, Emit(v) \/ DispatchFails(v) PROVE FaultyInv'
  <2>1. CASE Emit(v)
    BY <2>1 DEF Emit
  <2>2. CASE DispatchFails(v)
    <3>1. TypeOK'
      BY <2>2 DEF DispatchFails
    <3>2. SlotsOK'
      BY <2>2 DEF DispatchFails
    <3>3. SuccessOK'
      BY <2>2 DEF DispatchFails
    <3>4. QED
      BY <3>1, <3>2, <3>3
  <2>3. QED
    BY <1>2, <2>1, <2>2
<1>3. ASSUME NEW v \in Events, FindEndpoints(v) PROVE FaultyInv'
  BY <1>3 DEF FindEndpoints
<1>4. ASSUME NEW v \in Events, StoreDelivery(v) PROVE FaultyInv'
  <2>1. PICK e \in left[v] : row' = [row EXCEPT ![<<v, e>>] = NewRow]
    BY <1>4 DEF StoreDelivery
  <2>2. <<v, e>> \in Deliveries
    BY <2>1 DEF Deliveries
  <2>3. QED
    BY <1>4, <2>1, <2>2 DEF StoreDelivery, NewRow
<1>5. ASSUME NEW v \in Events, PublishDelivery(v) PROVE FaultyInv'
  <2>1. PICK e \in left[v] :
            /\ Publish(<<v, e>>)
            /\ left' = [left EXCEPT ![v] = @ \ {e}]
            /\ dpc' = [dpc EXCEPT ![v] =
                           IF left[v] = {e} THEN "ended" ELSE "store"]
    BY <1>5 DEF PublishDelivery
  <2>2. <<v, e>> \in Deliveries
    BY <2>1 DEF Deliveries
  <2>3. PICK j \in Jobs :
            /\ jpc[j] = "free"
            /\ jpc' = [jpc EXCEPT ![j] = "queued"]
            /\ work' = [work EXCEPT ![j] = <<v, e>>]
            /\ runs' = [runs EXCEPT ![j] = 0]
            /\ ent' = [ent EXCEPT ![j] = NoRow]
    BY <2>1 DEF Publish, FirstFree
  <2>4. UNCHANGED <<endpoint, row, accepted, dbErrors, restarts>>
    BY <1>5 DEF PublishDelivery
  <2>5. TypeOK'
    BY <2>1, <2>2, <2>3, <2>4
  <2>6. SlotsOK'
    BY <2>2, <2>3, <2>4
  <2>7. SuccessOK'
    BY <2>2, <2>3, <2>4
  <2>8. QED
    BY <2>5, <2>6, <2>7
<1>6. ASSUME NEW j \in Jobs, StartJob(j) PROVE FaultyInv'
  BY <1>6 DEF StartJob
<1>7. ASSUME NEW j \in Jobs, Load(j) PROVE FaultyInv'
  BY <1>7 DEF Load
<1>8. ASSUME NEW j \in Jobs, EndpointGone(j) \/ Attempt(j) PROVE FaultyInv'
  <2>1. PICK l \in {"post", "save"}, s \in {ent[j].status, "failed"},
             n \in Nat :
            /\ jpc' = [jpc EXCEPT ![j] = l]
            /\ ent' = [ent EXCEPT ![j] = [status |-> s, attempts |-> n]]
    BY <1>8 DEF EndpointGone, Attempt
  <2>2. jpc[j] = "check"
        /\ UNCHANGED <<endpoint, row, accepted, dpc, left, work, runs,
                        dbErrors, restarts>>
    BY <1>8 DEF EndpointGone, Attempt
  <2>3. TypeOK'
    BY <2>1, <2>2
  <2>4. SlotsOK'
    BY <2>1, <2>2
  <2>5. SuccessOK'
    BY <2>1, <2>2
  <2>6. QED
    BY <2>3, <2>4, <2>5
<1>9. ASSUME NEW j \in Jobs, Accepted(j) PROVE FaultyInv'
  BY <1>9 DEF Accepted
<1>10. ASSUME NEW j \in Jobs, Rejected(j) PROVE FaultyInv'
  <2>1. CASE accepted' = accepted
    BY <1>10, <2>1 DEF Rejected
  <2>2. CASE accepted' = [accepted EXCEPT ![work[j]] = @ + 1]
    BY <1>10, <2>2 DEF Rejected
  <2>3. QED
    BY <1>10, <2>1, <2>2 DEF Rejected
<1>11. ASSUME NEW j \in Jobs, SaveResult(j) PROVE FaultyInv'
  BY <1>11 DEF SaveResult
<1>12. ASSUME NEW j \in Jobs, GiveUp(j) PROVE FaultyInv'
  BY <1>12 DEF GiveUp
<1>13. ASSUME NEW j \in Jobs, RetryLater(j) PROVE FaultyInv'
  <2>1. PICK k \in Jobs :
            /\ jpc[k] = "free"
            /\ jpc' = [jpc EXCEPT ![k] = "queued", ![j] = "resave"]
            /\ work' = [work EXCEPT ![k] = work[j]]
    BY <1>13 DEF RetryLater, FirstFree
  <2>2. runs[k] < MaxRuns
    BY <2>1
  <2>3. TypeOK'
    BY <1>13, <2>1, <2>2 DEF RetryLater
  <2>4. SlotsOK'
    BY <1>13, <2>1, <2>2 DEF RetryLater
  <2>5. SuccessOK'
    BY <1>13, <2>1, <2>2 DEF RetryLater
  <2>6. QED
    BY <2>3, <2>4, <2>5
<1>14. ASSUME NEW j \in Jobs, SaveCaught(j) PROVE FaultyInv'
  BY <1>14 DEF SaveCaught
<1>15. ASSUME NEW j \in Jobs, HandlerThrows(j) PROVE FaultyInv'
  <2>1. /\ jpc[j] \in Handling
        /\ dbErrors' \in 0..MaxDbErrors
        /\ UNCHANGED <<endpoint, row, accepted, dpc, left, restarts>>
    BY <1>15 DEF HandlerThrows
  <2>2. CASE RunsLeft(j)
    <3>1. /\ jpc' = [jpc EXCEPT ![j] = "queued"]
          /\ ent' = [ent EXCEPT ![j] = NoRow]
          /\ UNCHANGED <<work, runs>>
      BY <1>15, <2>2 DEF HandlerThrows
    <3>2. QED
      BY <2>1, <2>2, <3>1 DEF RunsLeft
  <2>3. CASE ~RunsLeft(j)
    <3>1. /\ jpc' = [jpc EXCEPT ![j] = "free"]
          /\ work' = [work EXCEPT ![j] = NoDelivery]
          /\ runs' = [runs EXCEPT ![j] = 0]
          /\ ent' = [ent EXCEPT ![j] = NoRow]
      BY <1>15, <2>3 DEF HandlerThrows
    <3>2. QED
      BY <2>1, <3>1
  <2>4. QED
    BY <2>2, <2>3
<1>16. CASE Restart
  BY <1>16 DEF Restart
<1>17. CASE UNCHANGED vars
  BY <1>17 DEF vars
<1>18. QED
  BY <1>1, <1>2, <1>3, <1>4, <1>5, <1>6, <1>7, <1>8, <1>9, <1>10, <1>11,
     <1>12, <1>13, <1>14, <1>15, <1>16, <1>17
     DEF Next, DispatchStep, JobStep

\* A delivery is recorded as delivered only after a 2xx of its endpoint,
\* whatever database calls fail and however often the process is restarted.
THEOREM DeliveredTruly == Spec => [](TypeOK /\ SuccessWasAccepted)
<1>1. Init => FaultyInv
  BY InitFaulty
<1>2. FaultyInv /\ [Next]_vars => FaultyInv'
  BY StepFaulty
<1>3. FaultyInv => TypeOK /\ SuccessWasAccepted
  BY DEF FaultyInv, SuccessOK
<1>4. QED
  BY <1>1, <1>2, <1>3, PTL DEF Spec

-----------------------------------------------------------------------------
(* What the queue runs again.                                              *)

\* A run of a job after its first is owed to a failed call.
RunsCounted ==
    \A j \in Jobs : runs[j] <= dbErrors + (IF jpc[j] \in Handling THEN 1 ELSE 0)

LEMMA RunsStep == ASSUME FaultyInv, RunsCounted, [Next]_vars PROVE RunsCounted'
<1> USE WebhookConstants DEF FaultyInv, TypeOK, RunsCounted, SlotsOK, Handling,
        dispatchVars, jobVars, Continue, Release
<1>1. ASSUME NEW e \in Endpoints, CreateEndpoint(e) \/ DeleteEndpoint(e)
      PROVE  RunsCounted'
  BY <1>1 DEF CreateEndpoint, DeleteEndpoint
<1>2. ASSUME NEW v \in Events,
             Emit(v) \/ FindEndpoints(v) \/ StoreDelivery(v) \/ DispatchFails(v)
      PROVE  RunsCounted'
  <2>1. /\ UNCHANGED <<jpc, runs>>
        /\ dbErrors' = dbErrors \/ dbErrors' = dbErrors + 1
    BY <1>2 DEF Emit, FindEndpoints, StoreDelivery, DispatchFails
  <2>2. QED
    BY <2>1
<1>3. ASSUME NEW v \in Events, PublishDelivery(v) PROVE RunsCounted'
  <2>1. PICK j \in Jobs : /\ jpc' = [jpc EXCEPT ![j] = "queued"]
                          /\ runs' = [runs EXCEPT ![j] = 0]
    BY <1>3 DEF PublishDelivery, Publish
  <2>2. dbErrors' = dbErrors
    BY <1>3 DEF PublishDelivery
  <2>3. QED
    BY <2>1, <2>2
<1>4. ASSUME NEW j \in Jobs, StartJob(j) PROVE RunsCounted'
  BY <1>4 DEF StartJob
<1>5. ASSUME NEW j \in Jobs,
             Load(j) \/ EndpointGone(j) \/ Attempt(j) \/ Accepted(j)
                 \/ Rejected(j) \/ GiveUp(j)
      PROVE  RunsCounted'
  <2>1. PICK l \in Handling : jpc' = [jpc EXCEPT ![j] = l]
    BY <1>5 DEF Load, EndpointGone, Attempt, Accepted, Rejected, GiveUp
  <2>2. jpc[j] \in Handling /\ UNCHANGED <<runs, dbErrors>>
    BY <1>5 DEF Load, EndpointGone, Attempt, Accepted, Rejected, GiveUp
  <2>3. QED
    BY <2>1, <2>2
<1>6. ASSUME NEW j \in Jobs, SaveResult(j) PROVE RunsCounted'
  BY <1>6 DEF SaveResult
<1>7. ASSUME NEW j \in Jobs, RetryLater(j) PROVE RunsCounted'
  <2>1. PICK k \in Jobs :
            /\ jpc[k] = "free"
            /\ jpc' = [jpc EXCEPT ![k] = "queued", ![j] = "resave"]
    BY <1>7 DEF RetryLater, FirstFree
  <2>2. jpc[j] = "retry" /\ UNCHANGED <<runs, dbErrors>>
    BY <1>7 DEF RetryLater
  <2>3. QED
    BY <2>1, <2>2
<1>8. ASSUME NEW j \in Jobs, SaveCaught(j) PROVE RunsCounted'
  BY <1>8 DEF SaveCaught
<1>9. ASSUME NEW j \in Jobs, HandlerThrows(j) PROVE RunsCounted'
  <2>1. jpc[j] \in Handling /\ dbErrors' = dbErrors + 1
    BY <1>9 DEF HandlerThrows
  <2>2. CASE RunsLeft(j)
    BY <1>9, <2>1, <2>2 DEF HandlerThrows
  <2>3. CASE ~RunsLeft(j)
    BY <1>9, <2>1, <2>3 DEF HandlerThrows
  <2>4. QED
    BY <2>2, <2>3
<1>10. CASE Restart
  BY <1>10 DEF Restart
<1>11. CASE UNCHANGED vars
  BY <1>11 DEF vars
<1>12. QED
  BY <1>1, <1>2, <1>3, <1>4, <1>5, <1>6, <1>7, <1>8, <1>9, <1>10, <1>11
     DEF Next, DispatchStep, JobStep

-----------------------------------------------------------------------------
(* As long as the database answers, in less than the backoff.              *)

\* A job works on a pending delivery that has an attempt left.
JobInv ==
    \A j \in Jobs : Live(j) =>
        /\ row[work[j]].status = "pending"
        /\ row[work[j]].attempts < MaxAttempts
        /\ jpc[j] \in {"check", "post", "retry"} => ent[j].status = "pending"
        /\ jpc[j] = "check" => ent[j].attempts < MaxAttempts
        /\ ent[j].attempts <= MaxAttempts
        /\ jpc[j] = "save" => ent[j].status \in {"success", "failed"}
        /\ jpc[j] = "resave" =>
              \/ ent[j].status = "failed"
              \/ ent[j].status = "pending" /\ ent[j].attempts < MaxAttempts

\* Two jobs of one delivery are the last attempt and the next one.
Handover(j, k) ==
    jpc[j] = "resave" /\ ent[j].status = "pending" /\ jpc[k] = "queued"

PairInv ==
    \A j, k \in Jobs :
        j # k /\ Live(j) /\ Live(k) /\ work[j] = work[k]
            => Handover(j, k) \/ Handover(k, j)

\* What dispatchEvent has not stored is not in the table, and what it has not
\* published has no job.
DispatchOK(v, e) ==
    /\ dpc[v] \in {"new", "find"} => row[<<v, e>>].status = "none"
    /\ Unpublished(v, e) =>
          /\ row[<<v, e>>] = NewRow
          /\ \A j \in Jobs : Live(j) => work[j] # <<v, e>>

DispatchInv == \A v \in Events, e \in Endpoints : DispatchOK(v, e)

RowInv == \A d \in Deliveries : row[d].attempts <= MaxAttempts

CalmInv == FaultyInv /\ RunsCounted /\ JobInv /\ PairInv /\ DispatchInv /\ RowInv

LEMMA InitCalm == ASSUME Init PROVE CalmInv
<1>1. FaultyInv
  BY InitFaulty
<1>2. QED
  BY <1>1, WebhookConstants
     DEF Init, CalmInv, RunsCounted, JobInv, PairInv, DispatchInv, DispatchOK, RowInv,
         Live, NoRow, Deliveries, Unpublished

\* What keeps the row of a delivery and brings it no new job keeps DispatchOK.
LEMMA DispatchKept ==
    ASSUME NEW v \in Events, NEW e \in Endpoints, DispatchOK(v, e),
           dpc'[v] \in {"new", "find"} => dpc[v] \in {"new", "find"},
           e \in left'[v] => e \in left[v],
           row'[<<v, e>>] = row[<<v, e>>],
           Unpublished(v, e)' => \A j \in Jobs :
               Live(j)' /\ work'[j] = <<v, e>> => Live(j) /\ work[j] = <<v, e>>
    PROVE  DispatchOK(v, e)'
  BY DEF DispatchOK, Unpublished, NewRow

LEMMA StepCalm ==
    ASSUME ~SlowSaves, CalmInv, [Next]_vars, dbErrors' = 0 PROVE CalmInv'
<1> USE WebhookConstants DEF CalmInv, TypeOK, Delivery, DeliveryStatus, EndpointStatus, SlotsOK, Live, NoRow,
        dispatchVars, jobVars, Handling, Continue, Release
<1>a. FaultyInv' /\ RunsCounted'
  BY StepFaulty, RunsStep
<1>b. TypeOK /\ SlotsOK /\ dbErrors \in Nat /\ ~SlowSaves
  BY DEF FaultyInv
<1>c. \A v \in Events, e \in Endpoints : <<v, e>> \in Deliveries
  BY DEF Deliveries
<1> USE <1>b DEF JobInv, PairInv, Handover, DispatchInv, RowInv
<1>1. ASSUME NEW e \in Endpoints, CreateEndpoint(e) \/ DeleteEndpoint(e)
      PROVE  CalmInv'
  <2>1. UNCHANGED <<row, dpc, left, jpc, work, ent>>
    BY <1>1 DEF CreateEndpoint, DeleteEndpoint, Stored
  <2>2. DispatchInv'
    BY <2>1, DispatchKept
  <2>3. QED
    BY <1>a, <2>1, <2>2
<1>2. ASSUME NEW v \in Events, Emit(v) PROVE CalmInv'
  <2>1. UNCHANGED <<row, left, jpc, work, ent>>
    BY <1>2 DEF Emit
  <2>2. \A w \in Events : dpc'[w] \in {"new", "find"} => dpc[w] \in {"new", "find"}
    BY <1>2 DEF Emit
  <2>3. DispatchInv'
    BY <2>1, <2>2, DispatchKept DEF DispatchInv
  <2>4. QED
    BY <1>a, <2>1, <2>3
<1>3. ASSUME NEW v \in Events, FindEndpoints(v) PROVE CalmInv'
  <2>1. /\ dpc[v] = "find"
        /\ \A w \in Events : w # v => dpc'[w] = dpc[w] /\ left'[w] = left[w]
        /\ UNCHANGED <<row, jpc, work, ent>>
    BY <1>3 DEF FindEndpoints
  <2>2. ASSUME NEW w \in Events, NEW f \in Endpoints PROVE DispatchOK(w, f)'
    <3>1. CASE w = v
      <4>1. row[<<w, f>>].status = "none"
        BY <2>1, <3>1 DEF DispatchOK
      <4>2. QED
        BY <2>1, <4>1 DEF DispatchOK, Unpublished
    <3>2. CASE w # v
      <4>1. DispatchOK(w, f)
        OBVIOUS
      <4>2. QED
        BY <2>1, <3>2, <4>1, DispatchKept
    <3>3. QED
      BY <3>1, <3>2
  <2>3. QED
    BY <1>a, <2>1, <2>2
<1>4. ASSUME NEW v \in Events, StoreDelivery(v) PROVE CalmInv'
  <2>1. PICK e \in left[v] : /\ row[<<v, e>>].status = "none"
                             /\ row' = [row EXCEPT ![<<v, e>>] = NewRow]
    BY <1>4 DEF StoreDelivery
  <2>2. \A j \in Jobs : Live(j) => work[j] # <<v, e>>
    BY <2>1
  <2>3. /\ dpc' = [dpc EXCEPT ![v] = "publish"]
        /\ UNCHANGED <<left, jpc, work, ent>>
    BY <1>4 DEF StoreDelivery
  <2>4. \A d \in Deliveries : d # <<v, e>> => row'[d] = row[d]
    BY <2>1
  <2>5. row'[<<v, e>>] = NewRow
    BY <2>1, <1>c
  <2>6. JobInv' /\ PairInv'
    BY <2>2, <2>3, <2>4
  <2>7. ASSUME NEW w \in Events, NEW f \in Endpoints PROVE DispatchOK(w, f)'
    <3>1. DispatchOK(w, f)
      OBVIOUS
    <3>2. dpc'[w] \in {"new", "find"} => dpc[w] \in {"new", "find"} /\ w # v
      BY <2>3
    <3>3. CASE <<w, f>> = <<v, e>>
      BY <2>2, <2>3, <2>5, <3>2, <3>3 DEF DispatchOK, NewRow
    <3>4. CASE <<w, f>> # <<v, e>>
      <4>1. row'[<<w, f>>] = row[<<w, f>>]
        BY <2>4, <3>4, <1>c
      <4>2. QED
        BY <2>3, <3>1, <3>2, <4>1, DispatchKept
    <3>5. QED
      BY <3>3, <3>4
  <2>8. RowInv'
    <3>1. row'[<<v, e>>].attempts <= MaxAttempts
      BY <2>5 DEF NewRow
    <3>2. QED
      BY <2>4, <3>1
  <2>9. QED
    BY <1>a, <2>6, <2>7, <2>8
<1>5. ASSUME NEW v \in Events, PublishDelivery(v) PROVE CalmInv'
  <2>1. PICK e \in left[v] :
            /\ Unpublished(v, e)
            /\ Publish(<<v, e>>)
            /\ left' = [left EXCEPT ![v] = @ \ {e}]
            /\ dpc' = [dpc EXCEPT ![v] =
                           IF left[v] = {e} THEN "ended" ELSE "store"]
    BY <1>5 DEF PublishDelivery
  <2>2. PICK j \in Jobs :
            /\ jpc[j] = "free"
            /\ jpc' = [jpc EXCEPT ![j] = "queued"]
            /\ work' = [work EXCEPT ![j] = <<v, e>>]
            /\ ent' = [ent EXCEPT ![j] = NoRow]
    BY <2>1 DEF Publish, FirstFree
  <2>3. row' = row
    BY <1>5 DEF PublishDelivery
  <2>4. DispatchOK(v, e)
    OBVIOUS
  <2>5. /\ row[<<v, e>>] = NewRow
        /\ \A k \in Jobs : Live(k) => work[k] # <<v, e>>
    BY <2>1, <2>4 DEF DispatchOK
  <2>6. row[<<v, e>>].status = "pending" /\ row[<<v, e>>].attempts = 0
    BY <2>5 DEF NewRow
  <2>7. JobInv'
    BY <2>2, <2>3, <2>6
  <2>8. PairInv'
    BY <2>2, <2>5
  <2>9. ASSUME NEW w \in Events, NEW f \in Endpoints PROVE DispatchOK(w, f)'
    <3>1. DispatchOK(w, f)
      OBVIOUS
    <3>2. dpc'[w] \in {"new", "find"} => dpc[w] \in {"new", "find"}
      BY <2>1
    <3>3. f \in left'[w] => f \in left[w] /\ <<w, f>> # <<v, e>>
      BY <2>1
    <3>4. Unpublished(w, f)' => \A k \in Jobs :
              Live(k)' /\ work'[k] = <<w, f>> => Live(k) /\ work[k] = <<w, f>>
      BY <2>2, <3>3 DEF Unpublished
    <3>5. QED
      BY <2>3, <3>1, <3>2, <3>3, <3>4, DispatchKept
  <2>10. QED
    BY <1>a, <2>3, <2>7, <2>8, <2>9
<1>6. ASSUME NEW j \in Jobs, StartJob(j) PROVE CalmInv'
  <2>0. runs[j] = 0
    BY <1>6 DEF StartJob, RunsCounted
  <2>1. \A k \in Jobs : k # j /\ Live(k) => work[k] # work[j]
    BY <1>6, <2>0 DEF StartJob, BackoffOver
  <2>2. /\ jpc' = [jpc EXCEPT ![j] = "load"] /\ jpc[j] = "queued"
        /\ UNCHANGED <<row, dpc, left, work, ent>>
    BY <1>6 DEF StartJob
  <2>3. JobInv' /\ PairInv'
    BY <2>1, <2>2
  <2>4. \A k \in Jobs : Live(k)' <=> Live(k)
    BY <2>2
  <2>5. DispatchInv'
    BY <2>2, <2>4, DispatchKept DEF DispatchInv
  <2>6. QED
    BY <1>a, <2>2, <2>3, <2>5
<1>7. ASSUME NEW j \in Jobs,
             Load(j) \/ EndpointGone(j) \/ Attempt(j) \/ Accepted(j)
                 \/ Rejected(j) \/ GiveUp(j)
      PROVE  CalmInv'
  <2>1. /\ jpc[j] \in {"load", "check", "post", "retry"}
        /\ UNCHANGED <<row, dpc, left, work>>
    BY <1>7 DEF Load, EndpointGone, Attempt, Accepted, Rejected, GiveUp
  <2>2. PICK l \in Handling, r \in {ent'[j]} :
            /\ jpc' = [jpc EXCEPT ![j] = l]
            /\ ent' = [ent EXCEPT ![j] = r]
    BY <1>7 DEF Load, EndpointGone, Attempt, Accepted, Rejected, GiveUp
  <2>3. \A k \in Jobs : k # j /\ Live(k) => work[k] # work[j]
    BY <2>1
  <2>4. /\ l \in {"check", "post", "retry"} => r.status = "pending"
        /\ l = "check" => r.attempts < MaxAttempts
        /\ r.attempts <= MaxAttempts
        /\ l = "save" => r.status \in {"success", "failed"}
        /\ l = "resave" => r.status = "failed"
    BY <1>7, <2>2 DEF Load, EndpointGone, Attempt, Accepted, Rejected, GiveUp
  <2>5. JobInv'
    BY <2>1, <2>2, <2>4
  <2>6. PairInv'
    BY <2>1, <2>2, <2>3
  <2>7. DispatchInv'
    <3>1. \A k \in Jobs : Live(k)' <=> Live(k)
      BY <2>1, <2>2
    <3>2. ASSUME NEW v \in Events, NEW e \in Endpoints PROVE DispatchOK(v, e)'
      <4>1. DispatchOK(v, e)
        BY DEF DispatchInv
      <4>2. Unpublished(v, e)' => \A k \in Jobs :
                Live(k)' /\ work'[k] = <<v, e>> => Live(k) /\ work[k] = <<v, e>>
        BY <2>1, <3>1
      <4>3. QED
        BY <2>1, <4>1, <4>2, DispatchKept
    <3>3. QED
      BY <3>2 DEF DispatchInv
  <2>8. QED
    BY <1>a, <2>1, <2>5, <2>6, <2>7
<1>8. ASSUME NEW j \in Jobs, SaveResult(j) PROVE CalmInv'
  <2>1. /\ jpc[j] \in {"save", "resave"}
        /\ row' = [row EXCEPT ![work[j]] = ent[j]]
        /\ jpc' = [jpc EXCEPT ![j] = "free"]
        /\ work' = [work EXCEPT ![j] = NoDelivery]
        /\ ent' = [ent EXCEPT ![j] = NoRow]
        /\ UNCHANGED <<dpc, left>>
    BY <1>8 DEF SaveResult
  <2>2. \A d \in Deliveries :
            row'[d] = IF d = work[j] THEN ent[j] ELSE row[d]
    BY <2>1
  <2>3. \A k \in Jobs : k # j /\ Live(k) /\ work[k] = work[j] =>
            /\ jpc[k] = "queued"
            /\ ent[j].status = "pending"
            /\ ent[j].attempts < MaxAttempts
    BY <2>1
  <2>4. JobInv'
    BY <2>1, <2>2, <2>3
  <2>5. PairInv'
    BY <2>1
  <2>6. ASSUME NEW w \in Events, NEW f \in Endpoints PROVE DispatchOK(w, f)'
    <3>1. DispatchOK(w, f)
      OBVIOUS
    <3>2. CASE work[j] = <<w, f>>
      <4>1. Live(j) /\ row[work[j]].status = "pending"
        BY <2>1
      <4>2. dpc[w] \notin {"new", "find"} /\ f \notin left[w]
        BY <3>1, <3>2, <4>1 DEF DispatchOK, Unpublished
      <4>3. QED
        BY <2>1, <4>2 DEF DispatchOK, Unpublished
    <3>3. CASE work[j] # <<w, f>>
      <4>1. row'[<<w, f>>] = row[<<w, f>>]
        BY <2>2, <3>3, <1>c
      <4>2. \A k \in Jobs : Live(k)' => Live(k) /\ work'[k] = work[k]
        BY <2>1
      <4>3. QED
        BY <2>1, <3>1, <4>1, <4>2, DispatchKept
    <3>4. QED
      BY <3>2, <3>3
  <2>7. RowInv'
    BY <2>1, <2>2
  <2>8. QED
    BY <1>a, <2>4, <2>5, <2>6, <2>7
<1>9. ASSUME NEW j \in Jobs, RetryLater(j) PROVE CalmInv'
  <2>1. PICK k \in Jobs :
            /\ jpc[k] = "free"
            /\ jpc' = [jpc EXCEPT ![k] = "queued", ![j] = "resave"]
            /\ work' = [work EXCEPT ![k] = work[j]]
    BY <1>9 DEF RetryLater, FirstFree
  <2>2. /\ jpc[j] = "retry" /\ ent[j].attempts < MaxAttempts
        /\ UNCHANGED <<row, dpc, left, ent>>
    BY <1>9 DEF RetryLater, Exhausted
  <2>3. \A m \in Jobs : m # j /\ Live(m) => work[m] # work[j]
    BY <2>2
  <2>4. JobInv'
    BY <2>1, <2>2
  <2>5. PairInv'
    BY <2>1, <2>2, <2>3
  <2>6. ASSUME NEW w \in Events, NEW f \in Endpoints PROVE DispatchOK(w, f)'
    <3>1. DispatchOK(w, f)
      OBVIOUS
    <3>2. \A m \in Jobs : Live(m)' =>
              work'[m] = work[j] \/ (Live(m) /\ work'[m] = work[m])
      BY <2>1, <2>2
    <3>3. Live(j) /\ UNCHANGED <<row, dpc, left>>
      BY <2>2
    <3>4. Unpublished(w, f)' => work[j] # <<w, f>>
      BY <3>1, <3>3 DEF DispatchOK, Unpublished
    <3>5. QED
      BY <3>1, <3>2, <3>3, <3>4, DispatchKept
  <2>7. QED
    BY <1>a, <2>2, <2>4, <2>5, <2>6
<1>10. CASE Restart
  <2>1. /\ UNCHANGED row
        /\ left' = [v \in Events |-> {}]
        /\ dpc' = [v \in Events |-> IF dpc[v] = "new" THEN "new" ELSE "ended"]
        /\ \A j \in Jobs : ~Live(j)'
    BY <1>10 DEF Restart
  <2>2. ASSUME NEW w \in Events, NEW f \in Endpoints PROVE DispatchOK(w, f)'
    <3>1. DispatchOK(w, f)
      OBVIOUS
    <3>2. QED
      BY <2>1, <3>1, DispatchKept
  <2>3. QED
    BY <1>a, <2>1, <2>2
<1>11. CASE UNCHANGED vars
  <2>1. UNCHANGED <<row, dpc, left, jpc, work, ent>>
    BY <1>11 DEF vars
  <2>2. DispatchInv'
    BY <2>1, DispatchKept DEF DispatchInv
  <2>3. QED
    BY <1>a, <2>1, <2>2
<1>12. ASSUME NEW v \in Events PROVE ~DispatchFails(v)
  BY DEF DispatchFails
<1>13. ASSUME NEW j \in Jobs PROVE ~SaveCaught(j) /\ ~HandlerThrows(j)
  BY DEF SaveCaught, HandlerThrows
<1>14. QED
  BY <1>1, <1>2, <1>3, <1>4, <1>5, <1>6, <1>7, <1>8, <1>9, <1>10, <1>11,
     <1>12, <1>13 DEF Next, DispatchStep, JobStep

\* Once a call has failed none of this is claimed any more.
DutyInv == FaultyInv /\ (dbErrors = 0 => CalmInv)

LEMMA StepDuty == ASSUME ~SlowSaves, DutyInv, [Next]_vars PROVE DutyInv'
<1>1. FaultyInv'
  BY StepFaulty DEF DutyInv
<1>2. ASSUME dbErrors' = 0 PROVE CalmInv'
  <2>1. dbErrors \in Nat
    BY WebhookConstants DEF DutyInv, FaultyInv, TypeOK, Delivery, DeliveryStatus, EndpointStatus
  <2>2. dbErrors' = dbErrors \/ dbErrors' = dbErrors + 1
    BY DEF Next, vars, DispatchStep, JobStep, CreateEndpoint, DeleteEndpoint,
           Emit, DispatchFails, FindEndpoints, StoreDelivery, PublishDelivery,
           StartJob, Load, EndpointGone, Attempt, Accepted, Rejected,
           SaveResult, GiveUp, RetryLater, SaveCaught, HandlerThrows, Restart
  <2>3. dbErrors = 0
    BY <1>2, <2>1, <2>2
  <2>4. QED
    BY <1>2, <2>3, StepCalm DEF DutyInv
<1>3. QED
  BY <1>1, <1>2 DEF DutyInv

\* From the initial state on a delivery and its job keep their duties.
LEMMA DutyInvariant == ASSUME ~SlowSaves PROVE Spec => []DutyInv
<1>1. Init => DutyInv
  BY InitFaulty, InitCalm DEF DutyInv
<1>2. DutyInv /\ [Next]_vars => DutyInv'
  BY StepDuty
<1>3. QED
  BY <1>1, <1>2, PTL DEF Spec

\* As long as the database answers, and answers before the backoff is over, a
\* delivery is in one job at a time; restarts of the process do not change it.
THEOREM DeliveredInTurn == ASSUME ~SlowSaves PROVE Spec => []OneJob
<1>1. DutyInv => OneJob
  BY WebhookConstants
     DEF DutyInv, CalmInv, JobInv, PairInv, RowInv, Handover, FaultyInv, TypeOK,
         Delivery, DeliveryStatus, EndpointStatus, OneJob, JobOf, Live
<1>2. QED
  BY <1>1, DutyInvariant, PTL

\* As long as the database answers, and in time, a delivery that has a result
\* is executed no more: no job that comes back asks its endpoint again.
THEOREM ResultsAreFinal == ASSUME ~SlowSaves PROVE Spec => []ResultIsFinal
<1>1. DutyInv => ResultIsFinal
  BY WebhookConstants
     DEF DutyInv, CalmInv, JobInv, PairInv, RowInv, Handover, FaultyInv, TypeOK,
         Delivery, DeliveryStatus, EndpointStatus, ResultIsFinal, JobOf, Live
<1>2. QED
  BY <1>1, DutyInvariant, PTL

\* As long as the database answers, and in time, an endpoint is asked at most
\* MaxAttempts times for one delivery, through any restarts.
THEOREM AttemptsAreBounded == ASSUME ~SlowSaves PROVE Spec => []AttemptsBounded
<1>1. DutyInv => AttemptsBounded
  BY WebhookConstants
     DEF DutyInv, CalmInv, JobInv, PairInv, RowInv, Handover, FaultyInv, TypeOK,
         Delivery, DeliveryStatus, EndpointStatus, AttemptsBounded, JobOf, Live
<1>2. QED
  BY <1>1, DutyInvariant, PTL

-----------------------------------------------------------------------------
(* In one life of the process, while the database fails less than MaxRuns  *)
(* times: no pending delivery is forgotten.                                *)

\* A job's delivery is stored, and so is what its handler read; a result that
\* is saved is none to wait for.
EntityKnown ==
    \A j \in Jobs : Live(j) =>
        /\ row[work[j]].status # "none"
        /\ jpc[j] \in {"check", "post", "save", "retry", "resave"}
              => ent[j].status # "none"
        /\ jpc[j] = "save" => ent[j].status # "pending"

\* The loop of dispatchEvent stores one delivery ahead of its publications.
LoopAhead(v) ==
    /\ dpc[v] \in {"new", "find"} =>
          \A e \in Endpoints : row[<<v, e>>].status = "none"
    /\ dpc[v] = "store" => \A e \in left[v] : row[<<v, e>>].status = "none"
    /\ dpc[v] = "publish" => \A e, f \in left[v] :
          e = f \/ row[<<v, e>>].status = "none" \/ row[<<v, f>>].status = "none"
    /\ dpc[v] = "ended" => left[v] = {}

\* Before a handler saves that an attempt is left, the job that makes it waits
\* for its first run.
FirstRun(k, d) == jpc[k] = "queued" /\ work[k] = d /\ runs[k] = 0

NextQueued ==
    \A j \in Jobs : jpc[j] = "resave" /\ ent[j].status = "pending" =>
        \E k \in Jobs : FirstRun(k, work[j])

MemoryInv ==
    /\ FaultyInv
    /\ RunsCounted
    /\ EntityKnown
    /\ \A v \in Events : LoopAhead(v)
    /\ NextQueued

LEMMA InitMemory == ASSUME Init PROVE MemoryInv
<1>1. FaultyInv
  BY InitFaulty
<1>2. QED
  BY <1>1, WebhookConstants
     DEF Init, MemoryInv, RunsCounted, EntityKnown, LoopAhead, NextQueued, Live,
         NoRow, Handling, Deliveries

LEMMA KnownStep ==
    ASSUME FaultyInv, EntityKnown, [Next]_vars PROVE EntityKnown'
<1> USE WebhookConstants DEF FaultyInv, TypeOK, Delivery, DeliveryStatus, SlotsOK,
        EntityKnown, Live, dispatchVars, jobVars, Continue, Release
<1>1. ASSUME NEW e \in Endpoints, CreateEndpoint(e) \/ DeleteEndpoint(e)
      PROVE  EntityKnown'
  BY <1>1 DEF CreateEndpoint, DeleteEndpoint
<1>2. ASSUME NEW v \in Events, Emit(v) \/ FindEndpoints(v) \/ DispatchFails(v)
      PROVE  EntityKnown'
  <2>1. UNCHANGED <<row, jpc, work, ent>>
    BY <1>2 DEF Emit, FindEndpoints, DispatchFails
  <2>2. QED
    BY <2>1
<1>3. ASSUME NEW v \in Events, StoreDelivery(v) PROVE EntityKnown'
  <2>1. PICK e \in left[v] : row' = [row EXCEPT ![<<v, e>>] = NewRow]
    BY <1>3 DEF StoreDelivery
  <2>2. \A d \in Deliveries : row[d].status # "none" => row'[d].status # "none"
    BY <2>1 DEF NewRow
  <2>3. UNCHANGED <<jpc, work, ent>>
    BY <1>3 DEF StoreDelivery
  <2>4. QED
    BY <2>2, <2>3
<1>4. ASSUME NEW v \in Events, PublishDelivery(v) PROVE EntityKnown'
  <2>1. PICK e \in left[v] : row[<<v, e>>].status # "none" /\ Publish(<<v, e>>)
    BY <1>4 DEF PublishDelivery, Unpublished
  <2>2. PICK j \in Jobs :
            /\ jpc' = [jpc EXCEPT ![j] = "queued"]
            /\ work' = [work EXCEPT ![j] = <<v, e>>]
            /\ ent' = [ent EXCEPT ![j] = NoRow]
    BY <2>1 DEF Publish
  <2>3. row' = row
    BY <1>4 DEF PublishDelivery
  <2>4. QED
    BY <2>1, <2>2, <2>3
<1>5. ASSUME NEW j \in Jobs, StartJob(j) PROVE EntityKnown'
  BY <1>5 DEF StartJob
<1>6. ASSUME NEW j \in Jobs,
             Load(j) \/ EndpointGone(j) \/ Attempt(j) \/ Accepted(j)
                 \/ Rejected(j) \/ GiveUp(j) \/ SaveCaught(j)
      PROVE  EntityKnown'
  <2>1. Live(j) /\ UNCHANGED <<row, work>>
    BY <1>6 DEF Load, EndpointGone, Attempt, Accepted, Rejected, GiveUp, SaveCaught
  <2>2. /\ ent'[j].status # "none"
        /\ jpc'[j] = "save" => ent'[j].status # "pending"
    BY <1>6, <2>1
       DEF Load, EndpointGone, Attempt, Accepted, Rejected, GiveUp, SaveCaught
  <2>3. \A k \in Jobs : k # j => jpc'[k] = jpc[k] /\ ent'[k] = ent[k]
    BY <1>6 DEF Load, EndpointGone, Attempt, Accepted, Rejected, GiveUp, SaveCaught
  <2>4. QED
    BY <2>1, <2>2, <2>3
<1>7. ASSUME NEW j \in Jobs, SaveResult(j) PROVE EntityKnown'
  <2>1. /\ Live(j) /\ ent[j].status # "none"
        /\ row' = [row EXCEPT ![work[j]] = ent[j]]
        /\ jpc' = [jpc EXCEPT ![j] = "free"]
        /\ \A k \in Jobs : k # j => work'[k] = work[k] /\ ent'[k] = ent[k]
    BY <1>7 DEF SaveResult
  <2>2. \A d \in Deliveries : row[d].status # "none" => row'[d].status # "none"
    BY <2>1
  <2>3. QED
    BY <2>1, <2>2
<1>8. ASSUME NEW j \in Jobs, RetryLater(j) PROVE EntityKnown'
  <2>1. PICK k \in Jobs :
            /\ jpc[k] = "free"
            /\ jpc' = [jpc EXCEPT ![k] = "queued", ![j] = "resave"]
            /\ work' = [work EXCEPT ![k] = work[j]]
    BY <1>8 DEF RetryLater, FirstFree
  <2>2. jpc[j] = "retry" /\ UNCHANGED <<row, ent>>
    BY <1>8 DEF RetryLater
  <2>3. QED
    BY <2>1, <2>2
<1>9. ASSUME NEW j \in Jobs, HandlerThrows(j) PROVE EntityKnown'
  <2>1. Live(j) /\ UNCHANGED row
    BY <1>9 DEF HandlerThrows
  <2>2. CASE RunsLeft(j)
    BY <1>9, <2>1, <2>2 DEF HandlerThrows
  <2>3. CASE ~RunsLeft(j)
    BY <1>9, <2>1, <2>3 DEF HandlerThrows
  <2>4. QED
    BY <2>2, <2>3
<1>10. CASE Restart
  BY <1>10 DEF Restart
<1>11. CASE UNCHANGED vars
  BY <1>11 DEF vars
<1>12. QED
  BY <1>1, <1>2, <1>3, <1>4, <1>5, <1>6, <1>7, <1>8, <1>9, <1>10, <1>11
     DEF Next, DispatchStep, JobStep

\* Only the loop of dispatchEvent stores a delivery, and none is deleted.
LEMMA StoredKept ==
    ASSUME FaultyInv, EntityKnown, [Next]_vars,
           \A v \in Events : ~StoreDelivery(v)
    PROVE  \A d \in Deliveries : row'[d].status = "none" <=> row[d].status = "none"
<1>1. CASE row' = row
  BY <1>1
<1>2. ASSUME NEW j \in Jobs, SaveResult(j)
      PROVE  \A d \in Deliveries :
                row'[d].status = "none" <=> row[d].status = "none"
  <2>1. /\ work[j] \in Deliveries
        /\ row[work[j]].status # "none"
        /\ ent[j].status # "none"
        /\ row' = [row EXCEPT ![work[j]] = ent[j]]
    BY <1>2 DEF SaveResult, FaultyInv, SlotsOK, EntityKnown, Live
  <2>2. row \in [Deliveries -> Delivery]
    BY DEF FaultyInv, TypeOK
  <2>3. QED
    BY <2>1, <2>2
<1>3. QED
  BY <1>1, <1>2
     DEF Next, vars, DispatchStep, JobStep, CreateEndpoint, DeleteEndpoint, Emit,
         DispatchFails, FindEndpoints, PublishDelivery, StartJob, Load,
         EndpointGone, Attempt, Accepted, Rejected, GiveUp, RetryLater,
         SaveCaught, HandlerThrows, Restart

LEMMA LoopStep ==
    ASSUME FaultyInv, EntityKnown, [Next]_vars, NEW w \in Events, LoopAhead(w)
    PROVE  LoopAhead(w)'
<1> USE WebhookConstants DEF FaultyInv, TypeOK
<1>1. \A e \in Endpoints : <<w, e>> \in Deliveries
  BY DEF Deliveries
<1>2. CASE \A v \in Events : ~StoreDelivery(v)
  <2>1. \A e \in Endpoints : row'[<<w, e>>].status = "none"
                                 <=> row[<<w, e>>].status = "none"
    BY <1>1, <1>2, StoredKept
  <2>2. CASE UNCHANGED <<dpc[w], left[w]>>
    BY <2>1, <2>2 DEF LoopAhead
  <2>3. CASE Emit(w)
    BY <2>1, <2>3 DEF Emit, LoopAhead
  <2>4. CASE FindEndpoints(w)
    <3>1. \A e \in Endpoints : row'[<<w, e>>].status = "none"
      BY <2>1, <2>4 DEF FindEndpoints, LoopAhead
    <3>2. /\ left'[w] \subseteq Endpoints
          /\ dpc'[w] = "store" \/ (dpc'[w] = "ended" /\ left'[w] = {})
      <4> DEFINE matching == {e \in Listens[w] : endpoint[e] = "active"}
      <4>1. matching \subseteq Endpoints
        OBVIOUS
      <4>2. /\ left' = [left EXCEPT ![w] = matching]
            /\ dpc' = [dpc EXCEPT ![w] = IF matching = {} THEN "ended" ELSE "store"]
        BY <2>4 DEF FindEndpoints
      <4>3. w \in DOMAIN left /\ w \in DOMAIN dpc
        OBVIOUS
      <4> HIDE DEF matching, FaultyInv, TypeOK
      <4>4. QED
        BY <4>1, <4>2, <4>3
    <3>3. QED
      BY <3>1, <3>2 DEF LoopAhead
  <2>5. CASE PublishDelivery(w)
    <3>1. PICK e \in left[w] :
              /\ row[<<w, e>>].status # "none"
              /\ left' = [left EXCEPT ![w] = @ \ {e}]
              /\ dpc' = [dpc EXCEPT ![w] =
                             IF left[w] = {e} THEN "ended" ELSE "store"]
      BY <2>5 DEF PublishDelivery, Unpublished
    <3>2. dpc[w] = "publish"
      BY <2>5 DEF PublishDelivery
    <3>3. \A f \in left[w] : f # e => row[<<w, f>>].status = "none"
      BY <3>1, <3>2 DEF LoopAhead
    <3>4. QED
      BY <2>1, <3>1, <3>2, <3>3 DEF LoopAhead
  <2>6. CASE DispatchFails(w) \/ Restart
    <3>1. left'[w] = {}
      BY <2>6 DEF DispatchFails, Restart
    <3>2. dpc'[w] = "ended" \/ dpc'[w] = dpc[w]
      BY <2>6 DEF DispatchFails, Restart
    <3>3. CASE dpc'[w] = "ended"
      BY <3>1, <3>3 DEF LoopAhead
    <3>4. CASE dpc'[w] = dpc[w]
      BY <2>1, <3>1, <3>4 DEF LoopAhead
    <3>5. QED
      BY <3>2, <3>3, <3>4
  <2>7. QED
    <3>1. ASSUME NEW v \in Events, v # w,
                 Emit(v) \/ DispatchStep(v) \/ DispatchFails(v)
          PROVE  UNCHANGED <<dpc[w], left[w]>>
      BY <1>2, <3>1 DEF DispatchStep, Emit, FindEndpoints, PublishDelivery,
                        DispatchFails
    <3>2. CASE \/ \E e \in Endpoints : CreateEndpoint(e) \/ DeleteEndpoint(e)
               \/ \E j \in Jobs : JobStep(j) \/ SaveCaught(j) \/ HandlerThrows(j)
               \/ UNCHANGED vars
      <4>1. UNCHANGED <<dpc, left>>
        BY <3>2 DEF vars, dispatchVars, JobStep, CreateEndpoint, DeleteEndpoint,
             StartJob, Load, EndpointGone, Attempt, Accepted, Rejected,
             SaveResult, GiveUp, RetryLater, SaveCaught, HandlerThrows
      <4>2. QED
        BY <4>1, <2>2
    <3>3. QED
      BY <1>2, <2>2, <2>3, <2>4, <2>5, <2>6, <3>1, <3>2 DEF Next, DispatchStep
<1>3. ASSUME NEW v \in Events, StoreDelivery(v) PROVE LoopAhead(w)'
  <2>1. PICK e \in left[v] : row' = [row EXCEPT ![<<v, e>>] = NewRow]
    BY <1>3 DEF StoreDelivery
  <2>2. dpc[v] = "store" /\ dpc' = [dpc EXCEPT ![v] = "publish"] /\ left' = left
    BY <1>3 DEF StoreDelivery
  <2>3. CASE w = v
    <3>1. \A f \in left[v] : f # e => row'[<<v, f>>].status = "none"
      BY <1>1, <2>1, <2>2, <2>3 DEF LoopAhead
    <3>2. QED
      BY <2>2, <2>3, <3>1 DEF LoopAhead
  <2>4. CASE w # v
    <3>1. \A f \in Endpoints : row'[<<w, f>>] = row[<<w, f>>]
      BY <1>1, <2>1, <2>4
    <3>2. QED
      BY <2>2, <2>4, <3>1 DEF LoopAhead
  <2>5. QED
    BY <2>3, <2>4
<1>4. QED
  BY <1>2, <1>3

\* A job that leaves its handler leaves the waiting jobs alone.
LEMMA OthersWait ==
    ASSUME NextQueued, NEW j \in Jobs,
           jpc[j] # "queued", jpc'[j] \in {"free", "queued"},
           \A k \in Jobs : k # j =>
              /\ jpc'[k] = jpc[k] /\ work'[k] = work[k]
              /\ runs'[k] = runs[k] /\ ent'[k] = ent[k]
    PROVE  NextQueued'
<1> USE DEF FirstRun
<1> SUFFICES ASSUME NEW k \in Jobs, jpc'[k] = "resave", ent'[k].status = "pending"
             PROVE  \E m \in Jobs : FirstRun(m, work[k])'
  BY DEF NextQueued
<1>1. k # j
  OBVIOUS
<1>2. PICK m \in Jobs : FirstRun(m, work[k])
  BY <1>1 DEF NextQueued
<1>3. m # j
  BY <1>2
<1> QED BY <1>1, <1>2, <1>3

LEMMA NextStep ==
    ASSUME ~SlowSaves, FaultyInv, EntityKnown, NextQueued, [Next]_vars
    PROVE  NextQueued'
<1> USE WebhookConstants DEF FaultyInv, TypeOK, Delivery, DeliveryStatus, SlotsOK,
        NextQueued, FirstRun, Live, dispatchVars, jobVars, Continue, Release
<1>1. ASSUME UNCHANGED <<jpc, work, runs, ent>> PROVE NextQueued'
  BY <1>1
<1>2. ASSUME NEW v \in Events, PublishDelivery(v) PROVE NextQueued'
  <2>1. PICK e \in left[v] : Publish(<<v, e>>)
    BY <1>2 DEF PublishDelivery
  <2>2. PICK j \in Jobs :
            /\ jpc[j] = "free"
            /\ jpc' = [jpc EXCEPT ![j] = "queued"]
            /\ work' = [work EXCEPT ![j] = <<v, e>>]
            /\ runs' = [runs EXCEPT ![j] = 0]
            /\ ent' = [ent EXCEPT ![j] = NoRow]
    BY <2>1 DEF Publish, FirstFree
  <2>3. QED
    BY <2>2
<1>3. ASSUME NEW j \in Jobs, StartJob(j) PROVE NextQueued'
  BY <1>3 DEF StartJob, BackoffOver
<1>4. ASSUME NEW j \in Jobs,
             Load(j) \/ EndpointGone(j) \/ Attempt(j) \/ Accepted(j)
                 \/ Rejected(j) \/ GiveUp(j) \/ SaveCaught(j)
      PROVE  NextQueued'
  <2>1. /\ jpc[j] \notin {"free", "queued"} /\ UNCHANGED <<work, runs>>
        /\ jpc'[j] = "resave" => ent'[j].status # "pending"
    <3>1. CASE Load(j) \/ EndpointGone(j)
      BY <3>1 DEF Load, EndpointGone
    <3>2. CASE Attempt(j) \/ Accepted(j) \/ Rejected(j)
      BY <3>2 DEF Attempt, Accepted, Rejected
    <3>3. CASE GiveUp(j) \/ SaveCaught(j)
      BY <3>3 DEF GiveUp, SaveCaught
    <3>4. QED
      BY <1>4, <3>1, <3>2, <3>3
  <2>2. \A k \in Jobs : k # j => jpc'[k] = jpc[k] /\ ent'[k] = ent[k]
    BY <1>4 DEF Load, EndpointGone, Attempt, Accepted, Rejected, GiveUp, SaveCaught
  <2>3. SUFFICES ASSUME NEW k \in Jobs, jpc'[k] = "resave", ent'[k].status = "pending"
                 PROVE  \E m \in Jobs : FirstRun(m, work[k])'
    OBVIOUS
  <2>4. k # j
    BY <2>1, <2>3
  <2>5. PICK m \in Jobs : FirstRun(m, work[k])
    BY <2>2, <2>3, <2>4
  <2>6. QED
    BY <2>1, <2>2, <2>5
<1>5. ASSUME NEW j \in Jobs, SaveResult(j) PROVE NextQueued'
  <2>1. /\ jpc[j] \in {"save", "resave"} /\ jpc'[j] = "free"
        /\ \A k \in Jobs : k # j =>
              /\ jpc'[k] = jpc[k] /\ work'[k] = work[k]
              /\ runs'[k] = runs[k] /\ ent'[k] = ent[k]
    BY <1>5 DEF SaveResult
  <2>2. QED
    BY <2>1, OthersWait
<1>6. ASSUME NEW j \in Jobs, RetryLater(j) PROVE NextQueued'
  <2>1. PICK k \in Jobs :
            /\ jpc[k] = "free"
            /\ jpc' = [jpc EXCEPT ![k] = "queued", ![j] = "resave"]
            /\ work' = [work EXCEPT ![k] = work[j]]
    BY <1>6 DEF RetryLater, FirstFree
  <2>2. jpc[j] = "retry" /\ UNCHANGED <<runs, ent>> /\ runs[k] = 0
    BY <1>6, <2>1 DEF RetryLater
  <2>3. k # j /\ jpc'[k] = "queued" /\ work'[k] = work[j] /\ runs'[k] = 0
    BY <2>1, <2>2
  <2>4. \A m \in Jobs : m # j /\ m # k => jpc'[m] = jpc[m] /\ work'[m] = work[m]
    BY <2>1
  <2>5. QED
    BY <2>1, <2>2, <2>3, <2>4
<1>7. ASSUME NEW j \in Jobs, HandlerThrows(j) PROVE NextQueued'
  <2>1. /\ jpc[j] \notin {"free", "queued"}
        /\ jpc'[j] \in {"queued", "free"}
        /\ \A k \in Jobs : k # j =>
              /\ jpc'[k] = jpc[k] /\ work'[k] = work[k]
              /\ runs'[k] = runs[k] /\ ent'[k] = ent[k]
    <3>1. CASE RunsLeft(j)
      BY <1>7, <3>1 DEF HandlerThrows
    <3>2. CASE ~RunsLeft(j)
      BY <1>7, <3>2 DEF HandlerThrows
    <3>3. QED
      BY <3>1, <3>2
  <2>2. QED
    BY <2>1, OthersWait
<1>8. CASE Restart
  BY <1>8 DEF Restart
<1>9. QED
  BY <1>1, <1>2, <1>3, <1>4, <1>5, <1>6, <1>7, <1>8
     DEF Next, vars, DispatchStep, JobStep, CreateEndpoint, DeleteEndpoint, Emit,
         DispatchFails, FindEndpoints, StoreDelivery

\* Job j keeps delivery d from being forgotten.
Carries(j, d) == JobOf(j, d) /\ (jpc[j] = "resave" => ent[j].status # "pending")

LEMMA PendingStep ==
    ASSUME ~SlowSaves, MemoryInv, PendingIsQueued, [Next]_vars
    PROVE  PendingIsQueued'
<1> SUFFICES ASSUME restarts' = 0, dbErrors' < MaxRuns,
                    NEW w \in Events, NEW f \in Endpoints,
                    row'[<<w, f>>].status = "pending",
                    ~Unpublished(w, f)'
             PROVE  \E j \in Jobs : Carries(j, <<w, f>>)'
  BY DEF PendingIsQueued, Carries
<1>e. restarts = 0 /\ dbErrors < MaxRuns /\ row[<<w, f>>].status = "pending" =>
         Unpublished(w, f) \/ \E j \in Jobs : Carries(j, <<w, f>>)
  BY DEF PendingIsQueued, Carries
<1> USE WebhookConstants DEF MemoryInv, FaultyInv, TypeOK, Delivery, DeliveryStatus,
        SlotsOK, Live, JobOf, dispatchVars, jobVars, Continue, Release
<1> DEFINE d == <<w, f>>
<1>a. d \in Deliveries
  BY DEF Deliveries
<1> HIDE DEF d
<1>b. restarts = 0 /\ dbErrors < MaxRuns
  <2>1. dbErrors' = dbErrors \/ dbErrors' = dbErrors + 1
    BY DEF Next, vars, DispatchStep, JobStep, CreateEndpoint, DeleteEndpoint,
           Emit, DispatchFails, FindEndpoints, StoreDelivery, PublishDelivery,
           StartJob, Load, EndpointGone, Attempt, Accepted, Rejected,
           SaveResult, GiveUp, RetryLater, SaveCaught, HandlerThrows, Restart
  <2>2. restarts' = restarts \/ restarts' = restarts + 1
    BY DEF Next, vars, DispatchStep, JobStep, CreateEndpoint, DeleteEndpoint,
           Emit, DispatchFails, FindEndpoints, StoreDelivery, PublishDelivery,
           StartJob, Load, EndpointGone, Attempt, Accepted, Rejected,
           SaveResult, GiveUp, RetryLater, SaveCaught, HandlerThrows, Restart
  <2>3. QED
    BY <2>1, <2>2
<1>c. row[d].status = "pending" =>
         Unpublished(w, f) \/ \E j \in Jobs : Carries(j, d)
  BY <1>b, <1>e DEF d
<1>d. ~Unpublished(w, f)' /\ row'[d].status = "pending"
  BY DEF d
<1> SUFFICES \E j \in Jobs : Carries(j, d)'
  BY DEF d
<1>1. CASE UNCHANGED <<row, left, jpc, work, ent>>
  BY <1>1, <1>c, <1>d DEF Carries, Unpublished
<1>2. ASSUME NEW v \in Events, FindEndpoints(v) \/ DispatchFails(v)
      PROVE  \E j \in Jobs : Carries(j, d)'
  <2>1. /\ UNCHANGED <<row, jpc, work, ent>> /\ dpc[v] \in {"find", "store"}
        /\ \A u \in Events : u # v => left'[u] = left[u]
    BY <1>2 DEF FindEndpoints, DispatchFails
  <2>2. ~Unpublished(w, f)
    BY <1>d, <2>1 DEF LoopAhead, Unpublished
  <2>3. QED
    BY <1>c, <1>d, <2>1, <2>2 DEF Carries
<1>3. ASSUME NEW v \in Events, StoreDelivery(v)
      PROVE  \E j \in Jobs : Carries(j, d)'
  <2>1. PICK e \in left[v] : row' = [row EXCEPT ![<<v, e>>] = NewRow]
    BY <1>3 DEF StoreDelivery
  <2>2. UNCHANGED <<left, jpc, work, ent>>
    BY <1>3 DEF StoreDelivery
  <2>3. d # <<v, e>>
    BY <1>d, <2>1, <2>2 DEF Unpublished, d
  <2>4. row'[d] = row[d]
    BY <1>a, <2>1, <2>3
  <2>5. ~Unpublished(w, f)
    BY <1>d, <2>2, <2>4 DEF Unpublished, d
  <2>6. QED
    BY <1>c, <1>d, <2>2, <2>4, <2>5 DEF Carries
<1>4. ASSUME NEW v \in Events, PublishDelivery(v)
      PROVE  \E j \in Jobs : Carries(j, d)'
  <2>1. PICK e \in left[v] : /\ Publish(<<v, e>>)
                             /\ left' = [left EXCEPT ![v] = @ \ {e}]
    BY <1>4 DEF PublishDelivery
  <2>2. PICK j \in Jobs :
            /\ jpc[j] = "free"
            /\ jpc' = [jpc EXCEPT ![j] = "queued"]
            /\ work' = [work EXCEPT ![j] = <<v, e>>]
            /\ ent' = [ent EXCEPT ![j] = NoRow]
    BY <2>1 DEF Publish, FirstFree
  <2>3. row' = row
    BY <1>4 DEF PublishDelivery
  <2>4. CASE d = <<v, e>>
    BY <2>2, <2>4 DEF Carries
  <2>5. CASE d # <<v, e>>
    <3>1. ~Unpublished(w, f)
      BY <1>d, <2>1, <2>3, <2>5 DEF Unpublished, d
    <3>2. PICK k \in Jobs : Carries(k, d)
      BY <1>c, <1>d, <2>3, <3>1
    <3>3. k # j
      BY <2>2, <3>2 DEF Carries
    <3>4. QED
      BY <2>2, <3>2, <3>3 DEF Carries
  <2>6. QED
    BY <2>4, <2>5
<1>5. ASSUME NEW j \in Jobs, StartJob(j)
      PROVE  \E k \in Jobs : Carries(k, d)'
  BY <1>5, <1>c, <1>d DEF StartJob, Carries, Unpublished
<1>6. ASSUME NEW j \in Jobs,
             Load(j) \/ EndpointGone(j) \/ Attempt(j) \/ Accepted(j)
                 \/ Rejected(j) \/ GiveUp(j) \/ SaveCaught(j)
      PROVE  \E k \in Jobs : Carries(k, d)'
  <2>1. /\ Live(j) /\ UNCHANGED <<row, left, work>> /\ jpc'[j] # "free"
        /\ jpc'[j] = "resave" => ent'[j].status # "pending"
    BY <1>6 DEF Load, EndpointGone, Attempt, Accepted, Rejected, GiveUp, SaveCaught
  <2>2. \A k \in Jobs : k # j => jpc'[k] = jpc[k] /\ ent'[k] = ent[k]
    BY <1>6 DEF Load, EndpointGone, Attempt, Accepted, Rejected, GiveUp, SaveCaught
  <2>3. QED
    BY <1>c, <1>d, <2>1, <2>2 DEF Carries, Unpublished
<1>7. ASSUME NEW j \in Jobs, SaveResult(j)
      PROVE  \E k \in Jobs : Carries(k, d)'
  <2>1. /\ jpc[j] \in {"save", "resave"}
        /\ row' = [row EXCEPT ![work[j]] = ent[j]]
        /\ left' = left /\ work[j] \in Deliveries
        /\ \A k \in Jobs : k # j =>
              jpc'[k] = jpc[k] /\ work'[k] = work[k] /\ ent'[k] = ent[k]
    BY <1>7 DEF SaveResult
  <2>2. CASE work[j] = d
    <3>1. ent[j].status = "pending"
      BY <1>a, <1>d, <2>1, <2>2
    <3>2. jpc[j] = "resave"
      BY <2>1, <3>1 DEF EntityKnown
    <3>3. PICK k \in Jobs : jpc[k] = "queued" /\ work[k] = d
      BY <2>2, <3>1, <3>2 DEF NextQueued, FirstRun
    <3>4. QED
      BY <2>1, <3>2, <3>3 DEF Carries
  <2>3. CASE work[j] # d
    <3>1. row'[d] = row[d]
      BY <2>1, <2>3, <1>a
    <3>2. ~Unpublished(w, f)
      BY <1>d, <2>1, <3>1 DEF Unpublished, d
    <3>3. PICK k \in Jobs : Carries(k, d)
      BY <1>c, <1>d, <3>1, <3>2
    <3>4. k # j
      BY <2>3, <3>3 DEF Carries
    <3>5. QED
      BY <2>1, <3>3, <3>4 DEF Carries
  <2>4. QED
    BY <2>2, <2>3
<1>8. ASSUME NEW j \in Jobs, RetryLater(j)
      PROVE  \E k \in Jobs : Carries(k, d)'
  <2>1. PICK k \in Jobs :
            /\ jpc[k] = "free"
            /\ jpc' = [jpc EXCEPT ![k] = "queued", ![j] = "resave"]
            /\ work' = [work EXCEPT ![k] = work[j]]
    BY <1>8 DEF RetryLater, FirstFree
  <2>2. jpc[j] = "retry" /\ UNCHANGED <<row, left, ent>>
    BY <1>8 DEF RetryLater
  <2>3. k # j /\ jpc'[k] = "queued" /\ work'[k] = work[j]
    BY <2>1, <2>2
  <2>4. PICK m \in Jobs : Carries(m, d)
    BY <1>c, <1>d, <2>2 DEF Unpublished
  <2>5. CASE m = j
    BY <2>3, <2>4, <2>5 DEF Carries
  <2>6. CASE m # j
    BY <2>1, <2>2, <2>4, <2>6 DEF Carries
  <2>7. QED
    BY <2>5, <2>6
<1>9. ASSUME NEW j \in Jobs, HandlerThrows(j)
      PROVE  \E k \in Jobs : Carries(k, d)'
  <2>1. /\ jpc[j] \in Handling
        /\ dbErrors' = dbErrors + 1
        /\ UNCHANGED <<row, left>>
    BY <1>9 DEF HandlerThrows, Handling
  <2>2. RunsLeft(j)
    BY <2>1 DEF RunsCounted, RunsLeft
  <2>3. /\ jpc' = [jpc EXCEPT ![j] = "queued"]
        /\ ent' = [ent EXCEPT ![j] = NoRow] /\ work' = work
    BY <1>9, <2>2 DEF HandlerThrows
  <2>4. PICK m \in Jobs : Carries(m, d)
    BY <1>c, <1>d, <2>1 DEF Unpublished
  <2>5. QED
    BY <2>3, <2>4 DEF Carries
<1>10. ~Restart
  BY <1>b DEF Restart
<1>11. QED
  BY <1>1, <1>2, <1>3, <1>4, <1>5, <1>6, <1>7, <1>8, <1>9, <1>10
     DEF Next, vars, DispatchStep, JobStep, CreateEndpoint, DeleteEndpoint, Emit

\* As long as saves return before the backoff, a delivery that the table calls
\* pending has a job, or is about to get one: fewer than MaxRuns failed calls of
\* the database lose none, wherever they hit dispatchEvent, executeDelivery or
\* the retries of the queue.
THEOREM PendingHasJob == ASSUME ~SlowSaves PROVE Spec => []PendingIsQueued
<1>1. Init => MemoryInv /\ PendingIsQueued
  BY InitMemory DEF Init, PendingIsQueued, NoRow, Deliveries
<1>2. MemoryInv /\ [Next]_vars => MemoryInv'
  BY StepFaulty, RunsStep, KnownStep, LoopStep, NextStep DEF MemoryInv
<1>3. MemoryInv /\ PendingIsQueued /\ [Next]_vars => PendingIsQueued'
  BY PendingStep
<1>4. QED
  BY <1>1, <1>2, <1>3, PTL DEF Spec
=============================================================================
