--------------------------- MODULE WebhookDelivery ---------------------------
(***************************************************************************)
(* WebhooksService over InMemoryQueueService, in one process: an event is  *)
(* turned into one delivery per listening endpoint, each delivery is       *)
(* executed by jobs of the queue, and a job whose POST fails publishes the *)
(* job that tries again.                                                   *)
(*                                                                         *)
(* Deliveries are rows of a table; jobs, timers and the loop of            *)
(* dispatchEvent live in memory and are lost with the process.  A job that *)
(* waits for its timer and one that waits for the next tick are both       *)
(* "queued", and jobs may start in any order: of the backoff only this is  *)
(* kept, that a save in flight returns before the minute at least a retry  *)
(* waits (unless SlowSaves).  Payloads, signatures and response bodies are *)
(* left out.                                                               *)
(***************************************************************************)
EXTENDS Naturals, FiniteSets

CONSTANTS
    Events,         \* calls of dispatchEvent
    Endpoints,      \* webhook endpoints of the organization
    Listens,        \* Listens[v]: endpoints whose event list matches event v
    Jobs,           \* bound: numbered slots for jobs in memory
    NoDelivery,     \* the slot is free
    MaxAttempts,    \* maxAttempts of a delivery, 5 in the code
    MaxRuns,        \* maxAttempts of a job of the queue, 5 in the code
    SlowSaves,      \* may a save take longer than the backoff?
    MaxDbErrors,    \* bound: database calls that fail
    MaxRestarts     \* bound: restarts of the process

Deliveries == Events \X Endpoints

ASSUME WebhookConstants ==
    /\ Listens \in [Events -> SUBSET Endpoints]
    /\ Jobs \subseteq Nat
    /\ NoDelivery \notin Deliveries
    /\ MaxAttempts \in Nat \ {0}
    /\ MaxRuns \in Nat \ {0}
    /\ SlowSaves \in BOOLEAN
    /\ MaxDbErrors \in Nat
    /\ MaxRestarts \in Nat

VARIABLES
    endpoint,   \* endpoint[e]: "none", "active" or "disabled"
    row,        \* row[d]: status and attempts of delivery d in its table
    accepted,   \* accepted[d]: POSTs of d its endpoint answered with 2xx
    dpc,        \* dpc[v]: where dispatchEvent(v) is
    left,       \* left[v]: matching endpoints its loop has still to serve
    jpc,        \* jpc[j]: where job j is
    work,       \* work[j]: the delivery of job j
    runs,       \* runs[j]: times the queue has started job j
    ent,        \* ent[j]: the entity job j holds
    dbErrors,   \* failed database calls so far
    restarts    \* restarts so far

dispatchVars == <<dpc, left>>
jobVars == <<jpc, work, runs, ent>>
vars == <<endpoint, row, accepted, dispatchVars, jobVars, dbErrors, restarts>>

\* The rows of the two tables, of which "none" is the absence.
EndpointStatus == {"active", "disabled"}
DeliveryStatus == {"pending", "success", "failed"}
Delivery == [status : DeliveryStatus \cup {"none"}, attempts : Nat]

NoRow == [status |-> "none", attempts |-> 0]
NewRow == [status |-> "pending", attempts |-> 0]

\* Where a job is while the handler executeDelivery runs.
Handling == {"load", "check", "post", "save", "retry", "resave"}

TypeOK ==
    /\ endpoint \in [Endpoints -> EndpointStatus \cup {"none"}]
    /\ row \in [Deliveries -> Delivery]
    /\ accepted \in [Deliveries -> Nat]
    /\ dpc \in [Events -> {"new", "find", "store", "publish", "ended"}]
    /\ left \in [Events -> SUBSET Endpoints]
    /\ jpc \in [Jobs -> {"free", "queued"} \cup Handling]
    /\ work \in [Jobs -> Deliveries \cup {NoDelivery}]
    /\ runs \in [Jobs -> 0..MaxRuns]
    /\ ent \in [Jobs -> Delivery]
    /\ dbErrors \in 0..MaxDbErrors
    /\ restarts \in 0..MaxRestarts

Init ==
    /\ endpoint = [e \in Endpoints |-> "none"]
    /\ row = [d \in Deliveries |-> NoRow]
    /\ accepted = [d \in Deliveries |-> 0]
    /\ dpc = [v \in Events |-> "new"]
    /\ left = [v \in Events |-> {}]
    /\ jpc = [j \in Jobs |-> "free"]
    /\ work = [j \in Jobs |-> NoDelivery]
    /\ runs = [j \in Jobs |-> 0]
    /\ ent = [j \in Jobs |-> NoRow]
    /\ dbErrors = 0
    /\ restarts = 0

-----------------------------------------------------------------------------
(* Endpoints.                                                              *)

CreateEndpoint(e) ==
    /\ endpoint[e] = "none"
    /\ endpoint' = [endpoint EXCEPT ![e] = "active"]
    /\ UNCHANGED <<row, accepted, dispatchVars, jobVars, dbErrors, restarts>>

\* findEndpointById finds every endpoint there ever was.
Stored(e) == endpoint[e] # "none"

\* deleteEndpoint keeps the row and disables it.
DeleteEndpoint(e) ==
    /\ Stored(e)
    /\ endpoint' = [endpoint EXCEPT ![e] = "disabled"]
    /\ UNCHANGED <<row, accepted, dispatchVars, jobVars, dbErrors, restarts>>

-----------------------------------------------------------------------------
(* The queue.                                                              *)

\* Slots are alike: a job takes the first free one.
FirstFree(j) == jpc[j] = "free" /\ \A k \in Jobs : k < j => jpc[k] # "free"

\* publish: a job for delivery d enters the queue.
Publish(d) ==
    \E j \in Jobs :
        /\ FirstFree(j)
        /\ jpc' = [jpc EXCEPT ![j] = "queued"]
        /\ work' = [work EXCEPT ![j] = d]
        /\ runs' = [runs EXCEPT ![j] = 0]
        /\ ent' = [ent EXCEPT ![j] = NoRow]

\* The handler of job j goes on at label l, holding the entity r.
Continue(j, l, r) ==
    /\ jpc' = [jpc EXCEPT ![j] = l]
    /\ ent' = [ent EXCEPT ![j] = r]
    /\ UNCHANGED <<work, runs>>

\* The handler of job j returns, or the queue gives the job up.
Release(j) ==
    /\ jpc' = [jpc EXCEPT ![j] = "free"]
    /\ work' = [work EXCEPT ![j] = NoDelivery]
    /\ runs' = [runs EXCEPT ![j] = 0]
    /\ ent' = [ent EXCEPT ![j] = NoRow]

JobOf(j, d) == jpc[j] # "free" /\ work[j] = d

\* A job that a failed attempt published, and that has not run yet, waits for a
\* minute or more: until then the attempt has been saved.  What the queue runs
\* again after two seconds or more does not wait for that.
BackoffOver(j) ==
    SlowSaves \/ runs[j] > 0 \/ \A k \in Jobs : jpc[k] = "resave" => work[k] # work[j]

\* executeJob starts the handler.
StartJob(j) ==
    /\ jpc[j] = "queued"
    /\ BackoffOver(j)
    /\ runs' = [runs EXCEPT ![j] = @ + 1]
    /\ jpc' = [jpc EXCEPT ![j] = "load"]
    /\ UNCHANGED <<endpoint, row, accepted, dispatchVars, work, ent,
                   dbErrors, restarts>>

-----------------------------------------------------------------------------
(* dispatchEvent.                                                          *)

\* An event happens and dispatchEvent is called.
Emit(v) ==
    /\ dpc[v] = "new"
    /\ dpc' = [dpc EXCEPT ![v] = "find"]
    /\ UNCHANGED <<endpoint, row, accepted, left, jobVars, dbErrors, restarts>>

\* The active endpoints that match are found.
FindEndpoints(v) ==
    /\ dpc[v] = "find"
    /\ LET matching == {e \in Listens[v] : endpoint[e] = "active"}
       IN  /\ left' = [left EXCEPT ![v] = matching]
           /\ dpc' = [dpc EXCEPT ![v] = IF matching = {} THEN "ended" ELSE "store"]
    /\ UNCHANGED <<endpoint, row, accepted, jobVars, dbErrors, restarts>>

\* The loop stores the delivery of its next endpoint.
StoreDelivery(v) ==
    /\ dpc[v] = "store"
    /\ \E e \in left[v] :
        /\ row[<<v, e>>].status = "none"
        /\ row' = [row EXCEPT ![<<v, e>>] = NewRow]
    /\ dpc' = [dpc EXCEPT ![v] = "publish"]
    /\ UNCHANGED <<endpoint, accepted, left, jobVars, dbErrors, restarts>>

\* Stored by v's loop and not yet published.
Unpublished(v, e) == e \in left[v] /\ row[<<v, e>>].status # "none"

\* And publishes its job.
PublishDelivery(v) ==
    /\ dpc[v] = "publish"
    /\ \E e \in left[v] :
        /\ Unpublished(v, e)
        /\ Publish(<<v, e>>)
        /\ left' = [left EXCEPT ![v] = @ \ {e}]
        /\ dpc' = [dpc EXCEPT ![v] = IF left[v] = {e} THEN "ended" ELSE "store"]
    /\ UNCHANGED <<endpoint, row, accepted, dbErrors, restarts>>

-----------------------------------------------------------------------------
(* executeDelivery.                                                        *)

\* It reads the delivery.
Load(j) ==
    /\ jpc[j] = "load"
    /\ Continue(j, "check", row[work[j]])
    /\ UNCHANGED <<endpoint, row, accepted, dispatchVars, dbErrors, restarts>>

\* It reads the endpoint, which is not active: the delivery has failed.
EndpointGone(j) ==
    /\ jpc[j] = "check"
    /\ endpoint[work[j][2]] # "active"
    /\ Continue(j, "save", [ent[j] EXCEPT !.status = "failed"])
    /\ UNCHANGED <<endpoint, row, accepted, dispatchVars, dbErrors, restarts>>

\* It is active: the attempt is counted and the POST sent.
Attempt(j) ==
    /\ jpc[j] = "check"
    /\ endpoint[work[j][2]] = "active"
    /\ Continue(j, "post", [ent[j] EXCEPT !.attempts = @ + 1])
    /\ UNCHANGED <<endpoint, row, accepted, dispatchVars, dbErrors, restarts>>

\* Mutant of Accepted: the response is not awaited.
AcceptedUnawaited(j) ==
    /\ jpc[j] = "post"
    /\ Continue(j, "save", [ent[j] EXCEPT !.status = "success"])
    /\ UNCHANGED <<endpoint, row, accepted, dispatchVars, dbErrors, restarts>>

\* The endpoint answers with 2xx.
Accepted(j) ==
    /\ jpc[j] = "post"
    /\ accepted' = [accepted EXCEPT ![work[j]] = @ + 1]
    /\ Continue(j, "save", [ent[j] EXCEPT !.status = "success"])
    /\ UNCHANGED <<endpoint, row, dispatchVars, dbErrors, restarts>>

\* It answers with an error, or not in time: its 2xx may have been lost.
Rejected(j) ==
    /\ jpc[j] = "post"
    /\ accepted' \in {accepted, [accepted EXCEPT ![work[j]] = @ + 1]}
    /\ Continue(j, "retry", ent[j])
    /\ UNCHANGED <<endpoint, row, dispatchVars, dbErrors, restarts>>

\* Mutant of SaveResult: the catch block throws the error again, and the queue
\* runs the job once more.
SaveResultRethrows(j) ==
    /\ jpc[j] \in {"save", "resave"}
    /\ row' = [row EXCEPT ![work[j]] = ent[j]]
    /\ IF jpc[j] = "resave" /\ runs[j] < MaxRuns
       THEN Continue(j, "queued", NoRow)
       ELSE Release(j)
    /\ UNCHANGED <<endpoint, accepted, dispatchVars, dbErrors, restarts>>

\* The result is saved and the handler returns.
SaveResult(j) ==
    /\ jpc[j] \in {"save", "resave"}
    /\ row' = [row EXCEPT ![work[j]] = ent[j]]
    /\ Release(j)
    /\ UNCHANGED <<endpoint, accepted, dispatchVars, dbErrors, restarts>>

\* Mutant of Exhausted: one attempt more.
ExhaustedLate(r) == r.attempts > MaxAttempts

\* The catch block: the attempts are used up ...
Exhausted(r) == r.attempts >= MaxAttempts

GiveUp(j) ==
    /\ jpc[j] = "retry"
    /\ Exhausted(ent[j])
    /\ Continue(j, "resave", [ent[j] EXCEPT !.status = "failed"])
    /\ UNCHANGED <<endpoint, row, accepted, dispatchVars, dbErrors, restarts>>

\* Mutant of RetryLater: no job is published, the row is only saved.
RetryNever(j) ==
    /\ jpc[j] = "retry"
    /\ ~Exhausted(ent[j])
    /\ Continue(j, "resave", ent[j])
    /\ UNCHANGED <<endpoint, row, accepted, dispatchVars, dbErrors, restarts>>

\* ... or another job is published before the row is saved.
RetryLater(j) ==
    /\ jpc[j] = "retry"
    /\ ~Exhausted(ent[j])
    /\ \E k \in Jobs :
        /\ FirstFree(k)
        /\ jpc' = [jpc EXCEPT ![k] = "queued", ![j] = "resave"]
        /\ work' = [work EXCEPT ![k] = work[j]]
    /\ UNCHANGED <<endpoint, row, accepted, dispatchVars, runs, ent,
                   dbErrors, restarts>>

-----------------------------------------------------------------------------
(* Faults.                                                                 *)

\* A failed call of dispatchEvent ends it: the rest of the loop is not served.
DispatchFails(v) ==
    /\ dbErrors < MaxDbErrors
    /\ dpc[v] \in {"find", "store"}
    /\ dbErrors' = dbErrors + 1
    /\ dpc' = [dpc EXCEPT ![v] = "ended"]
    /\ left' = [left EXCEPT ![v] = {}]
    /\ UNCHANGED <<endpoint, row, accepted, jobVars, restarts>>

\* A failed save of a success is caught by executeDelivery itself.
SaveCaught(j) ==
    /\ dbErrors < MaxDbErrors
    /\ jpc[j] = "save" /\ ent[j].status = "success"
    /\ dbErrors' = dbErrors + 1
    /\ Continue(j, "retry", ent[j])
    /\ UNCHANGED <<endpoint, row, accepted, dispatchVars, restarts>>

RunsLeft(j) == runs[j] < MaxRuns

\* Any other failed call leaves the handler; the queue runs the job again
\* after a backoff, or drops it.
HandlerThrows(j) ==
    /\ dbErrors < MaxDbErrors
    /\ \/ jpc[j] \in {"load", "check", "resave"}
       \/ jpc[j] = "save" /\ ent[j].status # "success"
    /\ dbErrors' = dbErrors + 1
    /\ IF RunsLeft(j) THEN Continue(j, "queued", NoRow) ELSE Release(j)
    /\ UNCHANGED <<endpoint, row, accepted, dispatchVars, restarts>>

\* The process is stopped (onModuleDestroy) or dies, and is started again.
Restart ==
    /\ restarts < MaxRestarts
    /\ restarts' = restarts + 1
    /\ dpc' = [v \in Events |-> IF dpc[v] = "new" THEN "new" ELSE "ended"]
    /\ left' = [v \in Events |-> {}]
    /\ jpc' = [j \in Jobs |-> "free"]
    /\ work' = [j \in Jobs |-> NoDelivery]
    /\ runs' = [j \in Jobs |-> 0]
    /\ ent' = [j \in Jobs |-> NoRow]
    /\ UNCHANGED <<endpoint, row, accepted, dbErrors>>

DispatchStep(v) == FindEndpoints(v) \/ StoreDelivery(v) \/ PublishDelivery(v)

JobStep(j) ==
    \/ StartJob(j) \/ Load(j) \/ EndpointGone(j) \/ Attempt(j)
    \/ Accepted(j) \/ Rejected(j) \/ SaveResult(j) \/ GiveUp(j) \/ RetryLater(j)

Next ==
    \/ \E e \in Endpoints : CreateEndpoint(e) \/ DeleteEndpoint(e)
    \/ \E v \in Events : Emit(v) \/ DispatchStep(v) \/ DispatchFails(v)
    \/ \E j \in Jobs : JobStep(j) \/ SaveCaught(j) \/ HandlerThrows(j)
    \/ Restart

Spec == Init /\ [][Next]_vars

\* Timers fire, calls return and the POST times out after ten seconds.
Fairness ==
    /\ \A v \in Events : WF_vars(DispatchStep(v))
    /\ \A j \in Jobs : WF_vars(JobStep(j))

FairSpec == Spec /\ Fairness

-----------------------------------------------------------------------------
\* A delivery is never recorded as delivered without a 2xx of its endpoint.
SuccessWasAccepted ==
    \A d \in Deliveries : row[d].status = "success" => accepted[d] > 0

\* While the database answers a delivery never runs in two jobs, except between
\* the publication of the next attempt and the save of the last one.
OneJob ==
    dbErrors = 0 => \A d \in Deliveries : \A j, k \in Jobs :
        JobOf(j, d) /\ JobOf(k, d) /\ j # k => "resave" \in {jpc[j], jpc[k]}

\* Nor is one that has its result executed again.
ResultIsFinal ==
    dbErrors = 0 => \A d \in Deliveries :
        row[d].status \in {"success", "failed"} => \A j \in Jobs : ~JobOf(j, d)

\* Nor is its endpoint asked more than MaxAttempts times.
AttemptsBounded ==
    dbErrors = 0 => \A d \in Deliveries :
        /\ row[d].attempts <= MaxAttempts
        /\ \A j \in Jobs : JobOf(j, d) => ent[j].attempts <= MaxAttempts

\* A pending delivery is in memory too: its job is queued or runs, or the loop
\* that stored it is about to publish it.  Less than MaxRuns failed calls do
\* not change that; a restart does.
PendingIsQueued ==
    restarts = 0 /\ dbErrors < MaxRuns =>
        \A v \in Events, e \in Endpoints :
            row[<<v, e>>].status = "pending" =>
                \/ Unpublished(v, e)
                \/ \E j \in Jobs :
                      /\ JobOf(j, <<v, e>>)
                      /\ jpc[j] = "resave" => ent[j].status # "pending"

\* Every stored delivery is delivered or given up, unless the process restarts
\* or the database fails MaxRuns times, as often as it takes to lose a job.
DeliveryResolved ==
    \A d \in Deliveries :
        row[d].status = "pending"
            ~> row[d].status # "pending" \/ restarts > 0 \/ dbErrors >= MaxRuns
=============================================================================
