\* One event, retries, two failed calls of the database and a restart.
CONSTANTS
    v1 = v1  e1 = e1
    Events = {v1}
    Endpoints = {e1}
    Listens <- ListensOne
    Jobs = {1, 2, 3, 4}
    NoDelivery = NoDelivery
    MaxAttempts = 2
    MaxRuns = 2
    SlowSaves = FALSE
    MaxDbErrors = 2
    MaxRestarts = 1
SPECIFICATION FairSpec
INVARIANTS OneJob ResultIsFinal AttemptsBounded SuccessWasAccepted PendingIsQueued
PROPERTIES DeliveryResolved
\* All deliveries may have ended.
CHECK_DEADLOCK FALSE
