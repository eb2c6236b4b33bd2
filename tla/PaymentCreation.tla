--------------------------- MODULE PaymentCreation ---------------------------
(***************************************************************************)
(* PaymentsService.createPayment: concurrent requests for payments, some   *)
(* of them retries of one another with the same idempotency key, over the  *)
(* payments table and its unique index on (organization, key).             *)
(*                                                                         *)
(* A request looks for an earlier payment of its key, computes the quote   *)
(* and the deposit address, and inserts the payment; between the look and  *)
(* the insertion other requests run.  A payment is named after the request *)
(* that stored it.  Amounts, addresses and the QR code are left out.       *)
(***************************************************************************)
EXTENDS Naturals

CONSTANTS
    Requests,       \* calls of POST /payments
    NoPayment,      \* not a request
    OrgOf,          \* OrgOf[r]: the organization of request r
    Keys,           \* idempotency keys
    NoKey,          \* the request has no key: a null column
    EmptyKey,       \* the request's key is the empty string
    KeyOf           \* KeyOf[r]: the key of request r

ASSUME CreationConstants ==
    /\ NoPayment \notin Requests
    /\ NoKey \notin Keys /\ EmptyKey \notin Keys /\ NoKey # EmptyKey
    /\ KeyOf \in [Requests -> Keys \cup {NoKey, EmptyKey}]

VARIABLES
    pc,         \* pc[r]: where request r is
    payments,   \* the payments table: the requests that stored a payment
    answer,     \* answer[r]: the payment r was answered with
    created,    \* created[p]: payment.created events dispatched for p
    before      \* before[r]: payments stored when r arrived

vars == <<pc, payments, answer, created, before>>

Active == {"lookup", "quote", "dispatch"}
Ended == {"answered", "conflict", "refused", "lost"}

TypeOK ==
    /\ pc \in [Requests -> {"new"} \cup Active \cup Ended]
    /\ payments \subseteq Requests
    /\ answer \in [Requests -> Requests \cup {NoPayment}]
    /\ created \in [Requests -> Nat]
    /\ before \in [Requests -> SUBSET Requests]

Init ==
    /\ pc = [r \in Requests |-> "new"]
    /\ payments = {}
    /\ answer = [r \in Requests |-> NoPayment]
    /\ created = [r \in Requests |-> 0]
    /\ before = [r \in Requests |-> {}]

-----------------------------------------------------------------------------
\* The code tests "if (idempotencyKey)": the empty string counts as no key.
AsksForKey(r) == KeyOf[r] \in Keys

\* Mutant of SameKey: the key alone, whatever the organization.
SameKeyAnyOrg(r, s) == KeyOf[r] = KeyOf[s]

SameKey(r, s) == OrgOf[r] = OrgOf[s] /\ KeyOf[r] = KeyOf[s]

\* Mutant of Collides: no unique index.
CollidesNever(r, s) == FALSE

\* Two rows the unique index does not let coexist; it skips null keys only.
Collides(r, s) ==
    /\ OrgOf[r] = OrgOf[s]
    /\ KeyOf[r] = KeyOf[s]
    /\ KeyOf[r] # NoKey

Arrive(r) ==
    /\ pc[r] = "new"
    /\ pc' = [pc EXCEPT ![r] = "lookup"]
    /\ before' = [before EXCEPT ![r] = payments]
    /\ UNCHANGED <<payments, answer, created>>

\* An earlier payment of the key is the answer.
FindExisting(r) ==
    /\ pc[r] = "lookup"
    /\ AsksForKey(r)
    /\ \E p \in payments :
        /\ SameKey(r, p)
        /\ answer' = [answer EXCEPT ![r] = p]
    /\ pc' = [pc EXCEPT ![r] = "answered"]
    /\ UNCHANGED <<payments, created, before>>

\* Mutant of FindNone: a payment that was found is not returned.
FindNoneAnyway(r) ==
    /\ pc[r] = "lookup"
    /\ pc' = [pc EXCEPT ![r] = "quote"]
    /\ UNCHANGED <<payments, answer, created, before>>

\* There is none, or the request has no key to look for.
FindNone(r) ==
    /\ pc[r] = "lookup"
    /\ AsksForKey(r) => \A p \in payments : ~SameKey(r, p)
    /\ pc' = [pc EXCEPT ![r] = "quote"]
    /\ UNCHANGED <<payments, answer, created, before>>

\* The quote and the address are there; the payment is inserted.
Insert(r) ==
    /\ pc[r] = "quote"
    /\ \A p \in payments : ~Collides(r, p)
    /\ payments' = payments \cup {r}
    /\ pc' = [pc EXCEPT ![r] = "dispatch"]
    /\ UNCHANGED <<answer, created, before>>

\* The insertion violates the unique index: the error goes to the client.
Conflict(r) ==
    /\ pc[r] = "quote"
    /\ \E p \in payments : Collides(r, p)
    /\ pc' = [pc EXCEPT ![r] = "conflict"]
    /\ UNCHANGED <<payments, answer, created, before>>

\* The event is dispatched and the stored payment is the answer.
Dispatch(r) ==
    /\ pc[r] = "dispatch"
    /\ created' = [created EXCEPT ![r] = @ + 1]
    /\ answer' = [answer EXCEPT ![r] = r]
    /\ pc' = [pc EXCEPT ![r] = "answered"]
    /\ UNCHANGED <<payments, before>>

\* No deposit address is configured, or a database call fails.
Refuse(r) ==
    /\ pc[r] \in {"lookup", "quote"}
    /\ pc' = [pc EXCEPT ![r] = "refused"]
    /\ UNCHANGED <<payments, answer, created, before>>

\* The instance dies before it answers; what it stored stays.
Die(r) ==
    /\ pc[r] \in Active
    /\ pc' = [pc EXCEPT ![r] = "lost"]
    /\ UNCHANGED <<payments, answer, created, before>>

Serve(r) ==
    FindExisting(r) \/ FindNone(r) \/ Insert(r) \/ Conflict(r) \/ Dispatch(r)

Next == \E r \in Requests : Arrive(r) \/ Serve(r) \/ Refuse(r) \/ Die(r)

Spec == Init /\ [][Next]_vars

-----------------------------------------------------------------------------
\* Two requests with the same key are never answered with two payments, and a
\* request is never answered with a payment of another organization.
SameAnswer ==
    \A r, s \in Requests :
        pc[r] = "answered" /\ pc[s] = "answered" /\ KeyOf[r] \in Keys
            => /\ KeyOf[r] = KeyOf[s] /\ OrgOf[r] = OrgOf[s]
                     => answer[r] = answer[s]
               /\ OrgOf[answer[r]] = OrgOf[r]

\* However often a request is repeated with its key, one payment at most is
\* stored for it: the customer is not asked to pay twice.
OnePaymentPerKey ==
    \A p, q \in payments :
        OrgOf[p] = OrgOf[q] /\ KeyOf[p] = KeyOf[q] /\ KeyOf[p] \in Keys => p = q

\* A retry that arrives when the payment of its key is stored is never told
\* of a conflict, whether or not the first request lived to be answered.
RetryFindsPayment ==
    \A r \in Requests :
        pc[r] = "conflict" /\ KeyOf[r] \in Keys
            => \A p \in before[r] : OrgOf[p] # OrgOf[r] \/ KeyOf[p] # KeyOf[r]

\* payment.created is dispatched for stored payments only, once for each
\* answered request that stored one, and not for a repeated request.
CreatedOnce ==
    \A r \in Requests :
        /\ created[r] <= 1
        /\ created[r] = 1 <=> pc[r] = "answered" /\ answer[r] = r
=============================================================================
