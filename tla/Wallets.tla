------------------------------- MODULE Wallets -------------------------------
(***************************************************************************)
(* WalletsService and PaymentAddressService: the receiving wallets of one  *)
(* organization for one asset on one network, and the look-ups by which    *)
(* createPayment finds the address a payment is to be sent to.             *)
(*                                                                         *)
(* create and update make a wallet primary with two calls of the database: *)
(* one unsets the flag of every wallet, the other stores the wallet.  A    *)
(* look-up asks for one kind of wallet after the other.  Between any two   *)
(* calls others run.                                                       *)
(*                                                                         *)
(* The fields an UpdateWalletDto does not have are undefined in it, and    *)
(* save skips undefined fields: an update writes what it was given, not    *)
(* the wallet it read.  Every query and update of the code names the       *)
(* organization, the asset and the network, so wallets that differ in one  *)
(* of them do not meet.  Addresses, labels and validation are left out.    *)
(***************************************************************************)
EXTENDS Naturals

CONSTANTS
    Ids,            \* bound: ids of wallets, in the order of createdAt
    Calls,          \* calls of create, update and delete
    Lookups,        \* calls of createPayment that need an address
    Merchants,      \* merchants of the organization
    Locations,      \* locations of the organization
    Nobody,         \* a null merchantId or locationId
    MerchantOf,     \* MerchantOf[r]: merchantId of the caller of look-up r
    Legacy,         \* look-ups for which a merchant's static address exists
    NoWallet,       \* the look-up has no wallet
    MaxDbErrors     \* bound: database calls that fail

ASSUME WalletConstants ==
    /\ Ids \subseteq Nat
    /\ NoWallet \notin Ids
    /\ Nobody \notin Merchants /\ Nobody \notin Locations
    /\ MerchantOf \in [Lookups -> Merchants \cup {Nobody}]
    /\ Legacy \subseteq Lookups
    /\ MaxDbErrors \in Nat

VARIABLES
    wallet,     \* wallet[w]: the row of wallet w
    pc,         \* pc[c]: where the call c is
    arg,        \* arg[c]: the wallet it stores, or the changes it makes
    lpc,        \* lpc[r]: where the look-up r is, or how it ended
    answer,     \* answer[r]: the wallet it found
    active,     \* active[r]: wallets that have been active since r began
    steady,     \* steady[r]: those that have been the only primary wallet
    raced,      \* since the flags were last unset, has a call stored a primary
                \* wallet when another had one to store?
    dbErrors    \* failed database calls so far

lookupVars == <<lpc, answer>>
history == <<active, steady>>
vars == <<wallet, pc, arg, lookupVars, history, raced, dbErrors>>

Statuses == {"active", "inactive", "archived"}

Row == [status : Statuses \cup {"none"}, primary : BOOLEAN,
        merchant : Merchants \cup {Nobody}, location : Locations \cup {Nobody}]
NoRow == [status |-> "none", primary |-> FALSE,
          merchant |-> Nobody, location |-> Nobody]

\* What a call is about: a new wallet (NoWallet), or changes of wallet id, in
\* which a field the DTO does not have is "keep".
Change == [id : Ids \cup {NoWallet},
           primary : {"yes", "no", "keep"}, status : Statuses \cup {"keep"},
           merchant : Merchants \cup {Nobody}, location : Locations \cup {Nobody}]
NewWallet(p, s, m, l) ==
    [id |-> NoWallet, primary |-> p, status |-> s, merchant |-> m, location |-> l]
ChangeOf(w, p, s) ==
    [id |-> w, primary |-> p, status |-> s, merchant |-> Nobody, location |-> Nobody]
NoChange == ChangeOf(NoWallet, "keep", "keep")

Working == {"unset", "insert", "save"}
Asking == {"merchant", "org", "any", "static", "retry"}

TypeOK ==
    /\ wallet \in [Ids -> Row]
    /\ pc \in [Calls -> {"new", "done", "error"} \cup Working]
    /\ arg \in [Calls -> Change]
    /\ lpc \in [Lookups -> {"new", "found", "legacy", "refused"} \cup Asking]
    /\ answer \in [Lookups -> Ids \cup {NoWallet}]
    /\ active \in [Lookups -> SUBSET Ids]
    /\ steady \in [Lookups -> SUBSET Ids]
    /\ raced \in BOOLEAN
    /\ dbErrors \in 0..MaxDbErrors

Init ==
    /\ wallet = [w \in Ids |-> NoRow]
    /\ pc = [c \in Calls |-> "new"]
    /\ arg = [c \in Calls |-> NoChange]
    /\ lpc = [r \in Lookups |-> "new"]
    /\ answer = [r \in Lookups |-> NoWallet]
    /\ active = [r \in Lookups |-> {}]
    /\ steady = [r \in Lookups |-> {}]
    /\ raced = FALSE
    /\ dbErrors = 0

-----------------------------------------------------------------------------
(* Changing wallets.                                                       *)

Stored == {w \in Ids : wallet[w].status # "none"}
IsActive(w) == wallet[w].status = "active"
IsActivePrimary(w) == IsActive(w) /\ wallet[w].primary

\* In the rows f, w is active and the only primary wallet.
IsSole(f, w) == f[w].status = "active" /\ \A v \in Ids : f[v].primary <=> v = w

\* The wallets become f, and the look-ups under way remember which did not
\* stop being active, or the only primary one.
SetWallets(f) ==
    /\ wallet' = f
    /\ active' = [r \in Lookups |-> {w \in active[r] : f[w].status = "active"}]
    /\ steady' = [r \in Lookups |-> {w \in steady[r] : IsSole(f, w)}]

\* Call c is to do a, and goes on at label l, whatever calls are under way.
Begin(c, a, l) ==
    /\ pc[c] = "new"
    /\ arg' = [arg EXCEPT ![c] = a]
    /\ pc' = [pc EXCEPT ![c] = l]
    /\ UNCHANGED <<wallet, lookupVars, history, raced, dbErrors>>

\* The next thing c does is to store a primary wallet.
Promotes(c) == pc[c] \in {"insert", "save"} /\ arg[c].primary = "yes"

\* c stores a primary wallet when another call has one to store.
Races(c) == Promotes(c) /\ \E d \in Calls \ {c} : Promotes(d)

\* create: a new wallet that is to be primary has the others unset first.
Create(c) ==
    \E p \in {"yes", "no"}, s \in Statuses,
       m \in Merchants \cup {Nobody}, l \in Locations \cup {Nobody} :
        Begin(c, NewWallet(p, s, m, l), IF p = "yes" THEN "unset" ELSE "insert")

\* Mutant of UnsetsOthers: update leaves the other wallets alone.
UnsetsOthersNever(w, p) == FALSE

\* update unsets the others if the wallet it read is not primary yet.
UnsetsOthers(w, p) == p = "yes" /\ ~wallet[w].primary

\* update: it reads the wallet.
Update(c) ==
    \E w \in Stored, p \in {"yes", "no", "keep"}, s \in Statuses \cup {"keep"} :
        Begin(c, ChangeOf(w, p, s), IF UnsetsOthers(w, p) THEN "unset" ELSE "save")

\* delete: it reads the wallet that is to be archived.
Delete(c) == \E w \in Stored : Begin(c, ChangeOf(w, "no", "archived"), "save")

\* The update that takes the primary flag from every wallet.
UnsetPrimary(c) ==
    /\ pc[c] = "unset"
    /\ SetWallets([w \in Ids |-> [wallet[w] EXCEPT !.primary = FALSE]])
    /\ pc' = [pc EXCEPT ![c] = IF arg[c].id = NoWallet THEN "insert" ELSE "save"]
    /\ raced' = FALSE
    /\ UNCHANGED <<arg, lookupVars, dbErrors>>

\* create stores the new wallet.
Insert(c) ==
    /\ pc[c] = "insert"
    /\ \E w \in Ids :
        /\ wallet[w].status = "none"
        /\ \A v \in Ids : v < w => wallet[v].status # "none"
        /\ SetWallets([wallet EXCEPT ![w] =
              [status |-> arg[c].status, primary |-> arg[c].primary = "yes",
               merchant |-> arg[c].merchant, location |-> arg[c].location]])
    /\ pc' = [pc EXCEPT ![c] = "done"]
    /\ raced' = (raced \/ Races(c))
    /\ UNCHANGED <<arg, lookupVars, dbErrors>>

\* The row r with the changes a.
Changed(r, a) ==
    [r EXCEPT !.primary = IF a.primary = "keep" THEN @ ELSE a.primary = "yes",
              !.status  = IF a.status = "keep" THEN @ ELSE a.status]

\* update and delete save their changes.
Save(c) ==
    /\ pc[c] = "save"
    /\ SetWallets([wallet EXCEPT ![arg[c].id] = Changed(@, arg[c])])
    /\ pc' = [pc EXCEPT ![c] = "done"]
    /\ raced' = (raced \/ Races(c))
    /\ UNCHANGED <<arg, lookupVars, dbErrors>>

\* A call of the database fails, or the process dies: what was written stays.
CallFails(c) ==
    /\ dbErrors < MaxDbErrors
    /\ pc[c] \in Working
    /\ dbErrors' = dbErrors + 1
    /\ pc' = [pc EXCEPT ![c] = "error"]
    /\ UNCHANGED <<wallet, arg, lookupVars, history, raced>>

-----------------------------------------------------------------------------
(* Looking for the address of a payment.                                   *)

\* findActiveWallet: createPayment passes the merchantId of its caller, and no
\* locationId, so that the queries for wallets of a location are not made.
BeginLookup(r) ==
    /\ lpc[r] = "new"
    /\ lpc' = [lpc EXCEPT ![r] = IF MerchantOf[r] = Nobody THEN "org" ELSE "merchant"]
    /\ active' = [active EXCEPT ![r] = {w \in Ids : IsActive(w)}]
    /\ steady' = [steady EXCEPT ![r] = {w \in Ids : IsSole(wallet, w)}]
    /\ UNCHANGED <<wallet, pc, arg, answer, raced, dbErrors>>

\* A query of look-up r at label l: it returns one of Best, a subset of the
\* wallets S that match; with none the look-up goes on at label next.
Ask(r, l, S, Best, next) ==
    /\ lpc[r] = l
    /\ IF S = {}
       THEN /\ lpc' = [lpc EXCEPT ![r] = next]
            /\ UNCHANGED answer
       ELSE /\ lpc' = [lpc EXCEPT ![r] = "found"]
            /\ \E w \in Best : answer' = [answer EXCEPT ![r] = w]
    /\ UNCHANGED <<wallet, pc, arg, history, raced, dbErrors>>

Newest(S) == {w \in S : \A v \in S : v <= w}

AskMerchant(r) ==
    LET S == {w \in Ids : IsActivePrimary(w) /\ wallet[w].merchant = MerchantOf[r]}
    IN  Ask(r, "merchant", S, S, "org")

\* Mutant of AskOrganization: any active wallet will do.
AskOrganizationAny(r) ==
    LET S == {w \in Ids : IsActive(w)} IN Ask(r, "org", S, S, "any")

AskOrganization(r) ==
    LET S == {w \in Ids : IsActivePrimary(w)} IN Ask(r, "org", S, S, "any")

\* Mutant of AskAny: it asks for primary wallets once more.
AskAnyPrimary(r) ==
    LET S == {w \in Ids : IsActivePrimary(w)} IN Ask(r, "any", S, Newest(S), "static")

\* The last query returns the newest active wallet.
AskAny(r) ==
    LET S == {w \in Ids : IsActive(w)} IN Ask(r, "any", S, Newest(S), "static")

\* getAddressForPayment turns to the static address of a merchant, twice; with
\* none the payment is refused.
AskStatic(r) ==
    /\ lpc[r] \in {"static", "retry"}
    /\ lpc' = [lpc EXCEPT ![r] = IF r \in Legacy THEN "legacy" ELSE "refused"]
    /\ UNCHANGED <<wallet, pc, arg, answer, history, raced, dbErrors>>

\* A failed call is taken for "could not allocate address".
LookupFails(r) ==
    /\ dbErrors < MaxDbErrors
    /\ lpc[r] \in Asking
    /\ dbErrors' = dbErrors + 1
    /\ lpc' = [lpc EXCEPT ![r] =
                  CASE lpc[r] \in {"merchant", "org", "any"} -> "static"
                    [] lpc[r] = "static" -> "retry"
                    [] lpc[r] = "retry" -> "refused"]
    /\ UNCHANGED <<wallet, pc, arg, answer, history, raced>>

Manage(c) ==
    \/ Create(c) \/ Update(c) \/ Delete(c)
    \/ UnsetPrimary(c) \/ Insert(c) \/ Save(c) \/ CallFails(c)

LookUp(r) ==
    \/ BeginLookup(r) \/ AskMerchant(r) \/ AskOrganization(r) \/ AskAny(r)
    \/ AskStatic(r) \/ LookupFails(r)

Next == (\E c \in Calls : Manage(c)) \/ (\E r \in Lookups : LookUp(r))

Spec == Init /\ [][Next]_vars

-----------------------------------------------------------------------------
\* At most one wallet is primary, whatever fails between unsetting the others
\* and storing the new one, unless a call stored a primary wallet when another
\* had one to store as well.  Unsetting the flags mends that.
OnePrimary ==
    raced \/ \A v, w \in Ids : wallet[v].primary /\ wallet[w].primary => v = w

\* A wallet that is active and the only primary one all the time a payment
\* looks for its address is the one the payment gets, unless a call fails.
SteadyPrimaryFound ==
    dbErrors = 0 => \A r \in Lookups :
        lpc[r] \in {"found", "legacy", "refused"}
            => \A w \in steady[r] : answer[r] = w

\* A payment is sent to a merchant's static address, or refused, only if no
\* wallet was active from the look-up's first query to its end: wallets that
\* change their flags meanwhile are not missed.
FallsBackRightly ==
    dbErrors = 0 => \A r \in Lookups :
        lpc[r] \in {"static", "legacy", "refused"} => active[r] = {}
=============================================================================
