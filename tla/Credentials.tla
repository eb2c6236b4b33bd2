----------------------------- MODULE Credentials -----------------------------
(***************************************************************************)
(* The credentials of machines: the token of a terminal (DevicesService),  *)
(* an API key (ApiKeysService) and the legacy API key of a merchant        *)
(* (MerchantsService), and the guards that accept requests by them.        *)
(*                                                                         *)
(* Each of these services reads a row, changes its copy and saves it, with *)
(* other calls in between.  Repository.save writes every column of the     *)
(* copy that differs from the row, and leaves alone the columns the copy   *)
(* does not have: findById of devices and of API keys deletes the hash of  *)
(* the secret from its copy.                                               *)
(*                                                                         *)
(* There is one row of each kind.  A secret is named after the call that   *)
(* made it; hashing is left out, and so are names, scopes and metadata.    *)
(***************************************************************************)
EXTENDS Naturals

CONSTANTS
    Calls,          \* calls of the services
    First,          \* the secret an API key or a merchant is created with
    NoSecret,       \* a null column
    Kept            \* a copy without the column of the secret

Kinds == {"device", "apiKey", "merchant"}
Secrets == Calls \cup {First}

ASSUME CredentialConstants ==
    /\ First \notin Calls
    /\ {NoSecret, Kept} \cap Secrets = {}
    /\ NoSecret # Kept

VARIABLES
    row,        \* row[k]: status and secret of the row of kind k
    pc,         \* pc[c]: where call c is
    kind,       \* kind[c]: the kind of row it works on
    copy,       \* copy[c]: its copy of the row
    stale,      \* calls that have not seen the latest change of their row
    torn,       \* kinds of rows in which such a call has undone a change
    issued,     \* issued[k]: secrets stored for k and given to a client
    latest,     \* latest[k]: the last of them
    revoked,    \* kinds whose revocation was stored
    expired,    \* is the expiresAt of the API key past?
    accepted    \* accepted[c]: the secret the lookup for call c found valid

vars == <<row, pc, kind, copy, stale, torn, issued, latest, revoked, expired,
          accepted>>

\* Devices, API keys (revoked when revokedAt is set) and merchants.
DeviceRow == [status : {"pending_pairing", "active", "revoked"},
              secret : Calls \cup {NoSecret}]
ApiKeyRow == [status : {"active", "revoked"}, secret : {First}]
MerchantRow == [status : {"active"}, secret : Secrets]

Row == DeviceRow \cup ApiKeyRow \cup MerchantRow
NoRow == [status |-> "none", secret |-> NoSecret]

TypeOK ==
    /\ row \in [Kinds -> Row \cup {NoRow}]
    /\ row["device"] \in DeviceRow \cup {NoRow}
    /\ row["apiKey"] \in ApiKeyRow \cup {NoRow}
    /\ row["merchant"] \in MerchantRow \cup {NoRow}
    /\ pc \in [Calls -> {"new", "save", "done", "refused", "error"}]
    /\ kind \in [Calls -> Kinds]
    /\ copy \in [Calls -> [status : {"none", "pending_pairing", "active", "revoked"},
                        secret : Secrets \cup {NoSecret, Kept}]]
    /\ stale \subseteq Calls
    /\ torn \subseteq Kinds
    /\ issued \in [Kinds -> SUBSET Secrets]
    /\ latest \in [Kinds -> Secrets \cup {NoSecret}]
    /\ revoked \subseteq Kinds
    /\ expired \in BOOLEAN
    /\ accepted \in [Calls -> Secrets \cup {NoSecret}]

Init ==
    /\ row = [k \in Kinds |-> NoRow]
    /\ pc = [c \in Calls |-> "new"]
    /\ kind = [c \in Calls |-> "device"]
    /\ copy = [c \in Calls |-> NoRow]
    /\ stale = {}
    /\ torn = {}
    /\ issued = [k \in Kinds |-> {}]
    /\ latest = [k \in Kinds |-> NoSecret]
    /\ revoked = {}
    /\ expired = FALSE
    /\ accepted = [c \in Calls |-> NoSecret]

-----------------------------------------------------------------------------
\* A new row of kind k, with its first secret if it has one.
Create(k, status, secret) ==
    /\ row[k] = NoRow
    /\ row' = [row EXCEPT ![k] = [status |-> status, secret |-> secret]]
    /\ issued' = [issued EXCEPT ![k] = {secret} \ {NoSecret}]
    /\ latest' = [latest EXCEPT ![k] = secret]
    /\ UNCHANGED <<pc, kind, copy, stale, torn, revoked, expired, accepted>>

\* register of a device, which has no token before it is paired.
RegisterDevice == Create("device", "pending_pairing", NoSecret)

CreateApiKey == Create("apiKey", "active", First)

CreateMerchant == Create("merchant", "active", First)

\* There is a row for findById or for the lookup of a secret to find.
Exists(k) == row[k] # NoRow

\* Call c has read the row of kind k, and goes on to save the copy r.
Hold(c, k, r) ==
    /\ pc[c] = "new"
    /\ Exists(k)
    /\ pc' = [pc EXCEPT ![c] = "save"]
    /\ kind' = [kind EXCEPT ![c] = k]
    /\ copy' = [copy EXCEPT ![c] = r]
    /\ UNCHANGED <<row, stale, torn, issued, latest, revoked, expired>>

\* findById of devices and API keys; that of merchants deletes the password.
FindById(k) ==
    IF k = "merchant" THEN row[k] ELSE [row[k] EXCEPT !.secret = Kept]

\* Mutant of MayPair: a revoked device may be paired again.
MayPairAny(r) == r.status # "none"

MayPair(r) == r.status # "revoked"

\* pair: whoever has the code of the device gets a new token for it.
Pair(c) ==
    /\ MayPair(row["device"])
    /\ Hold(c, "device", [status |-> "active", secret |-> c])
    /\ UNCHANGED accepted

\* regenerateApiKey of a merchant.
Regenerate(c) ==
    /\ Hold(c, "merchant", [FindById("merchant") EXCEPT !.secret = c])
    /\ UNCHANGED accepted

RevokeDevice(c) ==
    /\ Hold(c, "device", [FindById("device") EXCEPT !.status = "revoked"])
    /\ UNCHANGED accepted

RevokeApiKey(c) ==
    /\ Hold(c, "apiKey", [FindById("apiKey") EXCEPT !.status = "revoked"])
    /\ UNCHANGED accepted

\* update of other columns than these.
UpdateDevice(c) ==
    /\ Hold(c, "device", FindById("device"))
    /\ UNCHANGED accepted

UpdateMerchant(c) ==
    /\ Hold(c, "merchant", FindById("merchant"))
    /\ UNCHANGED accepted

\* Mutant of Valid: the query looks for the hash only.
ValidHash(k, s) == row[k].secret = s

\* The query of validateDeviceToken, validateApiKey or findByApiKey finds a row.
Valid(k, s) ==
    /\ row[k].secret = s
    /\ k # "merchant" => row[k].status = "active"

\* The guard finds the secret s that call c presents valid.
Grant(c, k) ==
    \E s \in issued[k] :
        /\ Valid(k, s)
        /\ accepted' = [accepted EXCEPT ![c] = s]

\* A terminal is accepted once its row is saved with the time of the request.
AcceptDevice(c) ==
    /\ Grant(c, "device")
    /\ Hold(c, "device", row["device"])

\* An API key is accepted while its row is being saved likewise.
AcceptApiKey(c) ==
    /\ ~expired
    /\ Grant(c, "apiKey")
    /\ Hold(c, "apiKey", row["apiKey"])

\* A merchant's key is looked up and nothing else.
AcceptMerchant(c) ==
    /\ pc[c] = "new"
    /\ Grant(c, "merchant")
    /\ pc' = [pc EXCEPT ![c] = "done"]
    /\ kind' = [kind EXCEPT ![c] = "merchant"]
    /\ UNCHANGED <<row, copy, stale, torn, issued, latest, revoked, expired>>

\* A secret that was given out once is valid no more.
Refuse(c) ==
    /\ pc[c] = "new"
    /\ \E k \in Kinds : \E s \in issued[k] :
          ~Valid(k, s) \/ (k = "apiKey" /\ expired)
    /\ pc' = [pc EXCEPT ![c] = "refused"]
    /\ UNCHANGED <<row, kind, copy, stale, torn, issued, latest, revoked,
                   expired, accepted>>

\* Mutant of Merged: a column the copy does not have is set to null.
MergedNulls(r, s) ==
    [status |-> s.status,
     secret |-> IF s.secret = Kept THEN NoSecret ELSE s.secret]

\* The row r after the save of the copy s.
Merged(r, s) ==
    [status |-> s.status,
     secret |-> IF s.secret = Kept THEN r.secret ELSE s.secret]

\* The save, awaited or not.
Save(c) ==
    LET k == kind[c]
        new == Merged(row[k], copy[c])
    IN  /\ pc[c] = "save"
        /\ pc' = [pc EXCEPT ![c] = "done"]
        /\ row' = [row EXCEPT ![k] = new]
        /\ torn' = IF c \in stale /\ new # row[k] THEN torn \cup {k} ELSE torn
        /\ stale' = IF new = row[k] THEN stale
                    ELSE stale \cup {d \in Calls : pc[d] = "save" /\ kind[d] = k}
        /\ IF copy[c].secret = c
           THEN /\ issued' = [issued EXCEPT ![k] = @ \cup {c}]
                /\ latest' = [latest EXCEPT ![k] = c]
           ELSE UNCHANGED <<issued, latest>>
        /\ revoked' = IF copy[c].status = "revoked" THEN revoked \cup {k}
                      ELSE revoked
        /\ UNCHANGED <<kind, copy, expired, accepted>>

\* The save fails: the caller is told, or nobody is.
SaveFails(c) ==
    /\ pc[c] = "save"
    /\ pc' = [pc EXCEPT ![c] = "error"]
    /\ UNCHANGED <<row, kind, copy, stale, torn, issued, latest, revoked,
                   expired, accepted>>

\* The expiresAt of the API key passes.
PassExpiry ==
    /\ ~expired
    /\ expired' = TRUE
    /\ UNCHANGED <<row, pc, kind, copy, stale, torn, issued, latest, revoked,
                   accepted>>

Next ==
    \/ RegisterDevice \/ CreateApiKey \/ CreateMerchant
    \/ \E c \in Calls :
          \/ Pair(c) \/ RevokeDevice(c) \/ UpdateDevice(c) \/ AcceptDevice(c)
          \/ RevokeApiKey(c) \/ AcceptApiKey(c)
          \/ Regenerate(c) \/ UpdateMerchant(c) \/ AcceptMerchant(c)
          \/ Refuse(c) \/ Save(c) \/ SaveFails(c)
    \/ PassExpiry

Spec == Init /\ [][Next]_vars

-----------------------------------------------------------------------------
\* A revocation is final, whatever calls run beside it, unless one of them
\* saves a copy it read before (torn): no later pairing, update or request
\* brings the device or the API key back.
RevocationHolds ==
    \A k \in revoked \ torn : row[k].status = "revoked"

\* The secret that was given out last is the one that is stored, and it works
\* as long as the row is active, unless a copy read before was saved over it:
\* neither the saves that leave the secret out nor those that stamp undo it.
LatestWorks ==
    \A k \in Kinds \ torn : row[k].secret = latest[k]

\* No request is accepted by a secret that was replaced, nor by one whose
\* revocation was stored, before it was looked up, unless a copy read before
\* was saved since.
NoLateAccess ==
    [][\A c \in Calls, k \in Kinds \ torn :
          accepted[c] = NoSecret /\ accepted'[c] # NoSecret /\ kind'[c] = k
              => k \notin revoked /\ accepted'[c] = latest[k]]_vars
=============================================================================
