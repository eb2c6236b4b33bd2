---------------------------- MODULE AccessProofs ----------------------------
(***************************************************************************)
(* Proofs about what a request presents, for Credentials and KeyCache.     *)
(*                                                                         *)
(* Credentials: a revocation is final and the secret given out last works, *)
(* unless a copy read before a change was saved over it; and no request is *)
(* accepted by a secret that was replaced or revoked.  The invariant: a    *)
(* call that holds a copy and is not stale holds a copy of the row as it   *)
(* is, but for what the call itself is to change.                          *)
(*                                                                         *)
(* KeyCache: a token of a published key is accepted, and one of a key that *)
(* was withdrawn is refused in the end.  The invariant: an answer under    *)
(* way holds what was published since it was asked for, and the cache what *)
(* was published at most a time-out before it was filled.                  *)
(***************************************************************************)
EXTENDS Credentials, KeyCache, TLAPS

\* What a call may hold of a row of kind k.
CopyRow(k) ==
    CASE k = "device"   -> [status : {"pending_pairing", "active", "revoked"},
                            secret : Calls \cup {NoSecret, Kept}]
      [] k = "apiKey"   -> [status : {"active", "revoked"}, secret : {First, Kept}]
      [] k = "merchant" -> [status : {"active"}, secret : Secrets]

RowOf(k) == CASE k = "device"   -> DeviceRow
              [] k = "apiKey"   -> ApiKeyRow
              [] k = "merchant" -> MerchantRow

Holds(c) == pc[c] = "save"

CopiesOK ==
    \A c \in Calls : Holds(c) => row[kind[c]] # NoRow /\ copy[c] \in CopyRow(kind[c])

\* Nothing is known of a row that was not created.
Unborn ==
    \A k \in Kinds : row[k] = NoRow => latest[k] = NoSecret /\ k \notin revoked

\* The copy of a call that is not stale.
CopyFresh(c) ==
    /\ row[kind[c]].status = "revoked" => copy[c].status = "revoked"
    /\ copy[c].secret \in {Kept, row[kind[c]].secret, c}

CopiesFresh == \A c \in Calls \ stale : Holds(c) => CopyFresh(c)

CredentialInv ==
    /\ TypeOK /\ CopiesOK /\ Unborn /\ CopiesFresh
    /\ RevocationHolds /\ LatestWorks

-----------------------------------------------------------------------------
LEMMA RowTypes ==
    /\ \A k \in Kinds : RowOf(k) \subseteq Row
    /\ \A k \in Kinds : NoRow \notin RowOf(k)
    /\ \A k \in Kinds : CopyRow(k) \subseteq
            [status : {"none", "pending_pairing", "active", "revoked"},
             secret : Secrets \cup {NoSecret, Kept}]
    /\ NoRow \in [status : {"none", "pending_pairing", "active", "revoked"},
                  secret : Secrets \cup {NoSecret, Kept}]
    /\ \A k \in Kinds : \A r \in RowOf(k) :
            r.secret \in Secrets \cup {NoSecret} /\ r.secret # Kept
<1>1. \A k \in Kinds : RowOf(k) \subseteq Row
  BY DEF Kinds, RowOf, Row
<1>2. \A k \in Kinds : NoRow \notin RowOf(k)
  BY DEF Kinds, RowOf, NoRow, DeviceRow, ApiKeyRow, MerchantRow
<1>3. \A k \in Kinds : CopyRow(k) \subseteq
            [status : {"none", "pending_pairing", "active", "revoked"},
             secret : Secrets \cup {NoSecret, Kept}]
  BY DEF Kinds, CopyRow, Secrets
<1>4. NoRow \in [status : {"none", "pending_pairing", "active", "revoked"},
                 secret : Secrets \cup {NoSecret, Kept}]
  BY DEF NoRow
<1>5. ASSUME NEW k \in Kinds, NEW r \in RowOf(k)
      PROVE  r.secret \in Secrets \cup {NoSecret} /\ r.secret # Kept
  BY CredentialConstants
     DEF Kinds, RowOf, DeviceRow, ApiKeyRow, MerchantRow, Secrets
<1> QED BY <1>1, <1>2, <1>3, <1>4, <1>5

\* The type invariant says of the rows just this.
LEMMA RowsOfKinds ==
    ASSUME NEW f
    PROVE  (/\ f \in [Kinds -> Row \cup {NoRow}]
            /\ f["device"] \in DeviceRow \cup {NoRow}
            /\ f["apiKey"] \in ApiKeyRow \cup {NoRow}
            /\ f["merchant"] \in MerchantRow \cup {NoRow})
           <=> (/\ f \in [Kinds -> Row \cup {NoRow}]
                /\ \A k \in Kinds : f[k] \in RowOf(k) \cup {NoRow})
  BY DEF Kinds, RowOf

\* The save of what a call may hold leaves a row of its kind.
LEMMA MergedType ==
    ASSUME NEW k \in Kinds, NEW r \in RowOf(k), NEW s \in CopyRow(k)
    PROVE  Merged(r, s) \in RowOf(k)
<1>1. CASE k = "device"
  BY <1>1 DEF RowOf, CopyRow, Merged, DeviceRow
<1>2. CASE k = "apiKey"
  BY <1>2 DEF RowOf, CopyRow, Merged, ApiKeyRow
<1>3. CASE k = "merchant"
  <2>1. s.secret # Kept
    BY <1>3, CredentialConstants DEF CopyRow
  <2> QED BY <1>3, <2>1 DEF RowOf, CopyRow, Merged, MerchantRow
<1> QED BY <1>1, <1>2, <1>3 DEF Kinds

-----------------------------------------------------------------------------
LEMMA CreateKeeps ==
    ASSUME CredentialInv, NEW k \in Kinds, NEW status, NEW secret,
           [status |-> status, secret |-> secret] \in RowOf(k),
           status # "revoked", Create(k, status, secret)
    PROVE  CredentialInv'
<1> DEFINE new == [status |-> status, secret |-> secret]
<1>1. /\ row[k] = NoRow /\ row' = [row EXCEPT ![k] = new]
      /\ issued' = [issued EXCEPT ![k] = {secret} \ {NoSecret}]
      /\ latest' = [latest EXCEPT ![k] = secret]
      /\ UNCHANGED <<pc, kind, copy, stale, torn, revoked, expired, accepted>>
  BY DEF Create
<1>2. new \in RowOf(k) /\ new.secret = secret /\ new.status # "revoked"
  OBVIOUS
<1> HIDE DEF new
<1>3. secret \in Secrets \cup {NoSecret} /\ new # NoRow /\ new \in Row
  BY <1>2, RowTypes
<1>4. TypeOK'
  <2>1. row' \in [Kinds -> Row \cup {NoRow}]
        /\ \A j \in Kinds : row'[j] \in RowOf(j) \cup {NoRow}
    BY <1>1, <1>2, <1>3, RowsOfKinds DEF CredentialInv, TypeOK
  <2>2. /\ issued' \in [Kinds -> SUBSET Secrets]
        /\ latest' \in [Kinds -> Secrets \cup {NoSecret}]
    BY <1>1, <1>3 DEF CredentialInv, TypeOK
  <2> QED BY <1>1, <2>1, <2>2, RowsOfKinds DEF CredentialInv, TypeOK
<1>5. \A c \in Calls : Holds(c) => kind[c] # k
  BY <1>1 DEF CredentialInv, CopiesOK
<1>6. CopiesOK' /\ CopiesFresh'
  BY <1>1, <1>5 DEF CredentialInv, TypeOK, CopiesOK, CopiesFresh, CopyFresh, Holds
<1>7. Unborn'
  BY <1>1, <1>3 DEF CredentialInv, TypeOK, Unborn
<1>8. RevocationHolds' /\ LatestWorks'
  BY <1>1, <1>2 DEF CredentialInv, TypeOK, Unborn, RevocationHolds, LatestWorks
<1> QED BY <1>4, <1>6, <1>7, <1>8 DEF CredentialInv

\* A call that reads a row and holds a fresh copy of it.
LEMMA HoldKeeps ==
    ASSUME CredentialInv, NEW c \in Calls, NEW k \in Kinds, NEW r \in CopyRow(k),
           row[k].status = "revoked" => r.status = "revoked",
           r.secret \in {Kept, row[k].secret, c},
           Hold(c, k, r), accepted' \in [Calls -> Secrets \cup {NoSecret}]
    PROVE  CredentialInv'
<1>1. /\ row[k] # NoRow
      /\ pc' = [pc EXCEPT ![c] = "save"]
      /\ kind' = [kind EXCEPT ![c] = k]
      /\ copy' = [copy EXCEPT ![c] = r]
      /\ UNCHANGED <<row, stale, torn, issued, latest, revoked, expired>>
  BY DEF Hold, Exists
<1>2. TypeOK'
  BY <1>1, RowTypes DEF CredentialInv, TypeOK
<1>3. CopiesOK'
  BY <1>1 DEF CredentialInv, TypeOK, CopiesOK, Holds
<1>4. CopiesFresh'
  BY <1>1 DEF CredentialInv, TypeOK, CopiesFresh, CopyFresh, Holds
<1>5. Unborn' /\ RevocationHolds' /\ LatestWorks'
  BY <1>1 DEF CredentialInv, Unborn, RevocationHolds, LatestWorks
<1> QED BY <1>2, <1>3, <1>4, <1>5 DEF CredentialInv

\* A call that ends without changing a row.
LEMMA EndKeeps ==
    ASSUME CredentialInv, NEW c \in Calls, NEW l \in {"done", "refused", "error"},
           pc' = [pc EXCEPT ![c] = l],
           kind' = kind \/ \E k \in Kinds : kind' = [kind EXCEPT ![c] = k],
           accepted' \in [Calls -> Secrets \cup {NoSecret}],
           UNCHANGED <<row, copy, stale, torn, issued, latest, revoked, expired>>
    PROVE  CredentialInv'
<1>1. TypeOK'
  <2>1. pc' \in [Calls -> {"new", "save", "done", "refused", "error"}]
    BY DEF CredentialInv, TypeOK
  <2>2. kind' \in [Calls -> Kinds]
    BY DEF CredentialInv, TypeOK
  <2> QED BY <2>1, <2>2 DEF CredentialInv, TypeOK
<1>2. CopiesOK' /\ CopiesFresh'
  <2>1. \A d \in Calls : Holds(d)' => Holds(d) /\ kind'[d] = kind[d]
    BY DEF CredentialInv, TypeOK, Holds
  <2>2. CopiesOK'
    BY <2>1 DEF CredentialInv, CopiesOK
  <2>3. CopiesFresh'
    BY <2>1 DEF CredentialInv, CopiesFresh, CopyFresh
  <2> QED BY <2>2, <2>3
<1>3. Unborn' /\ RevocationHolds' /\ LatestWorks'
  BY DEF CredentialInv, Unborn, RevocationHolds, LatestWorks
<1> QED BY <1>1, <1>2, <1>3 DEF CredentialInv

LEMMA SaveKeeps ==
    ASSUME CredentialInv, NEW c \in Calls, Save(c)
    PROVE  CredentialInv'
<1> DEFINE k == kind[c]
           new == Merged(row[k], copy[c])
<1>1. /\ Holds(c)
      /\ pc' = [pc EXCEPT ![c] = "done"]
      /\ row' = [row EXCEPT ![k] = new]
      /\ torn' = IF c \in stale /\ new # row[k] THEN torn \cup {k} ELSE torn
      /\ stale' = IF new = row[k] THEN stale
                  ELSE stale \cup {d \in Calls : Holds(d) /\ kind[d] = k}
      /\ IF copy[c].secret = c
         THEN /\ issued' = [issued EXCEPT ![k] = @ \cup {c}]
              /\ latest' = [latest EXCEPT ![k] = c]
         ELSE UNCHANGED <<issued, latest>>
      /\ revoked' = IF copy[c].status = "revoked" THEN revoked \cup {k} ELSE revoked
      /\ UNCHANGED <<kind, copy, expired, accepted>>
  BY DEF Save, Holds
<1>2. k \in Kinds /\ row[k] \in RowOf(k) /\ copy[c] \in CopyRow(k)
  <2>1. k \in Kinds /\ row[k] # NoRow /\ copy[c] \in CopyRow(k)
    BY <1>1 DEF CredentialInv, TypeOK, CopiesOK
  <2>2. row[k] \in RowOf(k) \cup {NoRow}
    BY <2>1, RowsOfKinds DEF CredentialInv, TypeOK
  <2> QED BY <2>1, <2>2
<1>3. new \in RowOf(k) /\ new # NoRow /\ new \in Row
  BY <1>2, MergedType, RowTypes
<1>4. /\ new.status = copy[c].status
      /\ new.secret = IF copy[c].secret = Kept THEN row[k].secret ELSE copy[c].secret
      /\ c # Kept
  BY CredentialConstants DEF Merged, Secrets
<1> HIDE DEF new, k
<1>5. TypeOK'
  <2>1. row' \in [Kinds -> Row \cup {NoRow}]
        /\ \A j \in Kinds : row'[j] \in RowOf(j) \cup {NoRow}
    BY <1>1, <1>2, <1>3, RowsOfKinds DEF CredentialInv, TypeOK
  <2>2. /\ issued' \in [Kinds -> SUBSET Secrets]
        /\ latest' \in [Kinds -> Secrets \cup {NoSecret}]
    BY <1>1, <1>2 DEF CredentialInv, TypeOK, Secrets
  <2>3. /\ pc' \in [Calls -> {"new", "save", "done", "refused", "error"}]
        /\ stale' \subseteq Calls /\ torn' \subseteq Kinds /\ revoked' \subseteq Kinds
    BY <1>1, <1>2 DEF CredentialInv, TypeOK
  <2> QED BY <1>1, <2>1, <2>2, <2>3, RowsOfKinds DEF CredentialInv, TypeOK
<1>6. CopiesOK'
  BY <1>1, <1>2, <1>3 DEF CredentialInv, TypeOK, CopiesOK, Holds
<1>7. Unborn'
  BY <1>1, <1>2, <1>3 DEF CredentialInv, TypeOK, Unborn
<1>8. CopiesFresh'
  <2> SUFFICES ASSUME NEW d \in Calls, d \notin stale', Holds(d)'
               PROVE  CopyFresh(d)'
    BY DEF CopiesFresh
  <2>1. d # c /\ Holds(d) /\ d \notin stale /\ CopyFresh(d)
    BY <1>1 DEF CredentialInv, TypeOK, CopiesFresh, Holds
  <2>2. row'[kind[d]] = row[kind[d]]
    BY <1>1, <1>2, <2>1 DEF CredentialInv, TypeOK
  <2> QED BY <1>1, <2>1, <2>2 DEF CopyFresh
<1>9. RevocationHolds'
  <2> SUFFICES ASSUME NEW j \in revoked', j \notin torn'
               PROVE  row'[j].status = "revoked"
    BY DEF RevocationHolds
  <2>1. CASE j # k
    BY <1>1, <2>1 DEF CredentialInv, TypeOK, RevocationHolds
  <2>2. CASE j = k /\ copy[c].status = "revoked"
    BY <1>1, <1>2, <1>4, <2>2 DEF CredentialInv, TypeOK
  <2>3. CASE j = k /\ copy[c].status # "revoked"
    <3>1. row[k].status = "revoked"
      BY <1>1, <2>3 DEF CredentialInv, RevocationHolds
    <3>2. c \in stale
      BY <1>1, <2>3, <3>1 DEF CredentialInv, CopiesFresh, CopyFresh, k
    <3>3. new = row[k]
      BY <1>1, <2>3, <3>2
    <3> QED BY <1>4, <2>3, <3>1, <3>3
  <2> QED BY <2>1, <2>2, <2>3
<1>10. LatestWorks'
  <2> SUFFICES ASSUME NEW j \in Kinds, j \notin torn'
               PROVE  row'[j].secret = latest'[j]
    BY DEF LatestWorks
  <2>1. CASE j # k
    BY <1>1, <2>1 DEF CredentialInv, TypeOK, LatestWorks
  <2>2. CASE j = k /\ copy[c].secret = c
    BY <1>1, <1>2, <1>4, <2>2 DEF CredentialInv, TypeOK
  <2>3. CASE j = k /\ copy[c].secret # c
    <3>1. row[k].secret = latest[k] /\ latest' = latest
      BY <1>1, <2>3 DEF CredentialInv, LatestWorks
    <3>2. new.secret = row[k].secret
      <4>1. CASE c \in stale
        BY <1>1, <2>3, <4>1
      <4>2. CASE c \notin stale
        BY <1>1, <1>4, <2>3, <4>2 DEF CredentialInv, CopiesFresh, CopyFresh, k
      <4> QED BY <4>1, <4>2
    <3> QED BY <1>1, <1>2, <2>3, <3>1, <3>2 DEF CredentialInv, TypeOK
  <2> QED BY <2>1, <2>2, <2>3
<1> QED BY <1>5, <1>6, <1>7, <1>8, <1>9, <1>10 DEF CredentialInv

-----------------------------------------------------------------------------
\* What the calls hold of the rows they read.
LEMMA Readings ==
    ASSUME CredentialInv, NEW c \in Calls, NEW k \in Kinds, row[k] # NoRow
    PROVE  /\ row[k] \in CopyRow(k) /\ FindById(k) \in CopyRow(k)
           /\ FindById(k).secret \in {Kept, row[k].secret}
           /\ FindById(k).status = row[k].status
           /\ k # "merchant" =>
                /\ [FindById(k) EXCEPT !.status = "revoked"] \in CopyRow(k)
                /\ [FindById(k) EXCEPT !.status = "revoked"].secret = Kept
           /\ k = "merchant" =>
                /\ [FindById(k) EXCEPT !.secret = c] \in CopyRow(k)
                /\ row[k].status = "active"
<1>1. row[k] \in RowOf(k)
  BY RowsOfKinds DEF CredentialInv, TypeOK
<1>2. CASE k = "device"
  BY <1>1, <1>2 DEF RowOf, DeviceRow, CopyRow, FindById
<1>3. CASE k = "apiKey"
  BY <1>1, <1>3 DEF RowOf, ApiKeyRow, CopyRow, FindById
<1>4. CASE k = "merchant"
  BY <1>1, <1>4 DEF RowOf, MerchantRow, CopyRow, FindById, Secrets
<1> QED BY <1>2, <1>3, <1>4 DEF Kinds

LEMMA GrantType ==
    ASSUME CredentialInv, NEW c \in Calls, NEW k \in Kinds, Grant(c, k)
    PROVE  /\ accepted' \in [Calls -> Secrets \cup {NoSecret}]
           /\ k # "merchant" => row[k].status = "active"
           /\ \E s \in Secrets : /\ row[k].secret = s
                              /\ accepted' = [accepted EXCEPT ![c] = s]
<1>1. PICK s \in issued[k] : /\ Valid(k, s)
                             /\ accepted' = [accepted EXCEPT ![c] = s]
  BY DEF Grant
<1>2. s \in Secrets
  BY DEF CredentialInv, TypeOK
<1>3. accepted' \in [Calls -> Secrets \cup {NoSecret}]
  BY <1>1, <1>2 DEF CredentialInv, TypeOK
<1>4. row[k].secret = s /\ (k # "merchant" => row[k].status = "active")
  BY <1>1 DEF Valid
<1> QED BY <1>1, <1>2, <1>3, <1>4

LEMMA CredentialStep == ASSUME CredentialInv, [Next]_vars PROVE CredentialInv'
<1>1. CASE RegisterDevice
  BY <1>1, CreateKeeps DEF RegisterDevice, Kinds, RowOf, DeviceRow
<1>2. CASE CreateApiKey
  BY <1>2, CreateKeeps DEF CreateApiKey, Kinds, RowOf, ApiKeyRow
<1>3. CASE CreateMerchant
  BY <1>3, CreateKeeps DEF CreateMerchant, Kinds, RowOf, MerchantRow, Secrets
<1>4. CASE \E c \in Calls : Pair(c)
  <2>1. PICK c \in Calls : Pair(c)
    BY <1>4
  <2> DEFINE r == [status |-> "active", secret |-> c]
  <2>2. row["device"].status # "revoked" /\ Hold(c, "device", r) /\ accepted' = accepted
    BY <2>1 DEF Pair, MayPair
  <2>3. r \in CopyRow("device") /\ r.secret = c
    BY DEF CopyRow
  <2> QED BY <2>2, <2>3, HoldKeeps DEF Kinds, CredentialInv, TypeOK
<1>5. CASE \E c \in Calls : Regenerate(c)
  <2>1. PICK c \in Calls : Regenerate(c)
    BY <1>5
  <2> DEFINE r == [FindById("merchant") EXCEPT !.secret = c]
  <2>2. Hold(c, "merchant", r) /\ row["merchant"] # NoRow /\ accepted' = accepted
    BY <2>1 DEF Regenerate, Hold, Exists
  <2>3. r \in CopyRow("merchant") /\ row["merchant"].status = "active"
    BY <2>2, Readings DEF Kinds
  <2>4. r.secret = c
    BY <2>2, Readings, RowTypes DEF Kinds, CopyRow
  <2> QED BY <2>2, <2>3, <2>4, HoldKeeps DEF Kinds, CredentialInv, TypeOK
<1>6. ASSUME NEW c \in Calls, NEW k \in {"device", "apiKey"},
             Hold(c, k, [FindById(k) EXCEPT !.status = "revoked"]),
             accepted' = accepted
      PROVE  CredentialInv'
  <2> DEFINE r == [FindById(k) EXCEPT !.status = "revoked"]
  <2>1. row[k] # NoRow /\ Hold(c, k, r) /\ k \in Kinds
    BY <1>6 DEF Hold, Exists, Kinds
  <2>2. r \in CopyRow(k) /\ r.secret = Kept
    BY <2>1, Readings
  <2>3. r.status = "revoked"
    BY <2>1, Readings, RowTypes
  <2> QED BY <1>6, <2>1, <2>2, <2>3, HoldKeeps DEF CredentialInv, TypeOK
<1>7. CASE \E c \in Calls : RevokeDevice(c) \/ RevokeApiKey(c)
  BY <1>6, <1>7 DEF RevokeDevice, RevokeApiKey
<1>8. CASE \E c \in Calls : UpdateDevice(c) \/ UpdateMerchant(c)
  <2>1. PICK c \in Calls, k \in Kinds : Hold(c, k, FindById(k)) /\ accepted' = accepted
    BY <1>8 DEF UpdateDevice, UpdateMerchant, Kinds
  <2>2. row[k] # NoRow
    BY <2>1 DEF Hold, Exists
  <2> QED BY <2>1, <2>2, Readings, HoldKeeps DEF CredentialInv, TypeOK
<1>9. CASE \E c \in Calls : AcceptDevice(c) \/ AcceptApiKey(c)
  <2>1. PICK c \in Calls, k \in {"device", "apiKey"} : Grant(c, k) /\ Hold(c, k, row[k])
    BY <1>9 DEF AcceptDevice, AcceptApiKey
  <2>2. row[k] # NoRow /\ k \in Kinds
    BY <2>1 DEF Hold, Exists, Kinds
  <2>3. row[k] \in CopyRow(k) /\ accepted' \in [Calls -> Secrets \cup {NoSecret}]
    BY <2>1, <2>2, Readings, GrantType
  <2> QED BY <2>1, <2>2, <2>3, HoldKeeps
<1>10. CASE \E c \in Calls : AcceptMerchant(c)
  <2>1. PICK c \in Calls : AcceptMerchant(c)
    BY <1>10
  <2>2. accepted' \in [Calls -> Secrets \cup {NoSecret}]
    BY <2>1, GrantType DEF AcceptMerchant, Kinds
  <2> QED BY <2>1, <2>2, EndKeeps DEF AcceptMerchant, Kinds
<1>11. CASE \E c \in Calls : Refuse(c) \/ SaveFails(c)
  BY <1>11, EndKeeps DEF Refuse, SaveFails, CredentialInv, TypeOK
<1>12. CASE \E c \in Calls : Save(c)
  BY <1>12, SaveKeeps
<1>13. CASE PassExpiry \/ UNCHANGED vars
  <2>1. UNCHANGED <<row, pc, kind, copy, stale, torn, issued, latest, revoked, accepted>>
        /\ expired' \in BOOLEAN
    BY <1>13 DEF PassExpiry, vars, CredentialInv, TypeOK
  <2> QED BY <2>1 DEF CredentialInv, TypeOK, CopiesOK, Unborn, CopiesFresh, CopyFresh,
             Holds, RevocationHolds, LatestWorks
<1> QED BY <1>1, <1>2, <1>3, <1>4, <1>5, <1>7, <1>8, <1>9, <1>10, <1>11, <1>12, <1>13
    DEF Next

LEMMA CredentialInit == Init => CredentialInv
<1> SUFFICES ASSUME Init PROVE CredentialInv
  OBVIOUS
<1>1. TypeOK
  BY RowTypes DEF Init, TypeOK, Kinds
<1>2. CopiesOK /\ CopiesFresh
  BY DEF Init, CopiesOK, CopiesFresh, Holds
<1>3. Unborn /\ RevocationHolds /\ LatestWorks
  BY DEF Init, Unborn, RevocationHolds, LatestWorks, NoRow
<1> QED BY <1>1, <1>2, <1>3 DEF CredentialInv

LEMMA CredentialInvariant == Spec => []CredentialInv
  BY CredentialInit, CredentialStep, PTL DEF Spec

-----------------------------------------------------------------------------
\* Every variable has its type, whatever the devices, API keys and merchants
\* services are called for.
THEOREM CredentialTypes == Spec => []TypeOK
  BY CredentialInvariant, PTL DEF CredentialInv

\* A revoked device or API key (revoke of DevicesService and ApiKeysService)
\* stays revoked in any number of calls, unless one of them saved a copy it had
\* read before.
THEOREM RevocationIsFinal == Spec => []RevocationHolds
  BY CredentialInvariant, PTL DEF CredentialInv

\* The stored secret is the last one that pair, create or regenerateApiKey gave
\* to a client, under the same condition.
THEOREM LatestSecretStored == Spec => []LatestWorks
  BY CredentialInvariant, PTL DEF CredentialInv

\* validateDeviceToken, validateApiKey and findByApiKey accept no secret that
\* was replaced or revoked before they looked it up.
THEOREM NoAccessByOldSecrets == Spec => NoLateAccess
<1> DEFINE Step == \A c \in Calls, k \in Kinds \ torn :
          accepted[c] = NoSecret /\ accepted'[c] # NoSecret /\ kind'[c] = k
              => k \notin revoked /\ accepted'[c] = latest[k]
<1>1. ASSUME CredentialInv, [Next]_vars PROVE [Step]_vars
  <2> SUFFICES ASSUME NEW c \in Calls, NEW k \in Kinds \ torn,
                      accepted[c] = NoSecret, accepted'[c] # NoSecret, kind'[c] = k
               PROVE  k \notin revoked /\ accepted'[c] = latest[k]
    OBVIOUS
  <2>1. PICK d \in Calls, j \in Kinds : Grant(d, j) /\ kind' = [kind EXCEPT ![d] = j]
    <3>1. accepted' # accepted
      OBVIOUS
    <3> QED BY <1>1, <3>1
        DEF Next, vars, RegisterDevice, CreateApiKey, CreateMerchant, Create, Pair,
            Regenerate, RevokeDevice, RevokeApiKey, UpdateDevice, UpdateMerchant,
            AcceptDevice, AcceptApiKey, AcceptMerchant, Hold, Exists, Refuse, Save,
            SaveFails, PassExpiry, Kinds
  <2>2. PICK s \in Secrets : row[j].secret = s /\ accepted' = [accepted EXCEPT ![d] = s]
    BY <1>1, <2>1, GrantType
  <2>3. d = c /\ j = k /\ accepted'[c] = row[k].secret
    BY <1>1, <2>1, <2>2 DEF CredentialInv, TypeOK
  <2>4. accepted'[c] = latest[k]
    BY <1>1, <2>3 DEF CredentialInv, LatestWorks
  <2>5. row[k].status # "revoked"
    <3>1. CASE k = "merchant"
      BY <1>1, <3>1 DEF CredentialInv, TypeOK, MerchantRow, NoRow
    <3>2. CASE k # "merchant"
      BY <1>1, <2>1, <2>3, <3>2, GrantType
    <3> QED BY <3>1, <3>2
  <2>6. k \notin revoked
    BY <1>1, <2>5 DEF CredentialInv, RevocationHolds
  <2> QED BY <2>4, <2>6
<1> QED BY <1>1, CredentialInvariant, PTL DEF Spec, NoLateAccess

-----------------------------------------------------------------------------
(* The keys of the identity provider.                                      *)

\* A published key was last seen now, and no key later.
SeenOK ==
    \A k \in Keys :
        /\ lastSeen[k] <= now
        /\ k \in ToSet(published) => lastSeen[k] = now

\* A request under way is younger than its time-out, and so is its answer.
RequestOK(t) ==
    stage[t] \in Refreshing =>
        /\ sent[t] <= now /\ now <= sent[t] + Timeout
        /\ \A k \in Keys \cap ToSet(answer[t]) : sent[t] <= lastSeen[k]

\* The key of a steady token is published while the token waits, and so in
\* every answer it gets.
SteadyOK(t) ==
    t \in steady =>
        /\ stage[t] # "new"
        /\ stage[t] \in Refreshing => token[t].signer \in ToSet(published)
        /\ t \in answered => token[t].signer \in ToSet(answer[t])

\* The keys in memory were published when they were asked for.
CacheOK == \A k \in Keys \cap ToSet(cache) : lastFetch <= lastSeen[k] + Timeout

KeyInv ==
    /\ KeyTypeOK /\ SeenOK /\ CacheOK /\ PublishedKeyAccepted
    /\ \A t \in Tokens : RequestOK(t) /\ SteadyOK(t)

LEMMA RemovedIsSeq ==
    ASSUME NEW S, NEW s \in Seq(S), NEW i \in DOMAIN s
    PROVE  RemoveAt(s, i) \in Seq(S)
<1>1. i \in 1..Len(s)
  OBVIOUS
<1>2. SubSeq(s, 1, i - 1) \in Seq(S) /\ SubSeq(s, i + 1, Len(s)) \in Seq(S)
  BY <1>1
<1>3. QED
  BY <1>2 DEF RemoveAt

\* What a look-up in the keys held does with a call.
LEMMA LookedUp ==
    ASSUME KeyTypeOK, NEW t \in Tokens, NEW held \in Seq(Keys), NEW forced,
           LookUp(t, held, forced)
    PROVE  \/ Await(t, "force") /\ token[t].kid
           \/ /\ stage' = [stage EXCEPT ![t] = "accepted"]
              /\ token[t].signer \in ToSet(held)
              /\ answered' = answered \ {t} /\ answer' = [answer EXCEPT ![t] = <<>>]
              /\ UNCHANGED sent
           \/ /\ stage' = [stage EXCEPT ![t] = "refused"]
              /\ token[t].kid => forced /\ token[t].signer \notin ToSet(held)
              /\ answered' = answered \ {t} /\ answer' = [answer EXCEPT ![t] = <<>>]
              /\ UNCHANGED sent
<1>1. CASE token[t].kid /\ token[t].signer \in ToSet(held)
  BY <1>1 DEF LookUp, Judge
<1>2. CASE ~(token[t].kid /\ token[t].signer \in ToSet(held)) /\ token[t].kid /\ ~forced
  BY <1>2 DEF LookUp
<1>3. CASE ~(token[t].kid /\ token[t].signer \in ToSet(held)) /\ ~(token[t].kid /\ ~forced)
  <2>1. Fallback(t, held)
    BY <1>3 DEF LookUp
  <2>2. CASE held = <<>>
    BY <1>3, <2>1, <2>2 DEF Fallback, TurnAway
  <2>3. CASE held # <<>>
    <3>1. Head(held) = held[1] /\ 1 \in DOMAIN held
      BY <2>3
    <3>2. Head(held) \in ToSet(held)
      BY <3>1 DEF ToSet
    <3>3. QED
      BY <1>3, <2>1, <2>3, <3>2 DEF Fallback, Judge
  <2>4. QED
    BY <2>2, <2>3
<1>4. QED
  BY <1>1, <1>2, <1>3

LEMMA LookUpTypes ==
    ASSUME KeyTypeOK, NEW t \in Tokens, NEW held \in Seq(Keys), NEW forced,
           LookUp(t, held, forced)
    PROVE  /\ stage' \in [Tokens -> {"new", "accepted", "refused"} \cup Refreshing]
           /\ sent' \in [Tokens -> 0 .. MaxNow]
           /\ answer' \in [Tokens -> Seq(Keys)]
           /\ answered' \subseteq Tokens
<1> USE DEF KeyTypeOK, Refreshing
<1>1. CASE Await(t, "force")
  BY <1>1 DEF Await
<1>2. ASSUME NEW label \in {"accepted", "refused"}, stage' = [stage EXCEPT ![t] = label],
             answered' = answered \ {t}, answer' = [answer EXCEPT ![t] = <<>>],
             UNCHANGED sent
      PROVE  /\ stage' \in [Tokens -> {"new", "accepted", "refused"} \cup Refreshing]
             /\ sent' \in [Tokens -> 0 .. MaxNow]
             /\ answer' \in [Tokens -> Seq(Keys)]
             /\ answered' \subseteq Tokens
  BY <1>2
<1>3. QED
  BY <1>1, <1>2, LookedUp

LEMMA KeyTypeStep == ASSUME KeyTypeOK, [KeyNext]_keyVars PROVE KeyTypeOK'
<1> USE KeyConstants DEF KeyTypeOK
<1>1. ASSUME NEW t \in Tokens, Arrive(t) PROVE KeyTypeOK'
  <2>1. CASE Await(t, "refresh")
    BY <1>1, <2>1 DEF Arrive, Await, Refreshing, provider
  <2>2. CASE LookUp(t, cache, FALSE)
    BY <1>1, <2>2, LookUpTypes DEF Arrive, provider
  <2>3. QED
    BY <1>1, <2>1, <2>2 DEF Arrive
<1>2. ASSUME NEW t \in Tokens, Answer(t) PROVE KeyTypeOK'
  BY <1>2 DEF Answer, provider
<1>3. ASSUME NEW t \in Tokens, Refreshed(t) PROVE KeyTypeOK'
  <2>1. cache' \in Seq(Keys) /\ LookUp(t, answer[t], stage[t] = "force")
    BY <1>3 DEF Refreshed
  <2>2. QED
    BY <1>3, <2>1, LookUpTypes DEF Refreshed, provider
<1>4. ASSUME NEW t \in Tokens, RefreshFails(t) PROVE KeyTypeOK'
  BY <1>4, LookUpTypes DEF RefreshFails, provider
<1>5. CASE Tick
  BY <1>5 DEF Tick
<1>6. CASE Rotate
  <2>1. published' \in Seq(Keys)
    <3>1. ASSUME NEW k \in Keys, published' = Append(published, k)
          PROVE  published' \in Seq(Keys)
      BY <3>1
    <3>2. ASSUME NEW i \in DOMAIN published, published' = RemoveAt(published, i)
          PROVE  published' \in Seq(Keys)
      BY <3>2, RemovedIsSeq
    <3>3. QED
      BY <1>6, <3>1, <3>2 DEF Rotate
  <2>2. QED
    BY <1>6, <2>1 DEF Rotate
<1>7. CASE Restart
  BY <1>7 DEF Restart, provider, Refreshing
<1>8. CASE UNCHANGED keyVars
  BY <1>8 DEF keyVars
<1>9. QED
  BY <1>1, <1>2, <1>3, <1>4, <1>5, <1>6, <1>7, <1>8 DEF KeyNext

LEMMA KeyStep == ASSUME KeyInv, [KeyNext]_keyVars PROVE KeyInv'
<1> USE KeyConstants DEF KeyInv
<1>1. KeyTypeOK'
  BY KeyTypeStep
<1>2. KeyTypeOK
  OBVIOUS
\* A step of the call t, which looks up its key in the keys held.
<1>3. ASSUME NEW t \in Tokens, NEW held \in Seq(Keys), NEW forced,
             stage[t] = "new" \/ stage[t] \in Refreshing,
             LookUp(t, held, forced) \/ Await(t, "refresh"),
             UNCHANGED <<now, lastSeen, published, token>>,
             failed \subseteq failed',
             \A u \in Tokens \ {t} : u \in steady' => u \in steady,
             t \in steady' /\ t \notin failed' =>
                 /\ token[t].signer \in ToSet(published)
                 /\ forced => token[t].signer \in ToSet(held),
             t \in steady' => token[t].signer \in ToSet(published),
             CacheOK'
      PROVE  KeyInv'
  <2>1. /\ sent'[t] = now \/ stage'[t] \notin Refreshing
        /\ answer'[t] = <<>> /\ t \notin answered' /\ stage'[t] # "new"
        /\ stage'[t] = "refused" /\ t \in steady' \ failed' => ~token[t].kid
    BY <1>2, <1>3, LookedUp DEF Await, KeyTypeOK, Refreshing
  <2>2. \A u \in Tokens \ {t} :
            /\ stage'[u] = stage[u] /\ sent'[u] = sent[u] /\ answer'[u] = answer[u]
            /\ u \in answered' => u \in answered
    BY <1>2, <1>3, LookedUp DEF Await, KeyTypeOK
  <2>3. SeenOK'
    BY <1>3 DEF SeenOK
  <2>4. PublishedKeyAccepted'
    <3>1. steady' \subseteq Tokens /\ token' = token /\ failed \subseteq failed'
      BY <1>1, <1>3 DEF KeyTypeOK
    <3>2. ASSUME NEW u \in steady' \ failed', stage'[u] = "refused", u # t
          PROVE  ~token[u].kid
      BY <1>3, <2>2, <3>1, <3>2 DEF PublishedKeyAccepted
    <3>3. QED
      BY <2>1, <3>1, <3>2 DEF PublishedKeyAccepted
  <2>5. \A u \in Tokens : RequestOK(u)'
    <3>1. ToSet(<<>>) = {} /\ now \in Nat
      BY <1>2 DEF ToSet, KeyTypeOK
    <3>2. RequestOK(t)'
      BY <1>3, <2>1, <3>1 DEF RequestOK
    <3>3. QED
      BY <1>3, <2>2, <3>2 DEF RequestOK
  <2>6. \A u \in Tokens : SteadyOK(u)'
    BY <1>3, <2>1, <2>2 DEF SteadyOK
  <2>7. QED
    BY <1>1, <1>3, <2>3, <2>4, <2>5, <2>6
<1>4. ASSUME NEW t \in Tokens, Arrive(t) PROVE KeyInv'
  <2>1. /\ stage[t] = "new" /\ cache \in Seq(Keys)
        /\ LookUp(t, cache, FALSE) \/ Await(t, "refresh")
        /\ UNCHANGED <<now, lastSeen, published, token, cache, lastFetch, failed>>
        /\ steady' = IF token[t].signer \in ToSet(published)
                     THEN steady \cup {t} ELSE steady
    BY <1>2, <1>4 DEF Arrive, provider, KeyTypeOK
  <2>2. CacheOK'
    BY <2>1 DEF CacheOK
  <2>3. t \notin steady
    BY <2>1 DEF SteadyOK
  <2>4. QED
    BY <1>3, <2>1, <2>2, <2>3
<1>5. ASSUME NEW t \in Tokens, Refreshed(t) PROVE KeyInv'
  <2>1. /\ stage[t] \in Refreshing /\ t \in answered
        /\ cache' = answer[t] /\ lastFetch' = now
        /\ LookUp(t, answer[t], stage[t] = "force") /\ answer[t] \in Seq(Keys)
        /\ UNCHANGED <<now, lastSeen, published, token, failed, steady>>
    BY <1>2, <1>5 DEF Refreshed, provider, KeyTypeOK
  <2>2. CacheOK'
    BY <1>2, <2>1 DEF CacheOK, RequestOK, KeyTypeOK
  <2>3. QED
    BY <1>3, <2>1, <2>2 DEF SteadyOK
<1>6. ASSUME NEW t \in Tokens, RefreshFails(t) PROVE KeyInv'
  <2>1. /\ stage[t] \in Refreshing /\ failed' = failed \cup {t}
        /\ LookUp(t, cache, stage[t] = "force") /\ cache \in Seq(Keys)
        /\ UNCHANGED <<now, lastSeen, published, token, steady, cache, lastFetch>>
    BY <1>2, <1>6 DEF RefreshFails, provider, KeyTypeOK
  <2>2. CacheOK'
    BY <2>1 DEF CacheOK
  <2>3. QED
    BY <1>3, <2>1, <2>2 DEF SteadyOK
<1>7. ASSUME NEW t \in Tokens, Answer(t) PROVE KeyInv'
  <2>1. /\ stage[t] \in Refreshing /\ answered' = answered \cup {t}
        /\ answer' = [answer EXCEPT ![t] = published]
        /\ UNCHANGED <<published, lastSeen, now, stage, token, sent, cache, lastFetch,
                       failed, steady>>
    BY <1>7 DEF Answer, provider
  <2>2. SeenOK' /\ CacheOK' /\ PublishedKeyAccepted'
    BY <2>1 DEF SeenOK, CacheOK, PublishedKeyAccepted
  <2>3. \A u \in Tokens : RequestOK(u)' /\ SteadyOK(u)'
    <3>1. TAKE u \in Tokens
    <3>2. CASE u = t
      BY <1>2, <2>1, <3>2 DEF RequestOK, SteadyOK, SeenOK, KeyTypeOK
    <3>3. CASE u # t
      BY <1>2, <2>1, <3>3 DEF RequestOK, SteadyOK, KeyTypeOK
    <3>4. QED
      BY <3>2, <3>3
  <2>4. QED
    BY <1>1, <2>2, <2>3
<1>8. CASE Tick
  <2>1. /\ now' = now + 1
        /\ \A t \in Tokens : stage[t] \in Refreshing => now < sent[t] + Timeout
        /\ lastSeen' = [k \in Keys |-> IF k \in ToSet(published) THEN now'
                                       ELSE lastSeen[k]]
        /\ UNCHANGED <<published, cache, lastFetch, stage, token, sent, answer, answered,
                       failed, steady>>
    BY <1>8 DEF Tick
  <2>2. \A k \in Keys : lastSeen[k] <= lastSeen'[k] /\ lastSeen'[k] \in Nat
    BY <1>2, <2>1 DEF SeenOK, KeyTypeOK
  <2>3. SeenOK' /\ CacheOK'
    BY <1>2, <2>1, <2>2 DEF SeenOK, CacheOK, KeyTypeOK
  <2>4. PublishedKeyAccepted' /\ \A t \in Tokens : SteadyOK(t)'
    BY <2>1 DEF PublishedKeyAccepted, SteadyOK
  <2>5. \A t \in Tokens : RequestOK(t)'
    BY <1>2, <2>1, <2>2 DEF RequestOK, KeyTypeOK
  <2>6. QED
    BY <1>1, <2>3, <2>4, <2>5
<1>9. CASE Rotate
  <2>1. /\ lastSeen' = [k \in Keys |-> IF k \in ToSet(published') THEN now
                                       ELSE lastSeen[k]]
        /\ steady' = {t \in steady : \/ stage[t] \notin Refreshing
                                     \/ token[t].signer \in ToSet(published')}
        /\ UNCHANGED <<now, cache, lastFetch, stage, token, sent, answer, answered, failed>>
    BY <1>9 DEF Rotate
  <2>2. \A k \in Keys : lastSeen[k] <= lastSeen'[k] /\ lastSeen'[k] \in Nat
    BY <1>2, <2>1 DEF SeenOK, KeyTypeOK
  <2>3. SeenOK' /\ CacheOK'
    BY <1>2, <2>1, <2>2 DEF SeenOK, CacheOK, KeyTypeOK
  <2>4. PublishedKeyAccepted' /\ \A t \in Tokens : SteadyOK(t)'
    BY <2>1 DEF PublishedKeyAccepted, SteadyOK
  <2>5. \A t \in Tokens : RequestOK(t)'
    BY <1>2, <2>1, <2>2 DEF RequestOK, KeyTypeOK
  <2>6. QED
    BY <1>1, <2>3, <2>4, <2>5
<1>10. CASE Restart
  <2>1. /\ cache' = <<>> /\ lastFetch' = 0 /\ answered' = {}
        /\ stage' = [t \in Tokens |-> IF stage[t] \in Refreshing THEN "refused"
                                                                ELSE stage[t]]
        /\ failed' = failed \cup {t \in Tokens : stage[t] \in Refreshing}
        /\ UNCHANGED <<published, lastSeen, now, token, sent, steady>>
    BY <1>10 DEF Restart, provider
  <2>2. SeenOK' /\ CacheOK' /\ PublishedKeyAccepted'
    BY <2>1 DEF SeenOK, CacheOK, PublishedKeyAccepted, ToSet, KeyTypeOK
  <2>3. \A t \in Tokens : /\ stage'[t] \notin Refreshing
                          /\ stage'[t] = "new" => stage[t] = "new"
    BY <2>1 DEF Refreshing
  <2>4. \A t \in Tokens : RequestOK(t)' /\ SteadyOK(t)'
    BY <2>1, <2>3 DEF RequestOK, SteadyOK
  <2>5. QED
    BY <1>1, <2>2, <2>4
<1>11. CASE UNCHANGED keyVars
  BY <1>11 DEF keyVars, KeyTypeOK, SeenOK, CacheOK, PublishedKeyAccepted, RequestOK,
     SteadyOK
<1>12. QED
  BY <1>4, <1>5, <1>6, <1>7, <1>8, <1>9, <1>10, <1>11 DEF KeyNext

LEMMA KeyInvariant == KeySpec => []KeyInv
<1>1. KeyInit => KeyInv
  <2> SUFFICES ASSUME KeyInit PROVE KeyInv
    OBVIOUS
  <2> USE KeyConstants DEF KeyInit
  <2>1. KeyTypeOK
    BY DEF KeyTypeOK
  <2>2. QED
    BY <2>1 DEF KeyInv, SeenOK, CacheOK, PublishedKeyAccepted, RequestOK, SteadyOK,
       Refreshing, ToSet
<1>2. QED
  BY <1>1, KeyStep, PTL DEF KeySpec

\* A token that names a key which is published all the time of its call is
\* accepted, whichever older answers fill the cache meanwhile, unless a refresh
\* of this call failed (PublishedKeyAccepted).
THEOREM SteadyAccepted == KeySpec => []PublishedKeyAccepted
<1>1. KeyInv => PublishedKeyAccepted
  BY DEF KeyInv
<1>2. QED
  BY <1>1, KeyInvariant, PTL

\* A token of a key that was withdrawn longer than Ttl + Timeout ago is refused,
\* though an answer that was overtaken brings withdrawn keys back, unless a
\* refresh of this call failed (WithdrawnKeyRefused).
THEOREM WithdrawnRefused == KeySpec => WithdrawnKeyRefused
<1> DEFINE Late ==
      \A t \in Tokens :
          stage[t] # "accepted" /\ stage'[t] = "accepted" /\ t \notin failed'
              => now <= lastSeen[token[t].signer] + Ttl + Timeout
<1>1. ASSUME KeyInv, [KeyNext]_keyVars PROVE [Late]_keyVars
  <2> USE KeyConstants
  <2>1. SUFFICES ASSUME NEW t \in Tokens, stage[t] # "accepted", stage'[t] = "accepted",
                        t \notin failed'
                 PROVE  now <= lastSeen[token[t].signer] + Ttl + Timeout
    OBVIOUS
  <2>2. KeyTypeOK /\ CacheOK /\ RequestOK(t) /\ token[t].signer \in Keys
    BY <1>1 DEF KeyInv, KeyTypeOK
  <2>3. lastSeen[token[t].signer] \in Nat /\ now \in Nat /\ lastFetch \in Nat
        /\ sent[t] \in Nat
    BY <2>2 DEF KeyTypeOK
  <2>4. ASSUME NEW u \in Tokens, Arrive(u)
        PROVE  now <= lastSeen[token[t].signer] + Ttl + Timeout
    <3>1. u = t
      BY <2>1, <2>2, <2>4, LookedUp DEF Arrive, Await, KeyTypeOK
    <3>2. ~Outdated /\ LookUp(t, cache, FALSE)
      BY <2>1, <2>2, <2>4, <3>1 DEF Arrive, Await, KeyTypeOK
    <3>3. token[t].signer \in ToSet(cache)
      BY <2>1, <2>2, <3>2, LookedUp DEF Await, KeyTypeOK
    <3>4. QED
      BY <2>2, <2>3, <3>2, <3>3 DEF Outdated, CacheOK
  <2>5. ASSUME NEW u \in Tokens, Refreshed(u)
        PROVE  now <= lastSeen[token[t].signer] + Ttl + Timeout
    <3>1. answer[u] \in Seq(Keys) /\ LookUp(u, answer[u], stage[u] = "force")
      BY <2>2, <2>5 DEF Refreshed, KeyTypeOK
    <3>2. u = t
      BY <2>1, <2>2, <2>5, <3>1, LookedUp DEF Await, KeyTypeOK
    <3>3. token[t].signer \in ToSet(answer[t])
      BY <2>1, <2>2, <3>1, <3>2, LookedUp DEF Await, KeyTypeOK
    <3>4. QED
      BY <2>2, <2>3, <2>5, <3>2, <3>3 DEF Refreshed, RequestOK
  <2>6. ASSUME NEW u \in Tokens, RefreshFails(u) PROVE FALSE
    <3>1. cache \in Seq(Keys) /\ LookUp(u, cache, stage[u] = "force")
      BY <2>2, <2>6 DEF RefreshFails, KeyTypeOK
    <3>2. u = t
      BY <2>1, <2>2, <3>1, LookedUp DEF Await, KeyTypeOK
    <3>3. QED
      BY <2>1, <2>6, <3>2 DEF RefreshFails
  <2>7. ~Restart
    BY <2>1, <2>2 DEF Restart, KeyTypeOK
  <2>8. QED
    BY <1>1, <2>1, <2>4, <2>5, <2>6, <2>7 DEF KeyNext, Answer, Tick, Rotate, keyVars
<1>2. QED
  BY <1>1, KeyInvariant, PTL DEF KeySpec, WithdrawnKeyRefused
=============================================================================
