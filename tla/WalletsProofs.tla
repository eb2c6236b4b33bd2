---------------------------- MODULE WalletsProofs ----------------------------
(***************************************************************************)
(* At most one wallet is primary unless two calls that store a primary     *)
(* wallet met, and what a look-up finds, for any number of wallets, calls  *)
(* and look-ups beside one another.                                        *)
(***************************************************************************)
EXTENDS Wallets, TLAPS

\* What a call that is to store a new wallet has been given.
ArgOK ==
    \A c \in Calls :
        /\ pc[c] = "insert" => arg[c].id = NoWallet
        /\ pc[c] \in {"unset", "insert"} /\ arg[c].id = NoWallet
              => arg[c].status # "keep"

LEMMA LiteralTypes ==
    /\ NoRow \in Row
    /\ NoChange \in Change
    /\ \A p \in {"yes", "no"}, s \in Statuses,
          m \in Merchants \cup {Nobody}, l \in Locations \cup {Nobody} :
             NewWallet(p, s, m, l) \in Change
    /\ \A w \in Ids, p \in {"yes", "no", "keep"}, s \in Statuses \cup {"keep"} :
             ChangeOf(w, p, s) \in Change
  BY DEF NoRow, Row, NoChange, Change, NewWallet, ChangeOf, Statuses

LEMMA InitTypes == Init => TypeOK /\ ArgOK
<1>1. Init => raced \in BOOLEAN
  BY DEF Init
<1>2. Init => ArgOK
  BY DEF Init, ArgOK
<1>3. Init => wallet \in [Ids -> Row] /\ arg \in [Calls -> Change]
  BY LiteralTypes DEF Init
<1>4. Init => /\ pc \in [Calls -> {"new", "done", "error"} \cup Working]
              /\ lpc \in [Lookups -> {"new", "found", "legacy", "refused"} \cup Asking]
              /\ answer \in [Lookups -> Ids \cup {NoWallet}]
              /\ active \in [Lookups -> SUBSET Ids]
              /\ steady \in [Lookups -> SUBSET Ids]
              /\ dbErrors \in 0..MaxDbErrors
  BY WalletConstants DEF Init
<1> QED BY <1>1, <1>2, <1>3, <1>4 DEF TypeOK

\* What a call stores is a wallet.
LEMMA StoredTypes ==
    ASSUME NEW a \in Change
    PROVE  /\ a.status # "keep" =>
                [status |-> a.status, primary |-> a.primary = "yes",
                 merchant |-> a.merchant, location |-> a.location] \in Row
           /\ \A r \in Row : Changed(r, a) \in Row
<1>1. a.status # "keep" =>
        [status |-> a.status, primary |-> a.primary = "yes",
         merchant |-> a.merchant, location |-> a.location] \in Row
  BY DEF Change, Row, Statuses
<1>2. ASSUME NEW r \in Row PROVE Changed(r, a) \in Row
  BY DEF Change, Row, Changed, Statuses
<1> QED BY <1>1, <1>2

LEMMA SetWalletsType ==
    ASSUME NEW f \in [Ids -> Row], SetWallets(f), TypeOK
    PROVE  /\ wallet' \in [Ids -> Row]
           /\ active' \in [Lookups -> SUBSET Ids]
           /\ steady' \in [Lookups -> SUBSET Ids]
  BY DEF SetWallets, TypeOK

LEMMA AskType ==
    ASSUME TypeOK, NEW r \in Lookups, NEW l, NEW next \in {"org", "any", "static"},
           NEW S, NEW Best \in SUBSET Ids, Ask(r, l, S, Best, next)
    PROVE  TypeOK'
<1>1. lpc' \in [Lookups -> {"new", "found", "legacy", "refused"} \cup Asking]
  BY DEF Ask, TypeOK, Asking
<1>2. answer' \in [Lookups -> Ids \cup {NoWallet}]
  BY DEF Ask, TypeOK
<1> QED BY <1>1, <1>2 DEF Ask, TypeOK, history

LEMMA BeginKeeps ==
    ASSUME TypeOK, ArgOK, NEW c \in Calls, NEW a \in Change, NEW l \in Working,
           l = "insert" => a.id = NoWallet,
           l \in {"unset", "insert"} /\ a.id = NoWallet => a.status # "keep",
           Begin(c, a, l)
    PROVE  TypeOK' /\ ArgOK'
  BY DEF Begin, TypeOK, ArgOK, lookupVars, history

\* Types, and the arguments of calls, are kept by every step.
LEMMA TypeStep == ASSUME TypeOK, ArgOK, [Next]_vars PROVE TypeOK' /\ ArgOK'
<1>1. ASSUME NEW c \in Calls, Create(c) PROVE TypeOK' /\ ArgOK'
  <2>1. PICK p \in {"yes", "no"}, s \in Statuses,
             m \in Merchants \cup {Nobody}, l \in Locations \cup {Nobody} :
             Begin(c, NewWallet(p, s, m, l), IF p = "yes" THEN "unset" ELSE "insert")
    BY <1>1 DEF Create
  <2>2. NewWallet(p, s, m, l) \in Change
    BY LiteralTypes
  <2>3. NewWallet(p, s, m, l).id = NoWallet /\ NewWallet(p, s, m, l).status # "keep"
    BY DEF NewWallet, Statuses
  <2> QED BY <2>1, <2>2, <2>3, BeginKeeps DEF Working
<1>2. ASSUME NEW c \in Calls, Update(c) PROVE TypeOK' /\ ArgOK'
  <2>1. PICK w \in Stored, p \in {"yes", "no", "keep"}, s \in Statuses \cup {"keep"} :
             Begin(c, ChangeOf(w, p, s), IF UnsetsOthers(w, p) THEN "unset" ELSE "save")
    BY <1>2 DEF Update
  <2>2. ChangeOf(w, p, s) \in Change /\ ChangeOf(w, p, s).id # NoWallet
    BY LiteralTypes, WalletConstants DEF Stored, ChangeOf
  <2> QED BY <2>1, <2>2, BeginKeeps DEF Working
<1>3. ASSUME NEW c \in Calls, Delete(c) PROVE TypeOK' /\ ArgOK'
  <2>1. PICK w \in Stored : Begin(c, ChangeOf(w, "no", "archived"), "save")
    BY <1>3 DEF Delete
  <2>2. ChangeOf(w, "no", "archived") \in Change
    BY LiteralTypes DEF Stored, Statuses
  <2> QED BY <2>1, <2>2, BeginKeeps DEF Working
<1>4. ASSUME NEW c \in Calls, UnsetPrimary(c) PROVE TypeOK' /\ ArgOK'
  <2>1. [w \in Ids |-> [wallet[w] EXCEPT !.primary = FALSE]] \in [Ids -> Row]
    <3>1. ASSUME NEW r \in Row PROVE [r EXCEPT !.primary = FALSE] \in Row
      BY DEF Row
    <3> QED BY <3>1 DEF TypeOK
  <2>2. /\ wallet' \in [Ids -> Row]
        /\ active' \in [Lookups -> SUBSET Ids]
        /\ steady' \in [Lookups -> SUBSET Ids]
    BY <1>4, <2>1, SetWalletsType DEF UnsetPrimary
  <2>3. TypeOK'
    BY <1>4, <2>2 DEF UnsetPrimary, TypeOK, Working, lookupVars
  <2>4. ArgOK'
    BY <1>4 DEF UnsetPrimary, TypeOK, ArgOK
  <2> QED BY <2>3, <2>4
<1>5. ASSUME NEW c \in Calls, Insert(c) PROVE TypeOK' /\ ArgOK'
  <2> DEFINE new == [status |-> arg[c].status, primary |-> arg[c].primary = "yes",
                     merchant |-> arg[c].merchant, location |-> arg[c].location]
  <2>1. new \in Row
    BY <1>5, StoredTypes DEF Insert, TypeOK, ArgOK
  <2>2. PICK w \in Ids : SetWallets([wallet EXCEPT ![w] = new])
    BY <1>5 DEF Insert
  <2>3. [wallet EXCEPT ![w] = new] \in [Ids -> Row]
    BY <2>1 DEF TypeOK
  <2> HIDE DEF new
  <2> QED BY <1>5, <2>2, <2>3, SetWalletsType DEF Insert, TypeOK, ArgOK, lookupVars
<1>6. ASSUME NEW c \in Calls, Save(c) PROVE TypeOK' /\ ArgOK'
  <2>1. [wallet EXCEPT ![arg[c].id] = Changed(@, arg[c])] \in [Ids -> Row]
    BY StoredTypes DEF TypeOK
  <2> QED BY <1>6, <2>1, SetWalletsType DEF Save, TypeOK, ArgOK, lookupVars
<1>7. ASSUME NEW c \in Calls, CallFails(c) PROVE TypeOK' /\ ArgOK'
  BY <1>7, WalletConstants DEF CallFails, TypeOK, ArgOK, lookupVars, history
<1>8. ASSUME NEW r \in Lookups, BeginLookup(r) PROVE TypeOK' /\ ArgOK'
  BY <1>8 DEF BeginLookup, TypeOK, ArgOK, Asking
<1>9. ASSUME NEW r \in Lookups, AskMerchant(r) \/ AskOrganization(r) \/ AskAny(r)
      PROVE  TypeOK' /\ ArgOK'
  <2>1. CASE AskMerchant(r)
    BY <2>1, AskType DEF AskMerchant, Ask, ArgOK
  <2>2. CASE AskOrganization(r)
    BY <2>2, AskType DEF AskOrganization, Ask, ArgOK
  <2>3. CASE AskAny(r)
    BY <2>3, AskType DEF AskAny, Ask, ArgOK, Newest
  <2> QED BY <1>9, <2>1, <2>2, <2>3
<1>10. ASSUME NEW r \in Lookups, AskStatic(r) PROVE TypeOK' /\ ArgOK'
  BY <1>10 DEF AskStatic, TypeOK, ArgOK, history
<1>11. ASSUME NEW r \in Lookups, LookupFails(r) PROVE TypeOK' /\ ArgOK'
  <2>1. lpc' \in [Lookups -> {"new", "found", "legacy", "refused"} \cup Asking]
    BY <1>11 DEF LookupFails, TypeOK, Asking
  <2>2. dbErrors' \in 0..MaxDbErrors
    BY <1>11, WalletConstants DEF LookupFails, TypeOK
  <2>3. UNCHANGED <<wallet, pc, arg, answer, active, steady, raced>>
    BY <1>11 DEF LookupFails, history
  <2>4. TypeOK'
    BY <2>1, <2>2, <2>3 DEF TypeOK
  <2> QED BY <2>3, <2>4 DEF ArgOK
<1>12. CASE UNCHANGED vars
  BY <1>12 DEF vars, TypeOK, ArgOK, lookupVars, history
<1> QED
  BY <1>1, <1>2, <1>3, <1>4, <1>5, <1>6, <1>7, <1>8, <1>9, <1>10, <1>11, <1>12
  DEF Next, Manage, LookUp

\* Every reachable state of the wallets and look-ups is well typed.
THEOREM WalletTypes == Spec => []TypeOK
<1>1. Init => TypeOK /\ ArgOK
  BY InitTypes
<1>2. TypeOK /\ ArgOK /\ [Next]_vars => TypeOK' /\ ArgOK'
  BY TypeStep
<1> QED BY <1>1, <1>2, PTL DEF Spec

-----------------------------------------------------------------------------
(* One primary wallet.                                                     *)

\* A call that is about to store a primary wallet has no other to compete with.
ClaimOK ==
    \A c \in Calls : Promotes(c) => \A w \in Ids : wallet[w].primary => w = arg[c].id

\* The inductive invariant of the wallets.
WalletInv == TypeOK /\ ArgOK /\ (raced \/ ClaimOK) /\ OnePrimary

\* A call that begins does not change a wallet.
LEMMA BeginClaims ==
    ASSUME WalletInv, NEW c \in Calls, NEW a, NEW l, Begin(c, a, l),
           ~raced /\ l \in {"insert", "save"} /\ a.primary = "yes"
              => \A w \in Ids : wallet[w].primary => w = a.id
    PROVE  (raced \/ ClaimOK)' /\ OnePrimary'
<1>1. /\ pc'[c] = l /\ arg'[c] = a /\ wallet' = wallet /\ raced' = raced
      /\ \A d \in Calls \ {c} : pc'[d] = pc[d] /\ arg'[d] = arg[d]
  BY DEF Begin, WalletInv, TypeOK
<1> QED BY <1>1 DEF WalletInv, ClaimOK, Promotes, OnePrimary

\* A step that leaves wallets, calls and arguments alone.
LEMMA OthersKeep ==
    ASSUME WalletInv, UNCHANGED <<wallet, pc, arg, raced>>
    PROVE  (raced \/ ClaimOK)' /\ OnePrimary'
  BY DEF WalletInv, ClaimOK, Promotes, OnePrimary

LEMMA WalletStep == ASSUME WalletInv, [Next]_vars PROVE WalletInv'
<1> USE DEF WalletInv
<1>1. TypeOK' /\ ArgOK'
  BY TypeStep
<1>2. ASSUME NEW c \in Calls, Create(c) PROVE (raced \/ ClaimOK)' /\ OnePrimary'
  <2>1. PICK p \in {"yes", "no"}, s \in Statuses,
             m \in Merchants \cup {Nobody}, l \in Locations \cup {Nobody} :
             Begin(c, NewWallet(p, s, m, l), IF p = "yes" THEN "unset" ELSE "insert")
    BY <1>2 DEF Create
  <2>2. NewWallet(p, s, m, l).primary = p
    BY DEF NewWallet
  <2> QED BY <2>1, <2>2, BeginClaims
<1>3. ASSUME NEW c \in Calls, Update(c) PROVE (raced \/ ClaimOK)' /\ OnePrimary'
  <2>1. PICK w \in Stored, p \in {"yes", "no", "keep"}, s \in Statuses \cup {"keep"} :
             Begin(c, ChangeOf(w, p, s), IF UnsetsOthers(w, p) THEN "unset" ELSE "save")
    BY <1>3 DEF Update
  <2>2. ChangeOf(w, p, s).primary = p /\ ChangeOf(w, p, s).id = w
    BY DEF ChangeOf
  <2>3. ~raced /\ p = "yes" /\ ~UnsetsOthers(w, p) => \A v \in Ids : wallet[v].primary => v = w
    BY DEF UnsetsOthers, OnePrimary, Stored, TypeOK, Row
  <2> QED BY <2>1, <2>2, <2>3, BeginClaims
<1>4. ASSUME NEW c \in Calls, Delete(c) PROVE (raced \/ ClaimOK)' /\ OnePrimary'
  <2>1. PICK w \in Stored : Begin(c, ChangeOf(w, "no", "archived"), "save")
    BY <1>4 DEF Delete
  <2>2. ChangeOf(w, "no", "archived").primary = "no"
    BY DEF ChangeOf
  <2> QED BY <2>1, <2>2, BeginClaims
<1>5. ASSUME NEW c \in Calls, UnsetPrimary(c)
      PROVE  (raced \/ ClaimOK)' /\ OnePrimary'
  <2>1. \A w \in Ids : ~wallet'[w].primary
    BY <1>5 DEF UnsetPrimary, SetWallets, TypeOK, Row
  <2> QED BY <2>1 DEF ClaimOK, OnePrimary
<1>6. ASSUME NEW c \in Calls, Insert(c) \/ Save(c)
      PROVE  (raced \/ ClaimOK)' /\ OnePrimary'
  <2>1. /\ pc[c] \in {"insert", "save"} /\ pc' = [pc EXCEPT ![c] = "done"] /\ arg' = arg
        /\ raced' = (raced \/ Races(c))
    BY <1>6 DEF Insert, Save
  <2>2. SUFFICES ASSUME ~raced, ~Races(c) PROVE ClaimOK' /\ OnePrimary'
    BY <2>1 DEF TypeOK, OnePrimary
  <2>3. ClaimOK
    BY <2>2
  <2>4. PICK w \in Ids \cup {NoWallet} :
          /\ \A v \in Ids : v # w => wallet'[v] = wallet[v]
          /\ wallet[w].primary \/ arg[c].primary = "yes" \/ w \notin Ids \/ ~wallet'[w].primary
          /\ arg[c].primary = "yes" => \A v \in Ids : wallet[v].primary => v = w
    <3>1. CASE Insert(c)
      <4>1. PICK w \in Ids : wallet' = [wallet EXCEPT ![w] =
              [status |-> arg[c].status, primary |-> arg[c].primary = "yes",
               merchant |-> arg[c].merchant, location |-> arg[c].location]]
        BY <3>1 DEF Insert, SetWallets
      <4>2. arg[c].primary = "yes" => \A v \in Ids : ~wallet[v].primary
        BY <2>3, <3>1, WalletConstants DEF Insert, ClaimOK, ArgOK, Promotes
      <4> QED BY <4>1, <4>2 DEF TypeOK
    <3>2. CASE Save(c)
      <4>1. wallet' = [wallet EXCEPT ![arg[c].id] = Changed(@, arg[c])]
        BY <3>2 DEF Save, SetWallets
      <4>2. arg[c].primary = "yes" => \A v \in Ids : wallet[v].primary => v = arg[c].id
        BY <2>1, <2>3 DEF ClaimOK, Promotes
      <4>3. arg[c].id \in Ids \cup {NoWallet}
        BY DEF TypeOK, Change
      <4> QED BY <4>1, <4>2, <4>3 DEF TypeOK, Changed, Row, Change
    <3> QED BY <1>6, <3>1, <3>2
  <2>5. OnePrimary'
    BY <2>2, <2>4 DEF OnePrimary
  <2>6. \A d \in Calls : Promotes(d)' => d # c /\ Promotes(d)
    BY <2>1 DEF Promotes, TypeOK
  <2>7. CASE arg[c].primary = "yes"
    <3>1. \A d \in Calls \ {c} : ~Promotes(d)
      BY <2>1, <2>2, <2>7 DEF Races, Promotes
    <3> QED BY <2>5, <2>6, <3>1 DEF ClaimOK
  <2>8. CASE arg[c].primary # "yes"
    <3>1. \A v \in Ids : wallet'[v].primary => wallet[v].primary
      BY <2>4, <2>8
    <3> QED BY <2>1, <2>3, <2>5, <2>6, <3>1 DEF ClaimOK
  <2> QED BY <2>7, <2>8
<1>7. ASSUME NEW c \in Calls, CallFails(c)
      PROVE  (raced \/ ClaimOK)' /\ OnePrimary'
  <2>1. UNCHANGED <<wallet, arg, raced>> /\ pc' = [pc EXCEPT ![c] = "error"]
    BY <1>7 DEF CallFails
  <2>2. \A d \in Calls : Promotes(d)' => Promotes(d)
    BY <2>1 DEF TypeOK, Promotes
  <2> QED BY <2>1, <2>2 DEF ClaimOK, OnePrimary
<1>8. ASSUME NEW r \in Lookups, LookUp(r) PROVE (raced \/ ClaimOK)' /\ OnePrimary'
  <2>1. UNCHANGED <<wallet, pc, arg, raced>>
    BY <1>8 DEF LookUp, BeginLookup, AskMerchant, AskOrganization, AskAny, Ask,
                AskStatic, LookupFails
  <2> QED BY <2>1, OthersKeep
<1>9. CASE UNCHANGED vars
  <2>1. UNCHANGED <<wallet, pc, arg, raced>>
    BY <1>9 DEF vars
  <2> QED BY <1>1, <2>1, OthersKeep
<1> QED
  BY <1>1, <1>2, <1>3, <1>4, <1>5, <1>6, <1>7, <1>8, <1>9 DEF Next, Manage

\* At most one wallet is primary, whatever calls overlap or fail in the middle,
\* unless, since the flags were last unset, a call stored a primary wallet when
\* another had one to store.
THEOREM TwoPrimaryOnlyInRace == Spec => []OnePrimary
<1>1. Init => WalletInv
  <2>1. Init => TypeOK /\ ArgOK
    BY InitTypes
  <2>2. Init => ClaimOK /\ OnePrimary
    BY DEF Init, ClaimOK, Promotes, OnePrimary, NoRow
  <2> QED BY <2>1, <2>2 DEF WalletInv
<1>2. WalletInv /\ [Next]_vars => WalletInv'
  BY WalletStep
<1>3. WalletInv => OnePrimary
  BY DEF WalletInv
<1> QED BY <1>1, <1>2, <1>3, PTL DEF Spec

-----------------------------------------------------------------------------
(* What look-ups find.                                                     *)

\* What a look-up remembers is still true, and its last query without result
\* rules it out.
MemoryOK(r) ==
    /\ active[r] \subseteq {w \in Ids : IsActive(w)}
    /\ steady[r] \subseteq active[r] \cap {w \in Ids : IsSole(wallet, w)}
    /\ dbErrors = 0 =>
          /\ lpc[r] = "any" => steady[r] = {}
          /\ lpc[r] \in {"static", "retry", "legacy", "refused"} => active[r] = {}
          /\ lpc[r] = "found" => \A w \in steady[r] : answer[r] = w

LookupInv == TypeOK /\ ArgOK /\ \A r \in Lookups : MemoryOK(r)

\* Wallets may change while look-ups remember them.
LEMMA RememberedStaysTrue ==
    ASSUME LookupInv, NEW f \in [Ids -> Row], SetWallets(f),
           UNCHANGED <<lpc, answer, dbErrors>>
    PROVE  \A r \in Lookups : MemoryOK(r)'
<1> SUFFICES ASSUME NEW r \in Lookups PROVE MemoryOK(r)'
  OBVIOUS
<1>1. /\ active'[r] = {w \in active[r] : f[w].status = "active"}
      /\ steady'[r] = {w \in steady[r] : IsSole(f, w)}
      /\ wallet' = f
  BY DEF SetWallets
<1>2. MemoryOK(r) /\ active[r] \subseteq Ids /\ steady[r] \subseteq Ids
  BY DEF LookupInv, TypeOK
<1>3. active'[r] \subseteq {w \in Ids : IsActive(w)'}
  BY <1>1, <1>2 DEF IsActive
<1>4. steady'[r] \subseteq active'[r] \cap {w \in Ids : IsSole(f, w)}
  BY <1>1, <1>2 DEF IsSole, MemoryOK
<1>5. active'[r] \subseteq active[r] /\ steady'[r] \subseteq steady[r]
  BY <1>1
<1>6. steady'[r] \subseteq active'[r] \cap {w \in Ids : IsSole(wallet', w)}
  BY <1>1, <1>4
<1> QED BY <1>2, <1>3, <1>5, <1>6 DEF MemoryOK

\* A query of one look-up.
LEMMA AskKeepsMemory ==
    ASSUME LookupInv, NEW r \in Lookups, NEW l, NEW next,
           NEW S \in SUBSET Ids, NEW Best \in SUBSET S, Ask(r, l, S, Best, next),
           l \in {"merchant", "org"} => \A w \in S : IsActivePrimary(w),
           <<l, next>> \in {<<"merchant", "org">>, <<"org", "any">>, <<"any", "static">>},
           l = "org" => {w \in Ids : IsActivePrimary(w)} \subseteq S,
           l = "any" => {w \in Ids : IsActive(w)} \subseteq S
    PROVE  \A q \in Lookups : MemoryOK(q)'
<1>1. UNCHANGED <<wallet, active, steady, dbErrors>>
  BY DEF Ask, history
<1>2. ASSUME NEW q \in Lookups, q # r PROVE MemoryOK(q)'
  <2>1. lpc'[q] = lpc[q] /\ answer'[q] = answer[q]
    BY <1>2 DEF Ask, LookupInv, TypeOK
  <2> QED BY <1>1, <1>2, <2>1 DEF LookupInv, MemoryOK, IsActive, IsActivePrimary
<1>3. MemoryOK(r)'
  <2>1. MemoryOK(r) /\ lpc[r] = l
    BY DEF LookupInv, Ask
  <2>2. CASE S = {}
    <3>1. lpc'[r] = next /\ answer' = answer
      BY <2>2 DEF Ask, LookupInv, TypeOK
    <3>2. dbErrors = 0 /\ next = "any" => steady[r] = {}
      BY <2>1, <2>2 DEF MemoryOK, IsSole, IsActivePrimary, IsActive
    <3>3. dbErrors = 0 /\ next = "static" => active[r] = {}
      BY <2>1, <2>2 DEF MemoryOK
    <3> QED BY <1>1, <2>1, <3>1, <3>2, <3>3 DEF MemoryOK, IsActive, IsActivePrimary
  <2>3. CASE S # {}
    <3>1. PICK w \in Best : answer' = [answer EXCEPT ![r] = w]
      BY <2>3 DEF Ask
    <3>2. lpc'[r] = "found" /\ answer'[r] = w
      BY <2>3, <3>1 DEF Ask, LookupInv, TypeOK
    <3>3. dbErrors = 0 => \A v \in steady[r] : v = w
      BY <2>1, <3>1 DEF MemoryOK, IsSole, IsActivePrimary
    <3> QED BY <1>1, <2>1, <3>2, <3>3 DEF MemoryOK, IsActive, IsActivePrimary
  <2> QED BY <2>2, <2>3
<1> QED BY <1>2, <1>3

LEMMA LookupStep ==
    ASSUME LookupInv, [Next]_vars PROVE LookupInv'
<1>1. TypeOK' /\ ArgOK'
  BY TypeStep DEF LookupInv
<1> SUFFICES \A r \in Lookups : MemoryOK(r)'
  BY <1>1 DEF LookupInv
<1>2. ASSUME UNCHANGED <<wallet, lookupVars, history>>, dbErrors' = 0 => dbErrors = 0
      PROVE  \A r \in Lookups : MemoryOK(r)'
  BY <1>2 DEF LookupInv, MemoryOK, IsActive, IsActivePrimary, lookupVars, history
<1>3. ASSUME NEW c \in Calls, Create(c) \/ Update(c) \/ Delete(c) \/ CallFails(c)
      PROVE  \A r \in Lookups : MemoryOK(r)'
  <2>1. CASE Create(c)
    BY <1>2, <2>1 DEF Create, Begin
  <2>2. CASE Update(c)
    BY <1>2, <2>2 DEF Update, Begin
  <2>3. CASE Delete(c)
    BY <1>2, <2>3 DEF Delete, Begin
  <2>4. CASE CallFails(c)
    BY <1>2, <2>4 DEF CallFails, LookupInv, TypeOK
  <2> QED BY <1>3, <2>1, <2>2, <2>3, <2>4
<1>4. ASSUME NEW c \in Calls, UnsetPrimary(c) \/ Insert(c) \/ Save(c)
      PROVE  \A r \in Lookups : MemoryOK(r)'
  <2>1. \E f : SetWallets(f)
    BY <1>4 DEF UnsetPrimary, Insert, Save
  <2>2. SetWallets(wallet') /\ wallet' \in [Ids -> Row]
    BY <1>1, <2>1 DEF SetWallets, TypeOK
  <2>3. UNCHANGED <<lpc, answer, dbErrors>>
    BY <1>4 DEF UnsetPrimary, Insert, Save, lookupVars
  <2> QED BY <2>2, <2>3, RememberedStaysTrue
<1>5. ASSUME NEW r \in Lookups, AskMerchant(r) \/ AskOrganization(r) \/ AskAny(r)
      PROVE  \A q \in Lookups : MemoryOK(q)'
  <2>1. CASE AskMerchant(r)
    <3> DEFINE S == {w \in Ids : IsActivePrimary(w) /\ wallet[w].merchant = MerchantOf[r]}
    <3>1. Ask(r, "merchant", S, S, "org") /\ \A w \in S : IsActivePrimary(w)
      BY <2>1 DEF AskMerchant
    <3> QED BY <3>1, AskKeepsMemory
  <2>2. CASE AskOrganization(r)
    <3> DEFINE S == {w \in Ids : IsActivePrimary(w)}
    <3>1. Ask(r, "org", S, S, "any") /\ \A w \in S : IsActivePrimary(w)
      BY <2>2 DEF AskOrganization
    <3> QED BY <3>1, AskKeepsMemory
  <2>3. CASE AskAny(r)
    <3> DEFINE S == {w \in Ids : IsActive(w)}
    <3>1. Ask(r, "any", S, Newest(S), "static") /\ Newest(S) \in SUBSET S
      BY <2>3 DEF AskAny, Newest
    <3> QED BY <3>1, AskKeepsMemory
  <2> QED BY <1>5, <2>1, <2>2, <2>3
<1>6. ASSUME NEW r \in Lookups, BeginLookup(r) PROVE \A q \in Lookups : MemoryOK(q)'
  <2> TAKE q \in Lookups
  <2>1. wallet' = wallet /\ answer' = answer /\ dbErrors' = dbErrors /\ MemoryOK(q)
    BY <1>6 DEF BeginLookup, LookupInv
  <2>2. CASE q = r
    <3>1. /\ active'[r] = {w \in Ids : IsActive(w)}
          /\ steady'[r] = {w \in Ids : IsSole(wallet, w)}
          /\ lpc'[r] \in {"org", "merchant"}
      BY <1>6 DEF BeginLookup, LookupInv, TypeOK
    <3> QED BY <2>1, <2>2, <3>1 DEF MemoryOK, IsActive, IsActivePrimary, IsSole
  <2>3. CASE q # r
    <3>1. active'[q] = active[q] /\ steady'[q] = steady[q] /\ lpc'[q] = lpc[q]
      BY <1>6, <2>3 DEF BeginLookup, LookupInv, TypeOK
    <3> QED BY <2>1, <3>1 DEF MemoryOK, IsActive, IsActivePrimary
  <2> QED BY <2>2, <2>3
<1>7. ASSUME NEW r \in Lookups, AskStatic(r) PROVE \A q \in Lookups : MemoryOK(q)'
  <2> TAKE q \in Lookups
  <2>1. UNCHANGED <<wallet, answer, active, steady, dbErrors>> /\ MemoryOK(q)
    BY <1>7 DEF AskStatic, LookupInv, history
  <2>2. \/ lpc'[q] = lpc[q]
        \/ lpc[q] \in {"static", "retry"} /\ lpc'[q] \in {"legacy", "refused"}
    BY <1>7 DEF AskStatic, LookupInv, TypeOK
  <2> QED BY <2>1, <2>2 DEF MemoryOK, IsActive, IsActivePrimary
<1>8. ASSUME NEW r \in Lookups, LookupFails(r) PROVE \A q \in Lookups : MemoryOK(q)'
  <2> TAKE q \in Lookups
  <2>1. UNCHANGED <<wallet, active, steady>> /\ dbErrors' # 0 /\ MemoryOK(q)
    BY <1>8, WalletConstants DEF LookupFails, LookupInv, TypeOK, history
  <2> QED BY <2>1 DEF MemoryOK, IsActive, IsActivePrimary
<1>9. CASE UNCHANGED vars
  BY <1>2, <1>9 DEF vars
<1> QED
  BY <1>3, <1>4, <1>5, <1>6, <1>7, <1>8, <1>9 DEF Next, Manage, LookUp

LEMMA LookupInvariant == Spec => []LookupInv
<1>1. Init => LookupInv
  <2>1. Init => TypeOK /\ ArgOK
    BY InitTypes
  <2> QED BY <2>1 DEF Init, LookupInv, MemoryOK
<1>2. LookupInv /\ [Next]_vars => LookupInv'
  BY LookupStep
<1> QED BY <1>1, <1>2, PTL DEF Spec

\* A payment gets the wallet that stays active and the only primary one during
\* its look-up, whatever calls and look-ups overlap.
THEOREM PaymentsFindWallets == Spec => []SteadyPrimaryFound
<1>1. LookupInv => SteadyPrimaryFound
  BY DEF LookupInv, MemoryOK, SteadyPrimaryFound
<1> QED BY <1>1, LookupInvariant, PTL

\* A payment falls back to the static address only if no wallet stays active
\* during its look-up, whatever calls and look-ups overlap.
THEOREM FallsBackIfNone == Spec => []FallsBackRightly
<1>1. LookupInv => FallsBackRightly
  <2> SUFFICES ASSUME LookupInv PROVE FallsBackRightly
    OBVIOUS
  <2>1. \A r \in Lookups : MemoryOK(r) /\ steady[r] \subseteq active[r]
    BY DEF LookupInv, MemoryOK
  <2> QED BY <2>1 DEF MemoryOK, FallsBackRightly
<1> QED BY <1>1, LookupInvariant, PTL
=============================================================================
