# Verification of the CryptoPOS backend

TLA+ models of the parts of this backend in which concurrency, failure and order
matter, the TLC configurations that check small instances of them, and proofs
(TLAPS) that the most important properties hold for every instance. The source of
the backend is under `src/` of the repository; paths below are relative to
`src/src/modules/`.

The backend is a NestJS application over PostgreSQL (TypeORM). A merchant's point of
sale asks for a payment; the backend quotes it, finds a receiving address and stores
it; a monitor watches the chain and moves the payment through its statuses; changes
are told by webhooks and WebSockets; confirmed payments are settled in batches. No
call of the database is part of a transaction with another, and no row is locked or
versioned: everything that needs more than one call may be interleaved with
everything else, by other requests, by the cron job, or by another instance.

## 1. Inventory

| Component | State | Operations | Module |
|---|---|---|---|
| blockchain monitor (`blockchain`) | flag `isChecking` in memory; a tick's copies | cron tick every 10 s: `checkPendingPayments`, `checkPayment` | `PaymentMonitor` |
| payment status (`payments`) | rows of `payments` | `updatePaymentStatus`, `expireOldPayments` | `PaymentMonitor`, `PaymentLifecycle` |
| payment creation (`payments`) | rows of `payments`, unique index on (organization, key) | `createPayment` | `PaymentCreation` |
| deposit addresses (`payments/address`) | none | `getAddressForPayment` | `Wallets` |
| wallets (`wallets`) | rows of `wallets` | `create`, `update`, `delete`, `findActiveWallet` | `Wallets` |
| settlements (`settlements`) | rows of `settlements`, `settlementId` of payments | `createBatch`, `markCompleted` | `Settlements` |
| webhooks (`webhooks`) | endpoints, deliveries | `createEndpoint`, `deleteEndpoint`, `dispatchEvent`, `executeDelivery` | `WebhookDelivery` |
| queue (`queue`) | jobs and timers in memory | `publish`, `executeJob`, `onModuleDestroy` | `WebhookDelivery` |
| blockchain providers | none | `getTransactionsForAddress` (Bitcoin, Ethereum) | `ChainScan`; environment of `PaymentMonitor` |
| payments gateway | rooms of Socket.io | `notifyPaymentUpdate` | `PaymentSystem` |
| sandbox | none | `simulatePaymentTx` sets any status | `PaymentSystem` |
| admin invitations (`admin`) | rows of `admin_invitations` | `inviteAdmin`, `acceptInvitation`, `revokeInvitation` | `Accounts` |
| admin accounts (`admin`) | rows of `users` | `updateAdmin`, `deactivateAdmin`, `activateAdmin` | `Accounts` |
| admin roles (`admin`) | rows of `roles` | `createRole` | not modelled |
| users (`users`) | rows of `users` | `findOrCreateFromIdentity`, `create`, `update`, `delete` | `Accounts` |
| auth (`auth`) | public keys in memory | `authenticateBearerToken`, `resolveIdentity`, `refreshJwks` | `Accounts`, `KeyCache`, in part |
| devices, api keys | rows of `devices`, `api_keys` | register, pair, update, revoke; create, revoke; validate | `Credentials` |
| merchants | rows of `merchants` | create, update, `regenerateApiKey` | `Credentials`, in part |
| guards | none | decisions per request | `Credentials`, in part |
| pricing | cache in memory | `getExchangeRate`, cron `refreshPrices` | `PriceCache`, `PaymentQuotes` |
| organizations | rows | create, read and update of single rows | their creation for a new user, in `Accounts` |
| locations | rows | create, read and update of single rows | not modelled |
| audit, analytics | log rows; none | insert; read | not modelled |

How they interact. `createPayment` calls pricing, deposit addresses (and through them
wallets and merchants), stores the payment and calls `dispatchEvent`. The monitor
reads payments, asks the providers and calls `updatePaymentStatus`, which saves the
payment, notifies the gateway and calls `dispatchEvent`. `dispatchEvent` stores
deliveries and publishes jobs on the queue, which calls `executeDelivery` back.
Settlements read confirmed payments and write their `settlementId`. The monitor, the
sandbox, settlements and creation share the payments table; admin, users and auth
share the users table. Guards look up devices, API keys and merchants for every
request, and stamp the rows they find.

What is hard, and what makes each component correct:

- **Monitor.** A tick may last longer than the interval of the cron job; it holds
  copies of rows for minutes and saves them whole; any call may fail, the process may
  die, the chain may reorganise. Correct when ticks exclude each other, nothing stale
  is written, a status rests on evidence, a final status stays, the merchant is told
  of a confirmation once, and every payment ends when its window closes.
- **Creation.** Requests are repeated, overlap and are lost. Correct when a key has
  one payment, and repeated requests get that payment.
- **Addresses.** A look-up is several queries while wallets change. Correct when it
  finds the primary wallet, and falls back only without one.
- **Settlements.** A batch is a sequence of single saves around a payout. Correct when
  no payment is paid twice and the books agree.
- **Webhooks.** Two mechanisms repeat: a failed attempt publishes another job, and a
  job that throws is run again by the queue. Correct when a delivery is resolved, in
  one job at a time, at most `maxAttempts` times, and success means a 2xx.
- **Providers.** One poll is up to three requests, and the chain moves between them;
  errors are turned into empty answers; Ethereum is scanned 20 blocks back and no
  further; a batch holds 50 payments. Correct when a payment that was made is seen
  while its window is open and is confirmed by nothing less than enough blocks.
- **One table, three writers.** The monitor, a batch and the sandbox save whole copies
  of rows. Correct when none undoes the work of another, and watchers are told what is
  stored.
- **Pricing, keys of the identity provider.** Caches that several requests fill at a
  time, with answers that overtake each other. Correct when nothing is used that is
  older than its age and a time-out.
- **Devices, API keys, merchants.** Copies are read, changed and saved, and stamped by
  every request. Correct when a revocation is final and the latest secret works.
- **Admin, users.** Look-ups followed by writes: an invitation accepted twice, a last
  super admin deactivated, a user provisioned twice.

## 2. Plan

The order is by what the system is for: tracking payments first.

1. `PaymentLifecycle`, `PaymentMonitor` - done, proved.
2. `PaymentCreation` - done, proved.
3. `Settlements` - done, proved.
4. `WebhookDelivery` (webhooks over the queue) - done, proved.
5. `Wallets` (wallets and the look-up for an address) - done, proved.
6. `Accounts` (sign-ins, users, admins and their invitations over the one users
   table) - done, proved.
7. `PaymentSystem` (monitor, settlements and sandbox over one payments table) - done,
   proved.
8. `ChainScan` (the providers, and the order of the batch) - done, proved.
9. `PriceCache`, and `PaymentQuotes` (payment creation over it) - done, proved.
10. `Credentials`, `KeyCache` - done, proved.

Every safety property of the runs is stated by a theorem. To come: crashes and failed calls
in `PaymentSystem`, whose parts have them, and the two theorems about it with them.

## 3. Conventions

An action ends where the code awaits: between two awaits nothing else of the process
runs, and after an await anything may have. A failed await is an action of its own,
`DbError...`, `...Fails`. A call that dies with its process leaves what it wrote.
Calls start when they like and overlap as they like.

Where the code lets two calls undo each other, the properties are not restricted to
calls that keep apart: a history variable remembers the meeting (`contested` in
`Settlements`, `raced` in `Wallets`, `reissued`, `crowded`, `shared` and `overtaken` in
`Accounts`, `crossed` in `PaymentSystem`, `torn` in `Credentials`), and the property says that
it is broken at most there. Each is thus a statement about all behaviours: what it
excepts is the one interleaving that its comment describes, which is a weakness of the
code, and nothing else breaks it. Without any one of these exceptions TLC finds the
meeting.

Bounds are constants named `Max...`, or the sizes of the sets of calls (`Requests`,
`Batches`, `Calls`, `Jobs`, `Ticks`), and are said to be bounds where they are declared.

`Repository.save(entity)` selects the row and updates the columns that differ from the
entity. It is modelled as one step that replaces the row by the entity; that another
write comes between its own select and update is left out. Columns that are
`undefined` in the entity are not written: this matters in `Wallets`.

A definition named ...`Late`, ...`Never`, ...`Unguarded` and the like, whose comment
begins with "Mutant of", is the form a bug would give the definition after it. Nothing
uses it; putting it in that definition's place must break a property, which shows
that the property depends on that line of the code.

## 4. Modules

### PaymentMonitor, PaymentLifecycle

`row` is the payments table (status, hash, confirmations), `overdue` the payments
whose `expiresAt` is past, `seen` and `depth` the chain. A tick has a program counter
`pc`, the loop it is in (`phase`), the payments left (`todo`), its copies (`snap`) and
the entity being saved (`ent`).

| Code | Actions |
|---|---|
| `checkPendingPayments`, `blockchain.service.ts:29-75` | `StartTick`, `QueryActive`, `QueryOverdue`, `FinishTick` |
| `checkPayment`, 76-146 | `MarkChecked`, `FetchWithoutEffect`, `FetchMatch` (`Verdict`) |
| `updatePaymentStatus`, `payments.service.ts:218-262` | `ReadForUpdate`, `SaveUpdate`, `Notify` |
| `expireOldPayments`, 264-277 | `QueryOverdue`, `ReadForExpiry`, then `SaveUpdate`, `Notify` |
| faults | `DbErrorOnPayment` (caught in the loop), `DbErrorOnTick` (ends the tick), `Crash` |
| environment | `Create`, `PassExpiry`, `Broadcast`, `Bury`, `Reorg` |

Left out: timestamps, the received amount, the order of the batch. With `BatchSize`
below the number of active payments the model could take the same payment for ever,
while the code has an order; `ChainScan` is about that order, and the runs here have
batches that hold every payment.

`PaymentLifecycle` is the abstract specification: the order of statuses, and one
announcement per confirmation. `PaymentMonitor` implements it
(`Lifecycle == INSTANCE PaymentLifecycle WITH status <- ...`) on a single instance.

| Run | Instance | Shows |
|---|---|---|
| `monitor_single` | 1 instance, 2 tick slots, 2 payments that share a matching transaction, 1 crash, 1 failed call, with fairness | exclusion of ticks, evidence, no stale copy, implementation of the life cycle; windows close, confirmations are announced, payments whose transaction stays deep enough get confirmed |
| `monitor_stuck` | 1 payment, with fairness | *violation*: a payment in confirming past its `expiresAt` stays there for ever |

Two slots for ticks are what it takes to overlap, two payments what it takes for a
loop to go on after one of them fails, two confirmations to be in between, and one
crash and one failed call to hit every step (each may strike anywhere).

Fairness (`FairSpec`): weak fairness of the ticks of each instance, because the cron
job fires every ten seconds and Node runs what is ready; strong fairness of "a fetch
for this payment returns its transaction", because a provider that is asked again and
again answers in the end. The providers' requests have no time-out
(`bitcoin.provider.ts:79`): that calls return is an assumption, and without it a tick
never ends. No fairness is assumed of merchants, the chain, the clock or faults.

Also visible: with a second instance the copies of one overwrite what the other has
stored, a confirmation included (`NoStaleCopy` fails), since `isChecking` is a flag in
memory; the comment at `blockchain.service.ts:77` calls this safe and `README.md:12`
of the repository speaks of a distributed engine.

### PaymentSystem

Extends `PaymentMonitor` and instantiates `Settlements` over the same table: `confirmed`
becomes the rows with that status, and what the two leave out is added - `link`
(`settlementId`) in the copies of the monitor, the rows `held` by a batch, the sandbox,
and the status `pushed` to the clients who watch a payment.

| Code | Actions |
|---|---|
| the monitor, `blockchain.service.ts:29-146`, `payments.service.ts:218-277` | the actions of `PaymentMonitor`, with the link: `QueryLinks`, `MarkWhole`, `ReadWhole`, `SaveWhole`, `NotifyRooms` |
| `createBatch`, `settlements.service.ts:33-138` | the actions of `Settlements`, with the rows: `HoldRows`, `LinkWhole` |
| `simulatePaymentTx`, `sandbox.service.ts` | `SimRead`, `SimSave`, `SimNotify` |
| `notifyPaymentUpdate`, `payments.gateway.ts` | `Payload` |

`system`: a live and a test payment, one instance, one simulation, two batches that both
ask for all payments, beside or after one another; no crashes and no failed calls, which the
components are checked with. Both properties except the payments at which a simulation
met another writer (`crossed`): there it does undo links and statuses, or is undone.
`SettledStays` shows that the monitor and the batches need no such exception: on one
instance a payment is final before a batch can read it, and a batch reads only final
ones. A link moves to another settlement only if two batches at work had the payment
to link (`contested`), and is never lost.

Also visible: `createBatch` does not ask for the environment, so test payments are
settled with live ones; and the address of a test payment is looked up for the network
"mainnet" while the payment is stored for "sepolia" (`payments.service.ts:84` and
114-116).

### ChainScan

`sent`, `block`, `tip` are the chains; `looked` holds the active payments that have a
`lastCheckedAt` and `older` their order by it (`Before` adds the others, which come
last, in no order); `batch` and `at` the loop of a tick; `step`,
`found`, `height` the poll of one payment; `since` how many blocks ago a whole answer
was last had about an Ethereum payment.

| Code | Actions |
|---|---|
| the query and the loop, `blockchain.service.ts:35-75` | `StartTick`, `Look`, `LookFails`, `Sweep` |
| `BitcoinProvider.getTransactionsForAddress`, `bitcoin.provider.ts` | `AskList`, `AskTip` |
| `EthereumProvider.getTransactionsForAddress`, `ethereum.provider.ts` | `AskHeight`, `AskLogs`, `AskExplorer` |
| their error paths | `RequestFails` |
| `checkPayment`, `blockchain.service.ts:76-146` | `Conclude` (`First`, `Verdict`) |
| environment | `Create`, `PassExpiry`, `Broadcast`, `Mine`, `Reorg`, `Restart` |

`chain_scan`: a Bitcoin payment and an Ethereum payment payable by token or in ETH,
batches of one, so that they compete; two blocks scanned instead of twenty, six blocks
of Ethereum, one reorganisation, one failed request or restart. Six blocks are enough
for a transaction to be mined, to be missed and to leave the blocks that a later poll
scans: what keeps it in sight is how often it is polled, and with `MaxGap` larger by
one `InSight` fails. The database calls of a poll are joined
to its requests; `NeverStale` of `PaymentSystemProofs` is why that is no loss on one
instance. Fairness: the cron job fires and requests return (weak fairness of
`TickStep`); the failed requests are bounded, as `PaidInTime` promises nothing to a
payment whose provider never answers.

`MaxGap` = `Scan` - `Required` + 2 is the largest distance between whole answers for
which `InSight` holds; with 20 blocks scanned and 2 confirmations required that is 20
blocks, about four minutes. An outage of the RPC endpoint that lasts longer can hide a payment in
ETH for good; so can a poll that comes less often because more than 50 payments are
active. `KeptInBatch` shows the order: nulls come last, so a payment once looked at
keeps its place in the batch, and with 50 of those a new one is not looked at before
one of them ends.

Also visible: payments share the static address of a wallet, and the amount is the only
thing that tells them apart, so that one transaction may match two payments; here
`Matches` are disjoint, in `PaymentMonitor` they need not be. And `USDT_CONFIRMATIONS`
and `USDC_CONFIRMATIONS` have no effect: `getRequiredConfirmations` strips `_ERC20` from
the name it looks up (`payments.service.ts:279`), the configuration does not
(`app.config.ts:67`), and the default of 2 is taken.

### PaymentCreation

`payments` is the table as the set of requests that stored a payment; `pc` and
`answer` describe each request; `before` remembers what was stored when a request
arrived. `createPayment`: `FindExisting`/`FindNone` (`payments.service.ts:54-64`),
`Insert`/`Conflict` (142, against the index of `payment.entity.ts:38-41`),
`Dispatch`; `Refuse` is any error on the way, `Die` the end of the process.

`PaymentQuotes` composes it with `PriceCache`, and the run `quotes` checks the two.

Also visible in the model, without a run of its own: of two requests of one key that
overlap the second gets the index violation as an error (`Conflict`) instead of the
first one's payment, and only a further try is answered with it. And an empty key is no key for the
look-up (`if (idempotencyKey)`) but one for the index (not null), so an organization
can store one payment with an empty key and every later request with one conflicts.
`RetryFindsPayment` therefore speaks of keys that are not empty.

### PriceCache, PaymentQuotes

`cache` is `priceCache`, `flight` the requests to the source of prices, `given` the rate
a reader got. A price is the moment at which the source gave it; time is counted up to
`MaxNow`.

| Code | Actions |
|---|---|
| `getExchangeRate`, `pricing.service.ts` | `Ask`, and `Fetched` or `FetchFails` of `fetchPrice` |
| `refreshPrices` and its cron job | `Refresh`, `Refreshed`, `RefreshFails` |
| the source, time, the process | `Quote`, `Tick`, `Leave`, `Restart` |
| `createPayment`, `payments.service.ts:54-150` | `AskRate`, `StoreAtRate`, `Unpriced`, `DieWaiting` |

`quotes`: two requests of one organization with one key and one of another organization
with the same key - enough for a repeat that overlaps, one that comes after, and a key
that is not shared - over one coin, a refresh that may overlap with the fetches of all
three, an age of two units and a time-out of one. Two units are enough for an entry
to be young, of exactly the maximal age, and too old; four units of time for an entry
to grow old twice. No fairness: nothing here must happen.

Also visible: a request whose fetch fails is answered with what is in the cache, of any
age, and with the price written into the code when there is none
(`pricing.service.ts:90`).

### Settlements

`link` is `settlementId`, `status` the settlements table, `paid` what the payout
provider did. `createBatch` (`settlements.service.ts:33-138`): `Ask`,
`QueryUnsettled`/`Refuse`, `Insert`, `LinkPayment` (one per payment), `ExecutePayout`,
`RecordPayout`/`RecordFailure`, `Announce`; `MarkCompleted` is the endpoint of that
name. `contested` remembers the payments that a batch found unsettled while another
batch at work had them to link (`Claimed`).

`settlements_batches`: three batches, of which one asks for what the other two ask for,
beside or after one another, one failed call and one death.

Also visible: two batches that overlap find the same payments, and both pay them:
nothing in the code keeps them apart. `PaidOnce` and `PaidIsLinked` say that this is the
only way in which a payment is paid twice or is paid by a settlement it is not linked
to. A batch that fails between linking and paying leaves its payments linked
to a settlement nobody pays and no later batch takes (`RefusalsTrue` is about runs
without failures); and a failed save of the payout's result (line 122) is caught as a
failed payout, so a paid settlement is recorded as failed. Neither lets a payment be
paid twice, unless it is `contested`.

### WebhookDelivery

`row` is the deliveries table, `jpc`, `work`, `runs` and `ent` the jobs of the queue,
`dpc` and `left` the loop of `dispatchEvent`, `accepted` counts what an endpoint
really accepted. Of the delays one thing is kept: a save returns before the backoff of
a minute is over that the job it published waits for (`BackoffOver`), unless
`SlowSaves`. What the queue itself runs again, after two seconds, may start during that
save.

| Code | Actions |
|---|---|
| `dispatchEvent`, `webhooks.service.ts:89-127` | `Emit`, `FindEndpoints`, `StoreDelivery`, `PublishDelivery`, `DispatchFails` |
| `executeDelivery`, 129-209 | `Load`, `EndpointGone`, `Attempt`, `Accepted`, `Rejected`, `GiveUp`, `RetryLater`, `SaveResult`, `SaveCaught` |
| `executeJob`, `in-memory-queue.service.ts:52-84` | `StartJob`, `HandlerThrows` (`RunsLeft`), `Release` |
| `onModuleDestroy`, or a death | `Restart` |

`webhooks_deliver`: one event, one endpoint, limits of two instead of five (two is
enough for a first, a last and no further attempt), two failed calls, one restart,
four jobs. One delivery is enough because deliveries share nothing but the slots for
jobs. Fairness: weak, of each loop of `dispatchEvent` and each job; timers fire, calls
return, and the POST has a time-out of ten seconds (its answer may be either).

Also visible: the job of the next attempt is published before the present one is saved
(lines 197-207). When that save fails, the queue repeats the job as well, two jobs work
on one delivery, and the row of a delivery that failed with all its attempts used may
change again. `OneJob` is therefore about behaviours in which no call has failed.

`DeliveryResolved` excepts restarts, because jobs are in memory only, and as many
failed calls as the queue has runs for a job.

### Wallets

`wallet` is the wallets table for one organization, asset and network (every query
and update names the three); `pc` and `arg` are calls of `create`, `update` and
`delete`; `lpc` and `answer` look-ups; `active` and `steady` remember which wallets did
not stop being active, or active and the only primary one, since a look-up began;
`raced` tells, until the flags are unset again, that a call stored a primary wallet
while another had one to store. `create` and `update` unset
every primary flag in one call (`UnsetPrimary`, lines 69-77 and 256-264) and store the
wallet in another (`Insert`, `Save`). A look-up is `AskMerchant`, `AskOrganization`,
`AskAny` and then the static address (`AskStatic`), where any failure leads too
(`LookupFails`, `payment-address.service.ts:40`).

`wallets_calls`: three calls on two wallets, beside or after one another, one of which
may fail in the middle, and a look-up meanwhile.

Also visible: `createPayment` does not pass the location (`payments.service.ts:79`), so
the documented first step of the hierarchy (`PROJECT_STATE.md:123-126`) is never
made. Two calls that make a wallet primary both unset and then both set, and two
wallets are primary; nothing in the code prevents that. `OnePrimary` says that it takes
such a race, and that the next call that unsets the flags mends it. A call that fails between its
two steps leaves no primary wallet, and look-ups take the newest active one.

### Accounts

`user` and `inv` are the tables of users and of invitations, `late` the invitations
whose seven days have passed; `pc` and `arg` say of each call which query it makes next
and what it has read and is to write. `granted` and `founders` remember which calls
made an admin of an invitation and which provisioned an organization. Four variables
remember meetings: `reissued` the e-mails for which two calls of `inviteAdmin` withdrew
before either stored its invitation, `crowded` those for which two calls were past the
look-up before either inserted its user, `shared` the invitations two calls accepted
beside each other, `overtaken` the deactivations after whose count the active super admins
changed.

| Code | Actions |
|---|---|
| `findOrCreateFromIdentity`, `users.service.ts:36-135`, called by `authenticateBearerToken` | `SignIn`, `Link`, `Found`, `Insert`, `Save` |
| `create`, `update`, `delete`, 170-214 | `Create`, `Update`, `Delete`, then `Insert` or `Save` |
| `inviteAdmin`, `admin.service.ts:51-178` | `Invite`, `Withdraw`, `Issue` |
| `acceptInvitation`, 180-280 | `Accept`, `Expire`, `Match`, `Insert` or `Save`, `Mark` |
| `revokeInvitation`, 305-328 | `Revoke`, `Cancel` |
| `updateAdmin`, `deactivateAdmin`, `activateAdmin`, 394-490 | `UpdateAdmin`, `Deactivate`, `Count`, `Activate`, then `Save` |
| unique index over identities, `user.entity.ts:25` | `Clash`, `Refused` |
| faults, time | `CallFails`, `TimePasses` |

A call that is refused at its first query changes nothing and never begins. Who may
call what is left out, and so are names, tokens, permissions and scopes, and the
legacy tokens of merchants that `authenticateBearerToken` falls back to. `pending_`
identities made from the clock (`users.service.ts:181`) count as distinct. Of statuses
only "active" is told from the others, roles of a team are one.

`accounts_calls`: three calls of any kind that overlap as they like, three users of which
one is a super admin at first, two invitations, two identities with the same e-mail, an
address written in two ways, one failed call. Three calls are enough for an invitation,
an acceptance and a revocation to meet, or for a sign-in to follow two changes; three
users for two super admins and a newcomer. `accounts_last` (*violation* of `LastSuperAdmin`): one call of
`updateAdmin`.

Also visible: e-mails are put in lower case by `inviteAdmin` only, so that a user who
signs in as `Bob@...` and the admin invited as `bob@...` are two. Two first
sign-ins that overlap provision twice, two deactivations each count the other's super
admin, two acceptances of a token both make an admin, and a sign-in that stamps
`lastLoginAt` stores a copy that undoes a suspension. After a failed save of the
invitation (line 259) its token is good for a second time. The five properties say that
they fail in these cases only; e-mails are compared as they are stored.

### Credentials

`row` is one row each of devices, API keys and merchants; `pc`, `kind` and `copy` a call
that has read one and is to save it. `issued`, `latest` and `revoked` remember what
clients were told; `stale` and `torn` tell when a call saved a copy that was
read before a change of the row.

| Code | Actions |
|---|---|
| `register`, `pair`, `update`, `revoke`, `devices.service.ts` | `RegisterDevice`, `Pair`, `UpdateDevice`, `RevokeDevice` |
| `create`, `revoke`, `api-keys.service.ts` | `CreateApiKey`, `RevokeApiKey` |
| `create`, `update`, `regenerateApiKey`, `merchants.service.ts` | `CreateMerchant`, `UpdateMerchant`, `Regenerate` |
| `validateDeviceToken`, `validateApiKey`, `findByApiKey` and their guards | `AcceptDevice`, `AcceptApiKey`, `AcceptMerchant`, `Refuse` (`Valid`) |
| the save that ends each of them | `Save` (`Merged`), `SaveFails` |
| time | `PassExpiry` |

`credentials`: three calls of any kind on one row of each kind; three are enough for a
change, a stamp that meets it and a request afterwards. All three properties
except the rows in which a copy read before a change was saved over it (`torn`). That
is the whole of the exception: what the properties show is that nothing else undoes a
revocation or a new secret - not the update without the column of the secret, not the
pairing of a revoked device, not a failed save.

The theorems of `AccessProofs` say the same of any number of calls.

Also visible: the exception is real. A request's stamp of `lastUsedAt` or `lastSeenAt`
that was read before a revocation, a pairing or a regeneration and saved after it
undoes it.

### KeyCache

`cache` and `lastFetch` are `jwksCache` and `lastJwksFetch` of the OIDC adapter,
`published` what the provider publishes, `pc`, `sent` and `answer` the calls of
`resolveIdentity` with their requests.

| Code | Actions |
|---|---|
| `resolveIdentity`, `getPublicKey` | `Arrive` (`Outdated`), `LookUp`, `Fallback`, `Judge`, `TurnAway` |
| `refreshJwks` | `Await`, `Refreshed`, `RefreshFails` |
| the provider, time, the process | `Answer`, `Rotate`, `Tick`, `Restart` |

`key_cache`: two calls whose refreshes overlap, two keys, three changes of the published
keys (a key comes, the other goes, and it comes back), a TTL of two and a time-out of
one unit in five units of time, restarts at any time. A configuration without a URI of
keys is left out.

Also visible: a token that names no key is judged by the first key in memory, so while
two keys are published it is refused if it was signed with the second.

## 5. Proofs

Each proof module has its component's inductive invariants; `AccessProofs` those of
`Credentials` and `KeyCache`, `PaymentSystemProofs` those of `PaymentMonitor` and
`PaymentSystem`. All theorems assume only
the named assumptions on constants, and where noted a condition on them.

| Theorem | Condition | Argument |
|---|---|---|
| `TypeCorrect`, `TicksExclude` (`PaymentSystemProofs`) | none | the type invariant needs `LocalOK` (phase and cursor of a tick agree with its program counter), because a tick writes the row its cursor points at |
| `NeverStale`, `FinalIsStable`, `StatusRestsOnEvidence`, `MonitorImplementsLifecycle` | `SingleInstance` | `MonitorInv`: with exclusion there is one tick, so what it copied is what is stored until it writes itself; `CopiesFresh`, `SweepFresh`, `WorkFits` say so at each label, and every step then is a step of the life cycle or a stutter |
| `ClientsAreTold` (`PaymentSystemProofs`) | `SingleInstance` | `PushInv`: at a payment where no simulation met another writer, a row that a tick has still to do is open and equals its copy (`RowsHold`), and one that a batch has still to link is confirmed and equals its copy (`BatchesHold`); so no payment is in the hands of both (`AheadIsOpen`), and what was saved and not told yet is what is stored |
| `SettledRemains` | `SingleInstance` | `LinkInv`: besides, the links in the copies of a tick are those of the rows (`LinksHold`), a payment a batch has still to link has none unless it is contested (`BatchesUnlinked`, by `BatchesApart`), and a linked payment is confirmed or has been simulated; so only a batch changes a link, and from none but at a contested payment |
| `QuotesImplementCreation`, `QuotesImplementPrices` (`PaymentQuotesProofs`) | none | every step of the composition is a step, or a stutter, of `PaymentCreation` and of `PriceCache`; so the invariants of the two parts hold of the whole |
| `KeyHasOnePayment`, `AnswersAgree`, `RetriesAreSafe` | none | `CreationInv`: the unique index gives one row per key; an answer names a row of the request's own key; a request past its look-up knew of no row when it arrived |
| `RatesAreRecent`, `OvertakenLittle` | none | `PriceInv`: a request under way is not older than its time-out, and its answer was given since it was sent; so a cached price was given at most a time-out before its timestamp, and one that overtakes it is newer by no more |
| `SettlementTypes`, `RefusalsAreTrue` (`SettlementsProofs`) | none | `RefusalInv`: a payment is linked by a batch that has reached its loop, what records a payout comes after it, and while no call failed or died no batch ends before its work does |
| `PaidTwiceOnlyIfContested`, `PaidStaysLinked` | none | `SettlementInv`: but for contested payments, batches at work have different payments (`Apart`), the payments a batch has still to link are unlinked, and past the loop its payments are linked to it (`LoopOK`); `PaidOnce` follows because a payment has one link |
| `DeliveredTruly` (`WebhookDeliveryProofs`) | none | `FaultyInv`: an entity with status success was accepted |
| `DeliveredInTurn`, `ResultsAreFinal`, `AttemptsAreBounded` | `~SlowSaves` | `DutyInv`: while no call has failed, `CalmInv` - two jobs of one delivery are a job in its backoff and the one that published it; a job at work has a pending row and one attempt more than the row |
| `PendingHasJob` | `~SlowSaves` | `MemoryInv`: a job's runs are counted by failed calls (`RunsCounted`), so no job has used them up; what a handler saves is a result, or its next job is queued and has not run (`NextQueued`); `dispatchEvent` is one delivery ahead of its publications (`LoopAhead`). With it each step before a restart hands a pending row from one job to the next (`Carries`) |
| `WalletTypes`, `TwoPrimaryOnlyInRace`, `PaymentsFindWallets`, `FallsBackIfNone` (`WalletsProofs`) | none | `WalletInv`: unless calls raced, one about to store a primary wallet has no other primary wallet to compete with (`ClaimOK`); `LookupInv`: what a look-up remembers is true, and a query without result rules it out |
| `ConfirmedWhenDeep` (`ChainScanProofs`) | none | `FoundOK`: what a provider was told about a transaction still holds unless a block took it in meanwhile or the chain was reorganised, and the height it was told is not above the chain's; so the confirmations counted are no more than there are |
| `LookedAfter` | none | `Crowd`: the active payments looked at, with the rest of the batch, are never more than `Take`. If one of them were missing from a new batch, the batch would be full, and of payments looked at before it (`Before`), and so there would be `Take` + 1 of them |
| `PaymentsInSight` | `MatchesApart`, `ScanReaches`, `NativeSeen` | `Sighted`: the distance from the tip to a payment's block is at most the blocks since the last whole answer plus the confirmations that were lacking. A whole answer starts the count again because it tells of the transaction up to its height (`Seen` for the part that the logs told), and one that leaves the payment open found it too shallow |
| `AccountTypes` (`AccountsProofs`) | none | `ArgOK`: what a call has read fits the label it goes on at |
| `TwoPendingOnlyIfInvitedTwice` | none | `PendingInv`: a call about to store an invitation has left none pending for its e-mail, unless that is `reissued`, and every other save of an invitation closes it |
| `TwoUsersOnlyIfInsertedTwice` | none | `UserInv`: for a call about to insert there is nobody of its e-mail, unless that is `crowded`, and one about to save has the e-mail of the row it saves (`ReadRight`) |
| `LastDeactivatedOnlyIfOvertaken` | none | `SparesInv`: a deactivation past its count that is not `overtaken` has another active super admin to leave |
| `AcceptedTwiceOnlyIfShared` | none | `GrantInv`: an invitation that made an admin is closed, or being marked, or its call failed (`Grants`); while a call accepts one that is not `shared`, no other made an admin of it but such (`FirstToGrant`); and nothing reopens a closed one |
| `TwoOrganizationsOnlyIfInsertedTwice` | none | `OrgInv`: a founder has a user of its e-mail in the table, is about to insert it, or failed (`Founds`); the e-mail is `crowded` if two are about to, and no e-mail leaves the table |
| `CredentialTypes`, `RevocationIsFinal`, `LatestSecretStored`, `NoAccessByOldSecrets` (`AccessProofs`) | none | `CredentialInv`: a call that is not stale holds a copy of the row as it is, but for what it is to change, so its save undoes nothing; a stale call's save is recorded in `torn`, which the properties except |
| `SteadyAccepted`, `WithdrawnRefused` (`AccessProofs`) | none | `KeyInv`: an answer under way holds the keys that were published since it was asked for, so a key in the cache was published at most a time-out before `lastFetch`; and the key of a call that waits is in its answer if it was published all the time |

The conditions. `SingleInstance`: there is one instance, as the flag `isChecking` needs.
`~SlowSaves`: a save takes less than a minute. `MatchesApart`: no transaction
pays two payments; section 4 says when one does. `ScanReaches`: for Ethereum payments
`MaxGap + Required[p] <= Scan + 2`, which says how long a gap the 20 blocks of the code
allow, and which the run meets with equality. `NativeSeen`: an API key for Etherscan is
configured, or nobody pays an Ethereum payment in ETH; without it such a payment is never
found. The instances that the runs check meet the conditions of the theorems about them.

`TypeCorrect`, `FinalIsStable`, `QuotesImplementCreation`, `QuotesImplementPrices`,
`SettlementTypes`, `WalletTypes`, `AccountTypes` and `CredentialTypes` are proved and in no
run: they are what other properties rest on, or follow from one that is checked.

Only model-checked: the liveness properties (`WindowCloses`, `ConfirmedAnnounced`,
`ConfirmedInWindow`, `DeliveryResolved`, `PaidInTime`) and their fairness, which the
prover cannot treat. No model uses recursion.

## 6. Disagreements between code and documentation

| Run | What |
|---|---|
| `monitor_stuck` | "find all active unconfirmed payments": a payment in confirming whose window closed is in no query |
| `accounts_last` | "prevents deactivating or suspending the last active Super Admin": `updateAdmin` suspends or demotes it |

## 7. Not modelled

Formatting of events and QR codes, amounts, fees, slippage and bank details (data the
properties do not tell apart); validation of addresses and verification of tokens
(libraries and cryptography); the choice of a guard by the headers of a request, and
the guards of permissions, scopes and roles (stateless conditions on one request);
legacy tokens of merchants and the mock identity provider; audit and analytics (nothing
reads or depends on them); locations and roles, and
what organizations do but being created (single rows without interaction); `getBalance`, `getTransaction` and `getAllPrices`, which nothing calls;
the framework's wiring, filters and interceptors.
