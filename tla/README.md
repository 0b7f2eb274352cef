# A verification of x402-buy-spl-token

x402-buy-spl-token sells SPL tokens over HTTP: a buyer asks for a quote
(402 Payment Required), funds an escrow on Solana, and repeats the request with
a payment proof; the server settles the payment through a facilitator, sends
the tokens, publishes an evidence document in a registry and submits the
delivery that lets an oracle release the escrow.  The modules here model that
program and state what must hold when requests overlap, clients leave, the
process restarts and remote calls fail without saying what they did, and what
the storefront, a web page in front of that API, does with a buyer's money, key
and patience while everything it waits for may change.

## Inventory

| component | source | state | operations | interacts with |
| --- | --- | --- | --- | --- |
| Paid path | `handler.rs` 605-1835 | the locals of a request | `handle_paid_path`, `run_paid_under_lock`, `do_spl_transfer`, `do_upload_evidence`, `do_submit_delivery` | everything below |
| Order ledger | `orders.rs`, `memory_ledger.rs`, `purchase_ledger.rs`, `init.sql` | a row per `payment_uid`; the advisory lock | `insert_pending`, `load`, `transition`, `mark_failed`, `with_advisory_lock` | Postgres through the pool, or a map and mutexes in memory |
| Database access | `db.rs` | a pool of five connections | `pool_client`, `fetch_parameters_map` | ledger, lock, parameters |
| RPC retry | `rpc_retry.rs` | attempt count, time budget | `with_retry` | Solana RPC |
| Facilitator client | `x402/facilitator.rs` | none | `verify_and_settle` | pr402 |
| Registry client | `registry_client.rs` | none | `upload_sla`, `upload_evidence` with retries and a JSON Schema | evidence registry |
| Quotes (402) | `handler.rs` 149-414, `quote.rs`, `amounts.rs`, `sla_escrow_ttl.rs`, `sla_builder.rs` | none | quote, commit material, TTL | parameters, catalog, facilitator |
| Parameters | `parameters.rs` | process-wide cache with a time to live | `refresh`, `resolve_*` | database |
| Cold start, catalog | `cold_start.rs`, `catalog.rs`, `catalog_api.rs`, `init.sql` | the catalog in the parameters table | migration, seed, validation | database, RPC |
| Purchase sheet | `PurchaseSheet.ts`, `slaEscrow.ts`, `canonicalJson.ts` | per sheet: quantity, nonce, step, total, error, result | edit, quote, confirm, sign, pay, close | the HTTP API, pr402, the wallet's signer |
| Wallet bridge, header | `wallet-adapter/src/main.js`, `WalletHeader.ts`, `theme.ts` | React trees, callbacks on `window`, the key, the theme | mount, remount, connect, disconnect, toggle | wallets, every sheet |
| Showcase | `App.ts`, `TokenCard.ts`, `metadata.ts`, `inventory.ts`, `catalog.ts`, `cluster.ts` | an array of items with their stock, cards | load, refresh after a sheet is closed | catalog endpoint, RPC node, metadata servers |
| Signers, configuration, HTTP shell, scripts | the rest | none after start | | |

What is hard: every step of the paid path is an await on a remote party whose
failure does not say whether it acted; the ledger row is written after the fact
it records; the advisory lock lives on a connection of its own, which can be
lost, or returned to the pool still holding it; handlers can be dropped at any
await; the in-process ledger does not survive its process; time of day goes
into a document that is hashed twice; a quote is assembled field by field from
a cache that other requests refresh, and judged again when it is paid.
In the storefront every handler is a closure over values of the moment it was
drawn: a purchase takes five awaits, during which its sheet can be edited or
closed and the wallet can change accounts, refreshes of the stock overlap, and
two React trees share one set of callbacks.
`PROJECT.json` lists each hazard at its
line.

What makes each part correct: the paid path moves tokens once, for paid orders
only, and tells the buyer the truth; the ledger's rows record only what has
happened and never leave a terminal state; the lock excludes and every wait for
it ends; the retry loop is bounded; a quote is one state of the parameters and
can be paid while nobody edits them; no value is served long after it was
replaced, and edits arrive in the end; amounts never wrap.  A sheet pays what
its dialog named, once per confirmation, for the account that receives, and
always says what happened; the header is true; the shop opens.

## Modules

| module | models |
| --- | --- |
| `OrderLedger` | one ledger row and the operations on it, as functions from row to row, shared by the two back ends |
| `OrderLifecycle` | the abstract specification: a row moves along its states and records only what the chain or the registry holds for it |
| `AdvisoryLock` | the abstract specification of the lock: one closure for a payment at a time, which keeps the lock until it ends |
| `PaidPath` | the paid path with any number of requests, both ledgers, the lock, facilitator, registry, chain and faults |
| `LockPool` | the pooled sessions that the lock and the ledger's statements share |
| `QuoteBinding` | the parameters table, the cache of each instance, its cold start, the quotes it hands out and the verdict on their payment |
| `Amounts` | from the text of a price to the total of a session, through both parsers |
| `PurchaseSheet` | the sheets, their purchases, the seller's verdict, the wallet |
| `BuyerConsent` | the abstract specification of a sheet: one payment of the amount asked for each yes |
| `WalletBridge`, `ThemeToggle` | how the page gets a wallet; the theme |
| `StorefrontHeader` | composes the two: one header, drawn once per page load |
| `Showcase` | loading the shop, overlapping refreshes of the stock |
| `ShopText` | amounts as text, metadata accounts, canonical JSON |
| `MCPaidPath`, `MCLockPool`, `MCQuoteBinding`, `MCPurchaseSheet`, `MCStorefrontHeader`, `MCShowcase` | constants of the TLC instances; the last also the inputs of the conversions |
| `PaidPathProofs` | type correctness of `PaidPath` |
| `PaidPathSafety` | mutual exclusion; what ledger rows and signed transactions are backed by; `PaidPath` implements `AdvisoryLock` and `OrderLifecycle`; what is written stays |
| `PaidPathLedger` | what is sent, by whom, answered and recorded, relative to the ledger and the chain; how often a request retries |
| `LockPoolProofs` | mutual exclusion on the level of sessions; `LockPool` implements `AdvisoryLock`; retries do not starve their closure |
| `QuoteBindingProofs` | type correctness and the safety of `QuoteBinding` |
| `SheetProofs` | type correctness and the safety of `PurchaseSheet`; it implements `BuyerConsent` |
| `HeaderProofs` | type correctness and the safety of `StorefrontHeader` |
| `ShowcaseProofs` | type correctness and freshness of `Showcase` |

### PaidPath and the code

A request is a program counter over the awaits of the handler and the locals
that survive them: `seen` is the `OrderRecord` in hand, `doc` the evidence
document, `tries` the attempts of `with_retry`.  `orders` is the table or the
map, `owner` the session (or guard) that holds the lock of a `payment_uid`.
A transaction stands for its signature: the order, the request and attempt
that signed it (a new blockhash gives a new signature) and, for SubmitDelivery,
the document whose hash it commits to.  A document is its transfer and its
`submitted_at`; it stands for its own hash and URL.

| actions | code |
| --- | --- |
| `AcceptProof`, `RejectProof` | parsing, TTL check, SLA rebuild and comparison; the verdict is a choice |
| `UploadSla`, `UploadSlaFails` | `registry.upload_sla` |
| `AcquireLock`, `LockBusy`, `LockFails`, `Unlock` | `with_advisory_lock`, both back ends |
| `InsertOrder`, `LoadOrder` | `insert_pending`, `load` and the match on the state |
| `Settle`, `SettleFails` | `run_verify_and_settle` |
| `SendTransfer` to `ReloadTransfer` | `do_spl_transfer` and `with_retry` |
| `BuildEvidence` to `ReloadEvidence` | the document, `do_upload_evidence`, and the checks around them |
| `SendDelivery` to `ReloadDelivery` | `do_submit_delivery` |
| `MarkOrderFailed` | `mark_failed` after a step that failed for good |
| `Cancel` | the handler's future is dropped: Postgres keeps the lock in the pooled session, the mutex guard is released |
| `Restart` | the process dies, at work or idle: locks go, the in-process ledger is emptied |
| `LoseLock`, `LeakedLockReleased` | the end of the session that holds a lock, under its holder or after it |
| `Land`, `Drop`, `Tick` | chain and clock |

`Faults` says what the environment may do beyond honest failure: `cancel`,
`restart`, `db` (a ledger call fails, carried out or not), `rpc` (a submission
is reported failed while its transaction may still land), `lockloss`.  The
facilitator and the registry may always fail after having acted, and a probe
for the lock may be granted with its answer lost (`Probed`): the request fails,
or is dropped, and the lock stays behind with its session.  The backoff
times, the 25 ms poll and the 5 s limit appear as choices: the last probe finds
the lock taken, a retry is due or is not.  Answers that differ only in wording,
and the 500s of a server started without its signers, are merged with the
answer at the same place.  Two payments whose `hash64` collide share a lock in
the code; they do not here, which only makes requests wait less.

### LockPool and the code

`PaidPath` knows who has the lock and that a lock may leak.  `LockPool` is what
that rests on: `with_advisory_lock` keeps a pooled session for as long as its
closure runs, each ledger call of the closure takes another from the same pool
of `max_size`, and a session that is given back inside its transaction keeps
its advisory locks until somebody's COMMIT or ROLLBACK, or a lock request that
lands on the same session, which Postgres grants.

Both are shown to implement `AdvisoryLock`, each under the faults it has, which
is what lets `PaidPath` have an owner per payment where the code has sessions
and transactions.  A lock that is taken over by the session it was left with is
one step of the pool and two of the paid path, `LeakedLockReleased` and
`AcquireLock`.

| actions | code |
| --- | --- |
| `Arrive`, `Connected`, `ConnectTimesOut`, `Begin`, `BeginFails` | `with_advisory_lock` up to the first probe; `pool_client` |
| `TryLock`, `LockBusy`, `ProbeFails` | `try_acquire_lock` |
| `StartStatement`, `StatementConnected`, `StatementTimesOut`, `Execute` | a ledger call of the closure: `pool_client`, BEGIN, the statement, COMMIT |
| `EndClosure`, `Rollback` | the closure's end, the ROLLBACK that releases the lock |
| `Cancel`, `CloseIdle` | a dropped future; an idle session is closed |
| `Tick` | time, for the three waits only: 15 s for a session (`Wait`), 5 s for the lock (`LockTimeout`) |

The 20 s around `pool.get()` never fire before the pool's own 15.  Round trips
take no ticks: a half-open connection that hangs a BEGIN for 20 s shortens what
`RetriesNeverStarve` can promise, and is not modelled; nor is the loss of a
session under its holder (`lockloss` of `PaidPath`), nor the one short
statement of a parameter refresh.  That a request may resolve parameters
before it asks for the lock adds nobody who keeps a session and wants another.

### QuoteBinding and the code

`QuoteBinding` is the part `PaidPath` takes as a choice: whether a payment is
accepted.  Every `resolve_*` is an await that may first refresh the cache, so a
task, be it the cold start of an instance, a quote or a payment, is a list of
parameters to resolve (`Script`) with the point it has reached.  A resolution
is in phase `check`, `fetch` or `read`; `snap` is the version its SELECT saw
and `age` the ticks since `Instant::now()` was taken.  Versions number the
states of the table, an edit, an expiring row and the seed of the migration all
giving a new one; a cached map is the version it was read from.

| actions | code |
| --- | --- |
| `StartFetch`, `Select`, `StoreMap`, `FetchFails` | `refresh_parameters_from_db` around `fetch_parameters_map`; success and failure both stamp the cache with the instant before the fetch |
| `ReadOn`, and the last step of each task | the lookup of `resolve_string`: endpoint row, wildcard row, environment, default |
| `Ask`, `QuoteRefused`, `QuoteResolved`, `Quote`, `FacilitatorFails` | `build_unpaid_402` |
| `Pay`, `Judge` | `handle_paid_path` up to the upload of the SLA; a payment can be sent again, with what was signed |
| `Boot`, `StartAborts`, `StartResolved`, `MintsValid`, `MintsInvalid` | `cold_start` up to the migration |
| `Migrate`, `MigrateFails` | `apply_migrations`; the seed replaces the operator's catalog, the instance serves the one it resolved before |
| `Edit`, `Restart`, `Tick` | operators, the platform, the clock |

`calm` is a history variable: nobody edited the table since a task began, nor
in the `Window` before it, which is the longer of the cache's time-to-live and
the time-outs of a fetch.

A price list is one value here, so the catalog matters only by being the same
or another; a network is the cluster it names.  Time-outs are numbers, a
negative one standing for a value that does not parse; the saturating addition
of the TTL rule is exact at every value a deployment uses.  Finding the cache
fresh and reading it is one step: a store between the two might as well have
come first if its fetch took no longer than the time-to-live.  Only processes
with a database are modelled (without one every lookup is the environment's), a
missing registry variable and keys that do not decode abort the start like the
failures shown, and an inactive seed row, which the migration would leave
inactive, does not occur.

### PurchaseSheet and the code

A sheet is what the closure of `openPurchaseSheet` holds, with `wallet` the
account its current listeners captured; `run` is the locals of `runPurchase`
and `executePurchase`, its `pc` the await it is at.  `payments` are the paid
GETs that the seller has not answered or has taken money for.  A session
`<<quantity, terms>>` stands for the total and the delivery the seller computes
with one price list; an SLA hash is the record it hashes; nonces and payment
uids are numbered in the order they are drawn, which is all that matters of 32
random bytes.

| actions | code |
| --- | --- |
| `Open`, `Close`, `TypeQuantity`, `StepQuantity` | `PurchaseSheet.ts` 145-146, 65-89; typing does not render, the buttons do |
| `ClickUnconnected`, `Click` | the primary button; the wallet is the one captured when the sheet was drawn |
| `QuoteArrives`, `QuoteFails` | `fetchQuote` |
| `Confirm`, `Decline` | the dialog, and the beginning of `executePurchase`: the nonce is read now, the query was written at the click |
| `TransactionBuilt`, `BuildFails` | `build-sla-escrow-payment-tx` |
| `Sign`, `SigningFails` | `MiracleTxSigner`, which signs with the account of this moment |
| `Delivered`, `PaymentRefused`, `AnswerLost` | the answer of the paid GET |
| `SellerSettles`, `SellerRefuses` | `handle_paid_path`: the SLA rebuilt from the query has the hash of the payment; then the escrow takes the money, and delivery may still fail |
| `WalletChanges` | `miracle-pubkey` |

The deposit counts as taken when the seller settles.  The dialog is modal by
its looks only, so everything else stays possible while it is open.  Left out:
the wording of errors (an RPC error and an empty account are both "Out of
stock", a quote whose amount is no integer throws while it is drawn), and the
links of the success view.

### WalletBridge, ThemeToggle and the code

| actions | code |
| --- | --- |
| `RunScript` | `wallet.js` runs and puts its functions on `window` |
| `Poll` | `mountWalletWhenReady`, every 100 ms |
| `Boot`, `BootFails` | the catalog is there: `__STOREFRONT_RPC__`, `RemountStorefrontWallet`, `renderWalletHeader`; or the banner, with the endpoint perhaps set already |
| `Render`, `Dispatch` | a React render of a tree, which installs its signer and disconnecter; its effect, `miracle-pubkey` |
| `ClickDisconnect` | `disconnectWallet` |
| `Toggle`, `ShowToggle`, `LoadTheme` | `toggleTheme` with its listener, whose value storage may refuse to keep, the button of the header, `initTheme` |
| `Reload` | the page is loaded again; only local storage survives |

`RemountStorefrontWallet` empties the container without unmounting, so the
first tree lives on; it keeps its adapters, its key and its effects.  That the
tree which signs and the tree whose key the page believes in are then the same
is nowhere promised and does not hold here.

### Showcase, ShopText, Amounts and the code

| actions | code |
| --- | --- |
| `CatalogArrives`, `EndpointResolved`, `LoadFails` | `fetchCatalog`, `initClusterContext`, the banner |
| `MetadataProceeds`, `MetadataEnds`, `MetadataBody` | `fetchTokenMetadata` and `fetchImageFromUri`, whose timer covers the headers only |
| `FirstRead`, `FirstAnswer`, `OpenShop` | `fetchSellerInventory` of every item at once, `Promise.all`, the first drawing of the cards |
| `Buy`, `CloseSheet` | a card's button, `onClose` |
| `NodeReads`, `RefreshStores` | `refreshInventory`, one item after the other |
| `Sale` | tokens go to somebody |

A balance carries the time it was read at, in transfers.  `busySince` is a
history variable: when a refresh last started while no other was running.

`ShopText` has the conversions whose result decides something: amounts as
text, the Borsh strings of a metadata account, the canonical form that is
hashed.  `Amounts` adds the server's: the parser that accepts a catalog
(`parse_decimal_shape`), the one that prices a request (`ui_to_raw_units`), the
checked product of `session_quote`, and `raw_to_ui_units`.

## Runs

All runs of `PaidPath` use one to three requests.  Two requests are enough for every race of
one holder with one sibling; three let a request come after two interrupted
ones.  `MaxAttempts = 2` gives a first attempt, a retry and an exhausted retry;
`MaxClock = 1` lets a resume happen in a later second than the first build.
`racing` has four faults and liveness at once and therefore one attempt, whose
retries are in the other runs.
The runs check no deadlock: requests are served once, so a run ends.

| run | question | result |
| --- | --- | --- |
| `undisturbed` | two payments, three requests, honest failures | one transfer per payment; deliveries commit to published documents |
| `interrupted` | clients leave, the process restarts, ledger calls fail | every 200 equals the completed row; unrecorded transfers come only from interrupted requests or 500s; nothing is signed past its step; the lock is `AdvisoryLock` |
| `racing` | the lock is lost under its holder, confirmations fail falsely, clients leave, ledger calls fail; fairness | rows stay backed by chain and registry; nothing is signed unpaid; `OrderLifecycle` is implemented; every accepted request ends |
| `misreported` | three requests, submissions reported failed that land | all transfers of a payment come from one request, and so do its deliveries |
| `memory` | in-process ledger, cancelled requests, restarts | exclusion by the mutexes (that its rows are backed is `LedgerBacked`) |
| `pool` | three requests, one or two payments, two sessions; clients leave, statements and ROLLBACKs fail | `AdvisoryLock`, and so exclusion, is implemented; retries of one payment do not take the sessions its closure needs; every request ends |
| `double` | the sentence of `orders.rs` 4-5, when a client leaves | violated, see below |
| `quotes` | two buyers, an instance that is replaced, three versions of the table | no value is served past the `Window`; an undisturbed quote is one version, is signed for, and can be paid; no quote is too short |
| `refresh` | fairness, failing fetches and migrations | edits reach the quotes |
| `sheet` | one sheet, two accounts, two price lists, edits and answers in any order, a retry | payments are what the dialogs said, once each, and for the account that receives; the button and the ticks tell the truth; a delivered sheet is spent; every confirmed purchase ends |
| `header` | script, catalog, renders, keys and page loads in any order | header and theme are true; the wallet in the page is on the shop's endpoint; a believed key is connected; a signer comes |
| `showcase` | two items, two overlapping refreshes, sales; the conversions | no reading is older than the overlap it came from; the shop opens and refreshes end; texts say their amounts, accepted prices are quoted exactly, canonical forms differ exactly when contents do |

`TransfersAccountedFor` and `SendsFollowLedger` are what remains of "never
twice" once clients may leave: a second transfer is signed only while the row
still says `pending_transfer`, and an operator can find every transfer no row
names among interrupted requests and 500 answers.  `SentByOneRequest` is what
remains when submissions are reported failed falsely: the retries of one request
may land twice, but its failure is written to the row under the lock it still
holds, so that no other request adds to them.

In `pool` two sessions and three requests give the wait that would be a
deadlock if `pool.get()` had no limit: two closures of different payments, each
with a session, each in want of another.  Both then fail after 15 s, whatever
they have done on the chain, and `PaidPath` takes that as its fault `db`.
`RetriesNeverStarve` bounds the other way to run dry, retries that each keep a
session while they poll: as long as (requests - 1) x 5 s is less than
(sessions - 1) x 15 s, which for the five sessions of `db.rs` means twelve
requests for one payment at a time.  The bound is sharp: with one request more
TLC finds a statement that is refused.  Two sessions let the polling retries
follow one another; with three sessions and five requests, where two poll at a
time, the same bound holds and is as sharp.

For `QuoteBinding`, two buyers in one instance are enough for refreshes that
overlap, and a restart stands for a second instance: a buyer pays at a process
with another catalog and an empty cache.  Three versions allow an edit and a
seed.  The tables differ in the time-out (longer, shorter than the rule allows,
an empty row that hides the wildcard row), the payout account, the oracles and
the catalog (the seed, another, one that does not parse).  With
`CacheTtl = 1`, `MaxFetch` is `1` in `quotes` and `2` in `refresh`: a fetch may
take as long as a map lives, and longer.  `quotes` has no database
failure: a failed refresh lets a calm quote come from an older map or from the
environment, which is what `ok` in `ServedRecently` and the run `refresh` are
about.  `CalmPaymentsAccepted` asks that environment and table name one
cluster, because the 402 hands out the table's and the paid path rebuilds the
SLA with the environment's (`handler.rs` 327 and 681).

The sheets share nothing but the wallet and the seller's price lists, both of
which may change at any moment, so one sheet meets every interleaving that two
would; the theorems hold for any number.  Two nonces give one edit, two payment
uids a retry after a lost answer, two price lists an instance that disagrees
with the one that quoted, and `MaxQuantity = 2` both limits of the clamp.  In
`header` two trees are all there can be (`HeaderTyped` proves it), and two keys
are an account change.  In `showcase` two refreshes are an overlap and two
items the least for which the order inside a refresh matters; the run may end
(nobody has to buy), so it checks no deadlock.  The conversions depend on no
state and are evaluated in the initial one: texts of up to four characters with
a nine-bit word for the 64-bit one, amounts up to 120 and those around powers
of ten, metadata accounts cut at every byte or of another kind, documents with their keys in every
order.

Fairness of `PurchaseSheet`: a fetch settles in the end, if only with a network
error, and the wallet answers a request for a signature; the buyer owes nothing,
so a purchase may stay in its dialog.  Of `StorefrontHeader`: timers fire and
React renders a root it was given.  Of `Showcase`: fetches settle, except for
the body of a metadata document, which no timer ends; `PageSettles` therefore
assumes that no body stalls, and without that assumption the page would load
forever.

Fairness of `PaidPath`: a request that was accepted keeps running (tokio polls it; every
remote call has a timeout, so its next step, success or failure, comes), and a
transaction is decided (its blockhash expires).  Nothing is assumed of the
release of a leaked lock; `LockBusy` ends the wait without it.

Fairness of `LockPool`: tokio polls every request and the clock runs; failures,
drops and closed sessions are never relied on.

Fairness of `QuoteBinding`: tokio polls every task, the time-outs of `db.rs` end
every fetch, and buyers keep coming.  Strong fairness says that a database, an
RPC node and a clock that are used again and again answer, and move on, again
and again; without it a refresh could fail forever.  That operators rest
follows from `MaxVersions`.

### Disagreements with the comments

`double` is a run: `orders.rs` 4 promises that a transfer which landed never lands twice.
The row is written after the confirmation; a request dropped in between leaves
`pending_transfer` and its retry transfers again.  `AtMostOneTransfer` holds
where nobody is interrupted.

The others are not runs.  Each says which property it would break and what the
runs therefore leave out.

* `handler.rs` 1209 takes exhausted retries for "never landed".  A confirmation
  timeout is such an error, and the transaction can still land.  The theorem
  `FailuresAreTrue` needs the absence of the fault `rpc`; `SentByOneRequest` is
  checked with it.
* `handler.rs` 896 says a resume reproduces the delivery hash byte for byte.  The
  document carries the current second, so a retry in another second delivers a
  hash that nobody uploaded.  `DeliveriesArePublished` holds where nobody is
  interrupted.
* `orders.rs` 18 has callers reject on `failed` when a transition meets zero rows.
  `handler.rs` 1752 reloads and answers 200 whatever the state is; after a lost
  lock session it can be `failed`.  `CompletedRepliesMatchLedger` needs the
  absence of `lockloss`.
* `docs/BUY-SPL-TOKEN-DEVNET-TEST.md` 135 says a replay gives an "identical 200".
  The TTL and the SLA are judged before the ledger is read, against the table and
  the catalog of the moment.  After an edit, or a restart that serves the seed,
  the payment accepted before is refused; line 145 would have the buyer suspected
  of tampering.  `CalmPaymentsAccepted` speaks of quotes that have not moved.

Two more break no property of the modules:

* `db.rs` 103 calls the uses of the pool short-lived.  The lock's is as long as
  its closure, with every RPC call in it.
* `handler.rs` 1530 has the buyer repeat the paid request of a payment that was
  not delivered.  The storefront cannot: after an
  error its button starts a new quote and a new payment, under a new uid.

Smaller ones, which break no property: a sheet drawn before the wallet was
connected keeps asking for a connection until it is drawn again, so its button
needs two clicks; and an edit made while the quote is on its way is followed by
the total of the old quantity, which is never paid (`SettledAsShown`).

## Proofs

`PaidPathProofs` proves `Spec => []TypeOK` for all values of the constants that
satisfy `PaidPathAssumption` (requests have payments, at least one attempt).
`TypeOK` is not inductive: that an attempt number stays in range depends on the
counter being below the limit where something is about to be sent, positive
where something was sent and zero elsewhere, and that a row's evidence is a
document depends on one being in hand from its construction on.  `LocalsOK`
says so; `TypeInv` is the conjunction.  One step per action, with lemmas for
the shapes that recur: a move, an answer, a failed ledger call, a submission, a
recorded step, the end of a request.

`PaidPathSafety` builds on it.

* `MutualExclusion`: without `lockloss`, `[]CriticalSectionExclusive`.  The
  inductive invariant is that a request inside its closure is the recorded
  owner of its payment's lock.  The assumption is needed: a lost session lets a
  second request in while the first still runs.
* `PaidPathImplementsLock`, from the same invariant and under the same
  assumption: every step is one that `AdvisoryLock` allows.  That a lock is
  taken only where no closure runs is exclusion; that nobody releases the lock
  of a running closure is that each request releases at most its own.
* `LedgerBacked`: `[]OrderBacked`, and `PaidFirst`: `[]PaidBeforeDelivered`,
  under all faults.  Exclusion is not used: the guard of each transition and
  what each request knows when it makes it suffice.  The strengthening
  (`Knows`) says what a request has established at each location: its SLA is
  uploaded, its payment settled, the record in hand agrees with its row, its
  document is about the row's transfer and its transaction has landed.
* `PaidPathImplementsLifecycle`: the refinement of `OrderLifecycle`, whenever
  the ledger survives (Postgres, or no restart), again without the exclusion of
  the lock.  Each action maps to one step of the row's life or to a stutter;
  that the columns it writes are on the chain or in the registry is `Knows`.
  With the in-process ledger a restart empties rows, which is no step of a
  lifecycle.
* `WrittenOnce`, for a ledger that survives: a terminal row never changes, and
  a column that has a value keeps it, be it written by a request, a sibling it
  overlaps with or a later resume.  It follows from the lifecycle, whose steps
  go forward only, with one fact of the rows (`EvidenceInOrder`): a row
  that waits for its evidence has none.

`PaidPathLedger` goes on from there.  Each theorem assumes the absence of the
faults that would break it, as the runs do.

| theorem | faults excluded | what is inductive |
| --- | --- | --- |
| `SendsFollow` | `lockloss` | `RowsKnown`: at each location in the closure, which state the holder's row is in |
| `RepliesMatch` | `lockloss`, an emptied ledger | `RepliesTrue`: an answer 200 equals a row that is completed, and nobody moves a completed row |
| `FailuresAreTrue` | `rpc` | `AttemptsKnown`: what a request has out at each location; before a step nothing, inside it only its last attempt |
| `TransfersFound` | `rpc`, `lockloss`, an emptied ledger | `TransfersRecorded`: a transfer is in its row, about to be, or its request is excused |
| `DeliveriesPublished` | all but `rpc` | `Calm`: a delivery under way is in some request's hands, so no request ever finds one to resume with another document |
| `OneSender` | all but `rpc` | `AllCommitted`: who has sent is still sending, about to fail the order, or has left the row where nobody sends again |
| `TransferredOnce` | all | nothing new: it combines the others |
| `RetriesBounded` | none | `AttemptsNumbered`: what a request sends carries an attempt number up to its counter, and no number twice in a kind |
| `RetriesReplace` | `rpc` | `OneOfAKind` itself, with `AttemptsKnown` |

`SendsFollow` is where the lock pays: a request acts on what it read of a row
some awaits ago, and only exclusion makes that still true.  `TransferredOnce` combines
the results above it: two transfers of one payment would come from two requests, the
later of which found the row still `pending_transfer`; but the first has the
lock or has recorded its transfer.

What a request itself can send is bounded whatever happens: `RetriesBounded`
says that it has at most `MaxAttempts` transfers and as many deliveries in
flight or landed, and `RetriesReplace` that, as long as a submission reported
failed has failed, it never has two of a kind, because a retry is signed only
after its predecessor was dropped.

`LockPoolProofs` assumes finitely many requests and sessions.  It proves
`[]ClosuresExclusive`: `IInv` adds to type correctness who has which session
(`Owned`), that it is not in the pool (`NotPooled`) and nobody else's (`Apart`),
that a closure's session holds its lock (`Locked`) and that no two sessions
hold the same one (`LocksApart`).  `Apart` is the point: a statement's COMMIT
ends every lock of the session it runs on, which must never be a closure's.
`PoolImplementsLock` draws the rest from `IInv`: every COMMIT, ROLLBACK, drop
and closed session releases only locks that no closure relies on, and a probe
that succeeds enters where no other closure for the payment runs.

`RetriesStarveNobody` (`[]RetriesNeverStarve`) is a counting argument.  While a
request waits and time passes, the pool is empty and, all requests being for one
payment, every session but one is with a request that polls for the lock.  So
each tick of the wait adds one polled tick per other session.  Ticks are
counted as a finite set of pairs (`Spent`), whose cardinality grows with the
wait (`Unstarved`, by an injection from the other sessions to their pollers) and
stays below (requests - 1) x `LockTimeout` (`SpentBound`).  It needs that nobody
waits without a place in the queue (`Queued`), no session is lost (`NoneLost`)
and no poll is longer than its budget (`PollsEnd`).

`QuoteBindingProofs` proves `[]TypeOK` and `NothingStale`, `[]ServedRecently`,
for any number of buyers, instances and versions, any tables and any limits.
`ServedRecently` looks at a cache only; the inductive invariant follows a
version from the SELECT on.  A fetch carries it and has run at least as long as
it may have been replaced (`FetchedRecently`); the cache counts from the start
of that fetch (`CachedRecently`); and who has refreshed reads without looking
at the age again, so what is in the cache then, perhaps an older map stored
meanwhile by somebody else, must still be inside the `Window`
(`ReadRecently`).  `Disciplined` says that only a fetch under way holds the
outcome of a SELECT and only a task at an instance resolves anything.

* `QuotesPayable`, `[]QuotesLongEnough`, holds whatever fails and is edited: a
  time-out is checked, by the rule that will judge its payment, before it is
  quoted, and what the buyer signs is followed up to the answer (`Payable`).
* `QuotesAreCurrent`, `PaymentsAreAccepted` and `PayoutIsSigned` prove the
  three calm properties, without the fault `db` as in `quotes`.  `CalmIsQuiet`
  is what `calm` buys: nothing was replaced within the `Window`, so by
  `NothingStale` the version everybody reads is the current one, provided a
  cache that is read holds a fetched map (`Stocked`).  `Steady` then says, task
  by task, that the values resolved so far are the current ones, what an
  instance has checked of them when it started, and that an undisturbed quote
  stays that of the table.

The assumptions on its constants are that buyers and instances differ, that
`None` is none of the values it stands beside, and that the time-outs a buyer
may sign are natural numbers.

`SheetProofs` proves `[]TypeOK`, `PaidAsShown`, `PayerIsRecipient` and
`ButtonTrue` for any number of sheets, accounts and price lists.  That a quote
which was edited away is never paid rests on nonces: the query carries the
nonce of the click, the SLA the nonce of the confirmation, and a seller that
accepts has seen them equal.  The invariant (`SheetInv`) is that no nonce is
used before it is drawn and that a purchase whose query carries the sheet's
present nonce carries its present quantity, which every edit preserves because
it draws a new one.  `PayerIsRecipient` follows from the run's one account and
from the payer's signature, which the escrow wants.

`SheetsImplementConsent` is the refinement: every step of the sheets is a step of
`BuyerConsent` or changes nothing there.  A grant is held by the purchase that
was confirmed, then by its paid GET, and is spent when the seller settles; it
lapses in a failed purchase and a refused payment.  The mapping only works if
nobody else holds the same grant, which is `UidInv`: payment uids are drawn for
one purchase each.

`SuccessIsDelivery` and `DeliveredForGood` (an action property) are about the
end of a purchase.  `SheetsShown` follows quantity and total from the dialog
through the payment to the success view: as long as the sheet has the nonce of
the query, nobody has touched them.

`HeaderProofs` proves type correctness, with the bound of two trees, and the
four safety properties.  `ShownOrNews` is the strengthening behind
`BelievedIsLive`: a key the page believes in is one some tree still shows, or
an effect is outstanding that will correct it.  `ScriptFirst` and
`RenderedOwns` tie trees, script and callbacks together.

`ShowcaseProofs` proves type correctness and `QuietCardsFresh` for any number
of items and refreshes.  `FreshInv` says of a refresh under way that
everything before its item in the array, and the answer it holds, was read
since refreshes began to run, whichever of them stored it.

Only model-checked:

* liveness (`EveryRequestAnswered`, `AllAnswered`, `CatchesUp`, `PurchasesEnd`,
  `SignerInstalled`, `PageSettles`), which rests on fairness and so on ENABLED;
* the conversions (`AmountsReadBack`, `ListedIsQuoted`, `MetadataReadsBack`,
  `CanonicalIsContent`), which are recursive: what they compute for every text
  takes induction over data.

Every other invariant and action property that a passing run checks is a theorem.

## Plan

1. `RpcRetry`: `with_retry` with its time budget and backoff, as the
   implementation of the attempts of `PaidPath`; `RegistryUpload` for
   `post_with_retry`.
2. Proofs: what of the conversions follows without induction.

Not modelled, and not planned: the HTTP shell, key loading, hashing (a document
is its own hash), addresses derived from keys, image elements and price labels
of the cards, bundler configurations, scripts and vendored code.
