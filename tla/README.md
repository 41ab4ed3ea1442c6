# Verification of dynamic-nft-krnl

TLA+ models, TLC runs and TLAPS proofs for this repository: an NFT contract
whose tokens carry traits and belong to a brand (`packages/contracts`), an API
server that turns Zealy quests into XP, loot keys and authorized contract calls
(`apps/api`), and the KRNL workflow service that executes those calls. Paths
below are relative to the root of the repository.

Every definition is a translation of the source lines that `PROJECT.json`
names under `map`. `PROJECT.json` also lists the components, the runs, the
mutants that each property must reject, the hazards of the code and the
theorems.

## 1. Inventory

### 1.1 On chain

| component | state it keeps | operations |
|---|---|---|
| `TargetBase.sol` | `masterKey`, `recoveryKey`, `nonces`, `usedAuthorizations`, `delegatedAccountCodeHash` | `requireAuth` around every protected function, key updates, the owner's nonce reset |
| `QuestProgressNFT.sol` | `nextTokenId`, `_traits`, `brandIds`, two URIs, ERC-721 ownership | `mintBaseNFT`, `applyQuestResult`, `openLootbox`, `setActiveTraitsAuth`, two URI setters (authorized); `setTrait`, two URI setters (owner) |

An authorization is a signature of `masterKey` over sender, nonce, expiry, the
function selector and the result it carries. `requireAuth` accepts it when the
sender delegates (EIP-7702) to the implementation the contract knows, the nonce
is the stored one, the time has not run out and the hash is not in the replay
table; it then moves the nonce, marks the hash and runs the function.

Hard: nonces the owner sets back, key rotation while authorizations are out,
and re-entry. `_safeMint` calls the receiver *before* `mintBaseNFT` writes the
brand and the traits, and the `nonReentrant` guard is on `requireAuth`'s check
only, so by then it is released: any other function may run in the middle of a
mint, another mint included.

Correct means: an authorization runs at most once; nonces are used in order;
what is marked used is what ran; a token has the brand its own mint named,
for ever; a result only reaches a token of its brand; the traits of a token can
be recomputed from the authorizations that ran.

### 1.2 API server

One Node process on PostgreSQL through Prisma. Concurrency is that of awaits:
between two queries of a request anything else may happen. Transactions run at
READ COMMITTED.

| component | state (tables) | operations | interacts with |
|---|---|---|---|
| owner economy, `routes/me.ts`, `routes/zealy.ts`, `lootboxEconomyService.ts`, `lootboxSamplingService.ts` | `userBrandEconomyLedger` and copies of its columns in `userLootBalance`, `userBrandLootLedger`, `brandUserLedger`, `userBrandXpLedger`; unlocked traits; reward audit; webhook events | buy keys, open a lootbox, show XP, receive a Zealy event | workflow runs (submits), minting (waits for) |
| workflow runs, `krnlService.ts`, `krnlRunPoller.ts` | `workflowRun`, `traitTransaction` | submit, poll a run or an intent until there is a transaction hash, poller over all runs, retry by the brand | KRNL node, RPC |
| automation, `zealyAutomationWorker.ts` | `actionQueueItem`, status of `zealyWebhookEvent` | pick up events, queue items, run them with a limited number of attempts | webhook route, all the above |
| credits, `billing.ts`, `zealyEventProcessor.ts`, `rewardExecutionService.ts`, `brands.ts` | `brand.sponsorshipCredits`, `payment` | start and confirm payments, charge sponsored runs | worker, routes |
| minting and tokens, `nftService.ts`, `tokenService.ts` | `brandMembership`, `tokenOwnership`, `token`, `brandUserLedger.tokenId` | ensure that a wallet has its token, record it | workflow runs, chain |
| sessions and portals, `middleware/`, `routes/auth.ts`, in the browser `lib/portal.tsx` and `portal-gate.tsx` | `portalSession`; the tab's copy | choose a portal, guard routes and pages by it, log out | Privy |
| assets and pictures, `brands.ts`, `me.ts`, `metadata.ts` | asset packs and objects, lootbox configuration, unlocked and active traits, cached pictures | upload, connect a pack, configure lootboxes, activate traits, render | object store, workflow runs |
| bootstrap, `krnlBootstrapService.ts` | `krnlExecutorBootstrap` | delegate the executor's account, once | chain |
| pages of the brand dashboard, `apps/web/.../workflows`, `assets`, `nft`, `billing`, `lib/api.ts` | what the page shows of rows it has read, requests under way | list, follow and retry runs; make, fill and activate packs; name the contract; buy credits | routes, wallet |
| encoding and signing, `authDataEncoder.ts`, `krnlIntentSigner.ts`, `traitSchema.ts` | none | ABI encoding, signatures, trait keys | contract |
| templates, read-only routes, health, start | none of their own | reads and I/O | |

Hard, by component (each is an entry of `hazards` at its line):

* Economy: two purchases on one XP balance; openings that check before they
  charge; a redelivered event; a webhook between the read and the write of
  another request; failures after a commit.
* Workflow runs: giving up while the transaction is still to be mined; the
  poller and a request polling the same run; a retry of what went through.
* Automation: an event taken by the worker while the route is still at work on
  it; an event handled again after a stop in the middle; an item left RUNNING by
  a stop or a failed write; a retry that mints or rewards again.
* Credits: a balance written back as a value read minutes before; a payment
  confirmed twice; a check for less than is charged.
* Minting: a look for a pending mint and a submission that are not one step; four
  tables written one by one by handlers that may be cut off.
* Portals: overlapping calls in one tab, other tabs, a brand taken from a row
  read earlier.
* Pages: answers that come back in another order than the requests left, or after the
  page went on to another row; two tabs that each save all settings from a copy of
  their own; a payment whose request is sent again, or is late.
* Pictures: a table checked against a pack that is replaced, traits unlocked that the
  node names and nobody checks, a picture composed
  while what it shows changes, two transactions that set values of one trait.

Correct means, respectively: keys and XP are conserved and each event is
credited once; a status is recorded only if the node or the chain reported it;
the queue is complete, in order and drains; credits equal payments less charges
while nobody overlaps, and stay within bounds when somebody does; what a table
says of a token is true; a portal shows and serves only what is the user's; a
trait won from a loot table has a picture and a cached picture is the one asked for; a page does not show of
one row what was answered of another, and nothing is paid twice or without a signature.

### 1.3 Not part of the models' subject

The rest of `apps/web` shows what the API keeps. `scripts` directories
hold tools run by hand. The Prisma schema enters the models as the unique keys
that actions meet. The contracts of OpenZeppelin, the KRNL node, PostgreSQL,
Privy and Zealy are external: they appear as what the code relies on.

## 2. Modules

| module | models |
|---|---|
| `OneTimeAuthorization` | abstract: what `TargetBase` promises |
| `TargetBase` | `TargetBase.sol`; implements `OneTimeAuthorization` |
| `QuestProgressNFT` | `QuestProgressNFT.sol`, composed with `TargetBase` by `INSTANCE`; implements it |
| `LootEconomy` | purchases, openings, XP reads and webhook rewards of one wallet at one brand |
| `WorkflowRuns` | one run from its submission to its last write: both kinds of poll, background poller, retry, KRNL node and chain |
| `ActionQueue` | the automation worker between the webhook's events and the chain: two loops, attempts, stops of the server |
| `SponsorCredits` | the credits of one brand, all who spend and all who pay |
| `TokenRecords` | the four tables that name a wallet's token, the four handlers that write them |
| `PortalSession` | the portal a user has selected, in the database and in one tab, among other tabs |
| `TraitImages` | from uploaded layers to the loot table, unlocked and active traits and cached pictures |
| `RunsPage` | the workflows page: its list of runs, the panel for one of them, polling and Retry |
| `NftPages` | the assets page and the NFT page, two tabs that save the same settings |
| `TopUp` | buying credits by x402: page, wallet and route |
| `...Proofs` | theorems about the module they are named for; those about `TokenRecords` are in `LootEconomyProofs`, about `RunsPage` in `WorkflowRunsProofs`, about `TopUp` and `NftPages` in `SponsorCreditsProofs`, beside the routes their pages call |
| `MC...` | small instances of the above |

### 2.1 TargetBase

A transaction that reverts leaves nothing behind, so a function is one step
whose guard is the conjunction of its checks. `VerifyAuthorization(h, signer)`
is `requireAuth`: `h` stands for what is hashed (sender, nonce, expiry and the
call: selector with result, id, executions and sponsor flag), `signer` for the
key that recovers from the signature. Hashes are injective in the model, and
signatures cannot be forged: that is what `signer` being an input, and nothing
else, expresses. Every `h` and every `signer` is tried in every state: a signer may
sign anything, and anybody may present it. `AdvanceTime` and `Delegate` are the
chain around the contract; `Delegate` is also what `krnlBootstrapService.ts`
does to an account. The delegation code hash is modelled by the implementation
it is computed from.

`log` and `epoch` are history: the `AuthorizationVerified` events and the
number of resets of each account.

### 2.2 QuestProgressNFT

Extends the state of `TargetBase` (`TB == INSTANCE TargetBase WITH Calls <-
NFTCalls`; the other names are the same). A mint is two steps: `MintBaseNFT`
up to the call of the receiver, `FinishMint` after it. `minting` is the stack
of mints inside `_safeMint`. While it is not empty and every receiver on it is
a contract (`callback`), any other call may run; time and code stand still
until the transaction ends. `mintedAt` and `ownerSet` are history. The callback
of a receiver may fail, which reverts the whole mint: that is no step at all.
A revert of an outer mint undoes the inner calls as well; the behaviour is one
in which none of them happened.

Left out: ERC-721 transfers, approvals and ownership (no guard in the contract
reads them; tokens are never burned, so `_exists` is `t < nextTokenId`), the
recipient of a mint, events, and the views.

The contract does not reject the brand id 0, so it is among the `Brands`. A token
has brand 0 while its receiver's callback runs; a result signed for brand 0 therefore
passes `brandIds[tokenId] == result.brandId` there, and stays on the token when the
mint then writes another brand. `ResultsMatchBrand` names this one exception: every other result, and
every result once the mint has returned, is of the token's brand.

### 2.3 LootEconomy

The requests of one wallet at one brand. A request is cut where it awaits a
query that others may get in front of. From its first write of the ledger row
to the commit a transaction holds the row's lock, so that part is one step with
the lock being free as its guard.

* Purchase: `BuyUpsert`, then `BuyCommit` or `BuyRollback`. The transaction
  begins with an upsert with an empty update. It creates and
  thereby locks a missing row; whether it locks an existing one depends on how
  Prisma runs it (`INSERT ... ON CONFLICT` or a read). The constant
  `UpsertLocks` is that choice.
* Opening: `OpenCheck` (balance, before the transaction), `OpenSample` (read of
  the unlocked traits and draw, also before), `OpenCommit` (conditional
  decrement, unlocks), `OpenSubmit` (workflow, after). The draw (`Draws`,
  `lootboxSamplingService.ts`) may return any set of entries up to the maximum:
  it is random, and gives up after a number of attempts.
* `ShowRead`, `ShowWrite`: `getOrCreateEconomyLedger`, no transaction.
* Webhook: `HookReceive` (the event row), then `HookEnd` (ignored or failed) or
  `HookApply` (`applyWebhookReward`). The twin routes, with the brand in
  the path and without, share it. The status column of the event is left out:
  the route acts only on whether the row exists.

The four copies of the key balance are one variable since they are always
written together and with the same value; `LedgerBalances` compares it with the
ledger, and what `GET /me/xp` would show (`Shown`) with the XP left. The wallet has its token (without it an opening is refused at
once). Amounts are scaled down: a default of 3 XP in place of 10000 at 2 XP per
key in place of the real price, so that a purchase may succeed once and fail
the second time.

### 2.4 WorkflowRuns

One row of `workflowRun`, and all who write it. `row` holds its status, the
submission whose ids it carries (`ref`) and the three hash columns; `node` and
`mined` are what the KRNL node and the chain know of each submission. Nothing
here runs in a transaction with the read it depends on, so each process carries
what it read in a record of its own (`polls`, `poller`, `retries`) and every
`await` ends a step. A process may stop at any of them, which is a crash: the
row is all that is kept.

* `submitWorkflow`: `SubmitToKrnl` (the request to the node, whose answer may be
  lost) and then `CreateRun`.
* `pollUntilTxHash` (`strict`) and `pollUntilTxHashByIntent` (`intent`) are one
  set of actions, for they differ in three points: only the first asks for a
  receipt, it starts with what the row says, and it leaves the row alone when it
  gives up while the other fails it.
* `pollOnce`: `PollerRead`, `PollerFetch`, `PollerWrite`, or `PollerTimeout` for a run that is too old, whose answer is not used;
  `PollerSkip` if the request throws. The write takes most of its values from
  what was read before the request.
* The brand's retry: `RetryCheck`, `RetrySubmit`, `RetryWrite`.

The node and the chain are external. `Answers` is the set of answers the code
can make out, the unreadable ones included. A hash in an answer is taken for that of
the transaction: `findTxHashDeep` accepts any 32 bytes, and what the node puts
there is not in this repository. A receipt says only that there is one, since no
status depends on whether it succeeded.

Left out: `DEMO_MODE`; the branch of `submitWorkflow` for an existing run, which nothing
calls; the checks a retry makes on events and memberships before it submits
(it may stop at any point anyway); `error`, steps and other JSON; the copies of the result
in `traitTransaction`. When the answer to a submission is lost, the model lets
the node have accepted it.

### 2.5 ActionQueue

The rows (`event`, `queue`, `membership`, `ownership`), the two loops of each
server as local variables (`eventWorker`, `actionWorker`), and outside them
`workflows` and the `keys` of each token on chain.

* `Deliver`, `RouteIgnore`, `RouteCredit` are the webhook route as far as the
  worker meets it: the row exists as `received` while the route is at work, so
  the worker may take it at any time, and either of them may write the status
  last. What the route does to the ledgers is `LootEconomy`.
* `EventRound` to `EventClose`: a round reads its batch, marks an event as
  `processing`, looks for a token, and for each of the two item types looks for
  an item (`EnsureFind`) and creates one (`EnsureCreate`), one query at a time.
  Every query may throw (`EventThrow`), which settles the event as failed.
* `ActionRound` to `ActionThrow`: a round takes the oldest items that are due,
  with their status as it was then. `SkipItem` is the back-off: whether an
  item's time has come is left open. `RunMint` and `RunReward` are the handlers,
  cut at every query and every wait.
* `Stop`: a server loses what its loops hold, at any point, and goes on with
  new ones. `BreakItems` and `BreakEvents`: one loop alone is cut off, when a query of the
  round itself throws. Such are the marks RUNNING and `processing`, and the writes that an
  item or an event failed, which stand in a `catch` and are not guarded
  (`zealyAutomationWorker.ts:206`, `613`): the round is then left at 231 or 623. An item that was
  RUNNING stays so in either case, since only PENDING and FAILED ones are looked for.
  `ItemsAccounted` says that each round cut off leaves one such item at most and nothing else leaves any.
  In the middle of an item `BreakItems` is two failures in a row, of the handler and of the write that it failed.

A workflow that was waited for in vain may still be mined (`Mine`). `decodes`
is whether `extractTokenIdFromMintReceipt` can find the contract's event, whose
`tokenId` it declares without `indexed` while the contract has it indexed.
Left out: rewards other than one key, the rules read from the brand, the time
of a retry, the credits (next module), and the items of types OPEN_LOOTBOX and UPDATE_XP: the
worker has handlers for both (`zealyAutomationWorker.ts:446-550`) that submit a workflow and charge
credits, but nothing in the repository creates such items.

### 2.6 SponsorCredits

The column, a `Decimal(20,4)`, in units of its last decimal; `Half` is half a credit in
units. A payment may be of any amount (`Amounts`), and the callback adds whatever number
it states, a negative one too (`Reported`). A spending request reads the brand (`Begin`),
submits and waits, and writes what it read less the cost (`Charge`). Six
handlers do so in different orders and with different checks; `kind` says which
one a request is, and each action says for which kinds it stands. Half of the
credit checks ask for any positive balance. The callback of billing is two
steps, a read and a write; `POST .../x402/start`, which outside production
completes the payment at once, increments in place. `GiveUp` is a failed check,
an exception or a stop. `toppedUp`, `takenBack`, `charged` and `overlapped` are history.
Left out: the status of events and quests, which stop the second handling of a
finished event before its first read; and two of the worker's handlers for items that nothing
creates: `runLootboxAction` checks and charges as `runQuestRewardAction` does, so a "reward action" stands for
it, while `runUpdateXpAction` charges half a credit without any check, and with it no lower bound
would hold.

### 2.7 TokenRecords

A request is of one of four kinds, and a step is a query. The tables (`membership`,
`ownership`, `tokens` and `legacyToken`, the token column of `brandUserLedger`) differ in
their keys: membership and ledger by holder, ownership by brand and token,
`token` by token alone; an upsert replaces the row with the same key.
`join` does not wait for its mint: it numbers the members of the brand and
records that number as the token. Its holders are excluded from the properties
of truth (`joined`), for that is what the route does. `DEMO_MODE` derives a
token from brand and wallet. Runs are settled as in `WorkflowRuns`, of which
`Settle` is the part that a look for a pending run can see.

### 2.8 PortalSession

`session` is the row, `tab` the copy of one tab, `call` its calls of
`ensurePortal` (ask, select, confirm, apply: each a request), `gate` the
`PortalGate` of the page on display with the two refs it keeps, `request` what
other tabs send. `inFlight` is the ref by which a call for the same portal is
joined; the end of any call clears it, as in the code. `Select` reads the row
and `Write` writes it, with the brand of the row read when none was asked for.
Requests of other tabs select, choose a brand of interest, are given the owner portal
when there is no row, or log out. `Repair` is `apiFetch`, which answers a refusal by the
guard of a route by selecting the portal the route needs and sending the request once more.

### 2.9 TraitImages

Four stages that read what the stage before may be replacing. An upload is an
object, then a row, then for a base image the pack's key, and may stop between.
The loot table is compared with the layers of the pack that was active when it was
read. Openings store what they picked before, in two tables: `won` is `brandUserUnlockedTrait`, by which the
next draw goes, and `unlocked` is `unlockedTrait`, by which the owner's page and activations go. The poller writes
only the second (`PollerUnlock`): when an OPEN_LOOTBOX run succeeds it stores whatever traits the node's answer
names, without a look at the layers or at what was drawn. `POST /brands/:brandId/lootbox/open` creates
such runs and draws nothing itself, so one may be under way at any time. An activation is one transaction
of the poller, or in `DEMO_MODE` one of the request, which may overlap another: `View`
and `Locked` are READ COMMITTED and row locks. A picture is read from the cache,
or composed and stored under a key computed before. Objects are kept under
pack, kind and file name, so uploads of one name share an object. Left out: what layers look like
and their order, everything about keys and prices.

### 2.10 RunsPage

`status` is what the server has; the page has `rows`, `cache` (what `useSWR` keeps),
the panel (`chosen`, `detail`, `broken`, `retrying`) and its requests (`listing`,
`call`), of which it cancels none. Server and page take a step each: `Serve...` reads
or writes the row, `Show...` is the handler that the answer comes back to. Going
from one run to another keeps the component (`NextRun`), going to the list and back makes a
new one (`Mount`); a retry that was sent goes on without its page. `SucceededForReal` needs
that no status but a failed one is left by a retry, and that `applyDetailToRun` compares ids.
How runs end is `EndRun`, and is the subject of `WorkflowRuns`.

### 2.11 NftPages

`config`, `packs` and `stored` are the tables. `page` is the assets page, with a slot for each
request under way (`request`); handlers that await one request after the other go through
kinds: an upload is followed by the list of its pack (`relist`) and that by the packs
(`refresh`). An effect asks for assets whenever another pack is selected, so `Select`
is part of every action that may do that. `form` is the NFT page in the other tab, `saving` its saves
that have not arrived. `intended`, `putBack`, `crossed` and `missed` are history: what was set
last, whether a page wrote a value the other had replaced, and whether requests about
assets overlapped or failed, in which cases the pages promise nothing.

### 2.12 TopUp

`flow` is one submission of the form: asked, told what to pay (402), signed, asked again
with the authorization. `wire` is its call on the way there (`request`, `select`) or back. Each call is
repeated once after the portal was selected anew, as in `apiFetchRaw`. The route
compares amount, value and time and records the payment; it keeps no list of the authorizations
it has seen. That `PaidAsSigned` holds all the same is owed to the page, which sends an
authorization again only when the guard, which comes before the route, refused it.

## 3. Runs

| run | shows | distinct states |
|---|---|---|
| `target_base` | with two accounts, two keys, two expiry times and a reset each: no replay, nonces in order, `OneTimeAuthorization` is implemented | 963,072 |
| `quest_nft` | with nested mints and calls in callbacks, of a brand and of brand 0: ids, brands and traits are right, `TargetBase` is implemented | 170,618 |
| `economy` | two purchases, two openings, two deliveries and an XP read that overlap: keys and XP conserved, events credited once, no overspending, every request ends | 222,460 |
| `runs` | one poll of either kind and the poller on one run: the poll ends, the run is settled | 166,322 |
| `runs_retry` | what is recorded is what the node and the chain reported, when the run is retried while a poll still watches its first submission, and past the age at which it is polled; a panel is about one run, and what the page calls succeeded is | 5,614,074 |
| `action_queue` | two events, one server that may stop, meet an exception or fail to write: nothing queued twice or out of order, only real tokens recorded, success means done, extra mints and stuck items accounted for | 1,300,015 |
| `action_queue_live` | one event with up to five failed attempts, one of which may be a stop or a round cut off: the queue drains (an item left RUNNING by a cut counts as drained), keys are not invented | 282,072 |
| `credits` | two requests of any kinds, a payment and two deliveries of its callback: never owes a mint, never richer than what was paid, exact without overlap; two top-ups by x402: paid as signed, once; two tabs on the NFT settings: neither undoes the other as long as neither sends a value that the other has replaced since it was loaded | 3,198,034 |
| `token_records` | three requests of any kinds for two wallets at two brands, up to two mints: records are true, agree and are found by every route (`RoutesAgree`); no token shared; one open mint | 1,433,662 |
| `portal` | two calls of one tab, another tab's requests, one brand of the user and one of another: only own brands are served, the quiet tab agrees, gates are answered and open | 624,162 |
| `trait_images` | two packs, two values of one trait, one file name, two activations, one request of each other kind at a time, five in all, and a trait that only the node named: traits won have pictures, no picture lacks its object, one value active, cached pictures fit | 3,026,409 |
| `tokens_minted_again` | the disagreement of section 5 | |

Bounds. `MaxLog`, `MaxNonce`, `MaxTime` and `MaxResets` limit the
calls that run, the nonces signed, the clock and the resets of one behaviour.
Three calls and one reset suffice for a nonce to be used, set back and
presented again, with a rotation in between; two expiry times give each nonce
two different authorizations. In the NFT run four calls let a mint nest in a mint
with a trait update or a result, for a brand or for brand 0, before, inside or after either one. The trait keys are
the four base traits and a cosmetic one; the update writes one of each, to
values other than those of the mint. In the economy run the two purchases cannot both be
paid from the default XP, two openings can compete for one key and for one
trait, an event may be delivered twice, and a webhook may report 0.

In the runs of `WorkflowRuns` a poll may be of either kind, and one poll, the poller
and one retry are enough for each to hold stale what another has replaced. Age
counts the two limits of the poller only: past 20 minutes it gives up, past 24
hours it does not look. `runs` keeps the run under 24 hours (`MaxAge` 1), for
past them nobody settles it; `runs_retry` does not.

`action_queue` has two events for one wallet, so the mint of one may answer for
the other, and one exception or round cut off (`MaxTrouble`, `MaxCuts`), which may come at each query; an item has
two attempts, so it can fail for good. `action_queue_live` has one event and room for
every attempt of both its items to fail. `credits` counts two units to half a
credit and starts with five units: enough for a mint once, and the one unit that is left passes the check
for any positive balance before a mint that costs four; a payment is of three units, no multiple of a price, and a callback
may also take back one. `token_records` shares one contract between the
brands, the case in which ids could clash; two mints may be for one holder or for two.
`portal` has two calls, the least for one to end the other's `inFlight`, two failures
or foreign requests and two moves. In `trait_images` the two values are of one trait
name, the second pack is there to be switched to, and uploads of one file name meet in one object. Five
requests may begin (`MaxBegun`): an upload, a save and an opening make a prize, and two are left to upload, activate or
render beside them. `MaxNamed` is one trait that only the node named. Page and server models that share a run share no variable: `side` picks one of them in
the initial state, and each is in a single initial state beside the others. `RunsPage` has two runs,
two requests and three moves (a visit, a retry, a failure, or any other three), the least to have the answer
for one run arrive while the panel is about the other, after a retry. `TopUp` has two
submissions, one amount that may be bought and one above the limit, and two ticks, so that
an authorization can run out before it arrives. `NftPages` has two packs, two contracts, two requests and two
counted events, enough for each tab to hold a copy the other has replaced. The theorems of section 4 have none of these limits.

Requests that differ in name only are symmetric in the safety runs; runs with a
liveness property use no symmetry. Deadlock is not
checked where the program may be at rest: all the requests are answered, or the
bounds are used up.

Fairness.

* `WorkflowRuns`: a poll is a loop, so its steps are weakly fair, and
  since the clock runs while it loops, giving up is strongly fair. `setInterval`
  calls `pollOnce` again and again, and time passes (`GrowOld`).
  `PollingEnds` in addition assumes that the node answers the poller time and again
  (strong fairness of `PollerFetch \/ PollerTimeout`): a request that throws skips the run before its age is looked
  at, so a node that is down for good keeps a run open. Neither the node's
  progress nor mining is fair. Without
  retries the first settled status may be overwritten by a stale one, but
  the poller comes back: that is what `PollingEnds` shows.
* `LootEconomy`: weak fairness of the continuation of every request
  that has started. Node's event loop and the database get to each query in the
  end, since the lock guard of a step is only false while another transaction is
  in progress and that one must end. No arrival is fair: nobody has to buy, open
  or deliver anything.
* `ActionQueue`: weak fairness of each loop, which `setInterval` calls again and
  again, and strong fairness of `TakeItem`, since the back-off of an item ends.
  Nobody has to deliver or mine, and the route need not go on.
* `PortalSession`: requests are answered or fail, React runs the effect of the
  gate. Failures and other tabs are bounded, for a user who is refused for ever
  is never let in.

The page modules state no fairness: nothing they promise is about an end.

If `UpsertLocks` is `FALSE`, `NoOverspend` and `PurchaseKeepsTotal` do not
hold: two purchases find the same XP, and both commit. That rests on the query
Prisma generates, which is not in this repository, so it is no finding; a
conditional update, as the opening has, would make it independent of that.

## 4. Proofs

Checked by `tlapm` on the eight modules named `...Proofs`, from the assumption on the
constants that each module names (`TargetBaseAssumption`, `NFTAssumption`,
`EconomyAssumption`, `RecordsAssumption`, `RunsAssumption`, `RunsPageAssumption`,
`QueueAssumption`, `CreditsAssumption`, `TopUpAssumption`, `NftPagesAssumption`,
`PortalAssumption`, `ImagesAssumption`): bounds are naturals, prices and quantities
positive, names that stand for "none" are not among the real ones (for `NftPages` that is
to say that `null` is neither an id nor a settings object). Two of them ask for finite
sets where a theorem counts: the entries of a loot table (`Traits`), and the brands and
wallets of `TokenRecords`, where `join` counts the members of a brand; tables have finitely
many rows. Every invariant and every action property of the passing runs is a theorem, two of
them (`NoOverspend`, `PurchaseKeepsTotal`) under `UpsertLocks`, as in the run.

TargetBase, in this order:

1. `TypeCorrect`.
2. `UsedIsLoggedAlways`: the replay table is the set of hashes in the log. It
   is inductive with the types, for nothing but `VerifyAuthorization` changes
   either.
3. `NoReplayAlways`: a hash that runs is not in the table, hence by 2 not in
   the log. This does not use the nonces, which is why resets do no harm.
4. `SequentialNoncesAlways`. It is not inductive: it says nothing of the stored
   nonce. `NonceBound` adds that, in the current epoch of an account,
   every nonce used is below the stored one and all between are used.
5. `Refinement`: each step is a step of `OneTimeAuthorization` or a stutter;
   that `Run` is possible at all needs 2.

QuestProgressNFT:

1. `RefinesTargetBase`: every step is a step of `TargetBase` or leaves its
   variables alone. With it, the theorems of `TargetBaseProofs` hold of the
   contract (`P == INSTANCE TargetBaseProofs`), as `NFTNoReplay` shows.
2. `NFTTypeCorrect`, `OneTokenPerMintAlways`.
3. `MintStackAlways` with fresh ids: the ids in progress are different, handed
   out, and have no brand, and an id not handed out has none either. This is
   inductive and is the reason the callback does no harm.
4. `ResultsMatchBrandAlways`: a result of a brand other than 0 ran on a token whose brand was set; such
   a token is not on the stack, so `FinishMint` never touches it. One of brand 0 ran either on
   a token that keeps brand 0, or before the end of the mint, which `mintedAt` records.
5. `BrandFixedAlways`, by the same argument.
6. `BrandFromAuthorizationAlways`, with `BrandsAuthorized`: not only the minted tokens but
   what each mint in progress is going to write is among the pairs of id and brand that the log
   authorizes (`Authorized`). Counting is confined to one lemma, `AuthorizedStays`: the log grows
   at its end, so the number of mints before an entry never changes.
7. `TraitsFollowLogAlways`, with `AllDerived` and `MintedBefore`. The property is about minted
   tokens and so says nothing in the middle of a mint, where a callback may already write. Traits
   outside the base follow the log from the first call on; the base follows it from the
   end of the mint, which replaces it. `MintedBefore` (`mintedAt` is never beyond the log) is
   why a call after the mint counts. `Written` and `NotWritten` say what one call adds.

LootEconomy:

1. `EconomyTypeCorrect`. That no balance becomes negative rests on the
   decrement being conditional, not on the check before it.
2. `KeysConservedAlways` and `XpAccountedAlways`, together `LedgerBalancesAlways`,
   for either value of `UpsertLocks`; the runs take it to be `TRUE`. Both need `MissingIsEmpty`, that a missing row counts as one
   without keys and without XP spent, for `ShowWrite` makes a fresh row.
3. Under `UpsertLocks`, `RowAsReadAlways`: a purchase in progress holds the
   lock of the row, so what it read is what the row says. It is inductive with the
   types, and there is at most one such purchase.
4. `NoOverspendAlways` and `PurchaseKeepsTotalAlways` follow for the one step that
   matters, `BuyCommit`.
5. `EntriesExplainedAlways`, in three parts. `AuditCompleteAlways`: one row more adds keys that no
   other row shows (`OneMoreRow`, `DisjointSum`), as many as were credited. `CreditedOnceAlways`,
   with `OneDelivery`: an event without an audit row was credited by nobody, one with a row by a
   single delivery, which is what the unique `webhookEventId` is for. `UnlocksPaidAlways`, with
   `DrawsBounded`, `UnlockedByCharged` and `PaidFor`: a draw is bounded before it is charged, and
   a union is no larger than its parts, even if two openings drew the same trait.

TokenRecords, for any number of requests, brands, wallets and runs. Lemma `HandlerSteps`
says once what a step of a handler can be (it starts, looks, is answered, submits, writes or
ends), and `ChainSteps` what the runs do; the other lemmas go by these cases.

1. `RecordsTypeCorrect`.
2. `RecordsGenuineAlways`, with `RecordsInv`. The tables are as true as what the handlers
   are about to write, so `AllBacked` says of every request, at every query, that the token it
   holds belongs to its holder, and which tables have it already; `RowsBelong` says it of the
   rows, `DemoUnmined` that in `DEMO_MODE` no run has a token. `LedgerLast` needs that a request
   which comes to the ledger has written the other three. `RecordsGrow` is why nothing stale does
   harm: no table loses the token of a holder, and no mint is undone. That the two
   routes agree needs counting (`OneMintOneToken`): one mint, so one token that is genuine.
3. `NoSharedTokenAlways`, with `Numbered`: on a shared contract, tokens minted by different
   runs have different ids. In `DEMO_MODE` the digests differ.
4. `OneOpenMintAlways`, with `DecidersSawNone`: while somebody is between its look and its
   submission, no mint of that holder is open, or the overlap has been noted.

WorkflowRuns, for any set of polls and of retries:

1. `RunsTypeCorrect`.
2. Lemma `Final`: what can be known of a submission is for good. Sent,
   failed or refused, known to the node, in a block: none is taken back.
3. So whatever was read or answered stays true however late it is used. The
   inductive invariant `AllHonest` says just that of everything anyone holds:
   the row, each poll, the poller with the row it saw, each retry. The three
   properties are not inductive without it, since each write copies from such a
   record. `Begun` adds that nobody is at work before there is a row.
4. `SuccessIsReportedAlways`, `HashesRealAlways` and `FailedIsRealAlways` follow
   from `AllHonest`.

RunsPage, for any runs and numbers of requests: `PageTypeCorrect`; `SucceededForRealAlways`,
with `HeldIsReal`, which says of the rows, the cache, the list on its way, the panel and each
answer under way what the property says of what is shown, and which is kept because a success is final
(`SuccessFinal`); `PanelOfOneRunAlways`, with `PanelFollows`: not only what the panel shows but every
request that will write to it is about the run chosen, or the route went on.

ActionQueue, for any numbers of events and servers:

1. `QueueTypeCorrect`. Types alone are not inductive: `TakenItem` and a workflow
   are looked up by indices that a loop holds in memory. `QueueOK` adds to the types
   of tables, chain, events and counters that the row of each action loop `Fits`:
   its item is in the queue, its workflow was submitted, its token is on chain, as
   far as its program counter says. Queue, workflows and tokens only grow, so what fits
   goes on to fit whatever the other loops do (`FitsStill`).
2. `TokensRealAlways` follows: a token comes to a table from a row that fits.
3. `EnqueuedInOrderAlways`. A reward is created in another step than the mint
   before it, so `OrderOK` adds to the property that each event loop is
   `Prepared`: if it is past the mint of an event without a token, that mint is in
   the queue. Items are never removed and never change type, event or order.
4. `QueuedOnceAlways`. `CreatesNew` adds that an event loop which is about to create an item
   has none in the queue yet. This is so only with one server: two may
   look before either creates, and the property says `OneServer`.
5. `KeysNotInventedAlways`. What is mined is a value signed from a count read earlier, so
   `KeysBacked` says of every value, in a loop or in a workflow, that it is at most one more than the
   rewards of the token that are mined by now. These only become more (`RewardedGrow`), so a stale
   value is too low at worst; `MineBacked` is the step at which it is put to use.
6. `ItemsAccountedAlways`, in three parts. `CutOffInv`: items that run and are held by no loop are at
   most as many as the `cuts`; a loop holds at most one, and none between two items (`BetweenItems`), so a
   stop or a broken round adds one. This is for any number of servers. `WorkInv`: an item that is worked on is RUNNING,
   and a loop that comes to its end has what the item is for, a token that is recorded or a workflow
   that was submitted (`Worked`). `MintsInv`: mints are at most
   the failures and cuts, and one more only if the wallet has its token or a mint is
   being waited for (`Spent`). The last two are for one server, since two may act on the same
   item: nothing claims it between their reads.

SponsorCredits, for any numbers of requests, callbacks and payments:

1. `CreditsTypeCorrect`.
2. `NoCreditFromNothingAlways`, with `BasesPaid`: what a request remembers is at most what
   was paid, so no stale write is more than that.
3. `OwesLessThanMintAlways`, with `AllCovered`: what a request remembers, with what was taken back, covers
   what it has still to charge, by the check it went through, up to something less than a mint
   (`AtWorst`). This is for any amounts and any unit: a balance of one unit passes the check of
   `join`, and a mint leaves it one unit short of owing a whole one.
4. `ExactUnlessOverlappedAlways`, with `Exact`: without an overlap, what a
   request remembers is what the column says.

TopUp, for any number of submissions: `TopUpTypeCorrect`; `PaidAsSignedAlways`, with `TopUpInv`.
Its parts are the reason why a route that keeps no list of nonces pays each once: what is sent was
signed by the wallet for that submission (`SentSigned`); once the route has paid, the
submission's call is on its way back with an "ok" or has arrived, and from there nothing sends it
again (`PaidIsOver`), for only a refusal is repeated, and a refusal comes before the payment.

NftPages, for any packs, contracts, settings and numbers of requests:

1. `NftPagesTypeCorrect`. The types of the requests are one set for each kind, so that a
   handler is known to find what the step before it left.
2. `SettingsKeptAlways`, with `SettingsInv`. The property holds of a brand with settings; before
   there are any, `KnownExist` says that nobody holds a copy of some or sends a pack to activate.
3. `ShownOfSelectedAlways`, with `InOrder`: while nothing overlaps there is one request about
   assets (`Alone`), it is about the selected pack and its answer is still true
   (`AboutSelected`), and between requests the page shows what the pack holds (`ShownKept`).

PortalSession: `PortalTypeCorrect`; `BrandSessionOwnedAlways`, since every write of a brand
portal is behind `Allowed` with the brand that is written, stale or not;
`ServedOwnedAlways` from it; `GateIsAnsweredAlways`, which needs that `inFlight`, if
set, names a call under way; `QuietTabAgreesAlways`, with `CopyOfRow`, which speaks of a
tab with a call under way as well: as long as nothing was mixed up there is one call, and
what it was told last is the row.

TraitImages: `ImagesTypeCorrect`; `CachedPictureFitsAlways`, with what each
rendering holds in memory; `PrizesPicturedAlways`, with a row for each trait of the loot table, of every
save past its check and of every opening, an object for every row, whoever unlocked the trait, and because rows and objects are never
taken away; `OneValueActiveAlways`, with `OneWriter`: without an overlap one
transaction writes at a time, and what it will commit has one value of each name so far, but
for the trait it is at.

Model-checked only: the liveness properties `RequestsEnd`, `PollingEnds`, `QueueDrains` and
`GateOpens`, since liveness under fairness and `ENABLED` are outside what the installed
provers do. Induction over data is as well; no theorem needs it, since what is counted
(`Cardinality`) changes by one step at a time, which the theorems on finite sets cover. No module
has a `RECURSIVE` operator. `EnsuresOne` is violated, see section 5.

## 5. Findings

One run must end in a violation; `PROJECT.json` quotes the line.

* `EnsuresOne`: outside `DEMO_MODE`, `ensureBaseNftMinted` submits a mint and
  returns, and nothing records the token when the run succeeds. The next call
  finds no token and no pending run, and submits another mint.

What the models let happen because the code does it, and no document says
otherwise (or only in general terms), is listed here instead of being a run:

* A total of 0 from Zealy is taken for "no total yet" and replaced by the demo
  default (`me.ts:60`). The webhook writes the XP earned and a purchase the XP
  left to the same legacy column (`zealy.ts:217`, `me.ts:1005`).
* Two openings that overlap may draw the same trait: the second pays and unlocks
  nothing new. If the workflow cannot be submitted, the keys stay spent.
* A webhook event whose handling failed is on record, so its redelivery is
  answered with ok; the worker picks it up if it was left as received. Route and worker may
  both act on one event, and the last one's status stays.
* Two retries of one failed run both submit it. A change of the active traits is
  applied by the poller alone, so a request's poll that settles the run first
  leaves the database as it was. An older run that succeeds later overwrites a newer one's traits.
* Two server processes may queue an event's item twice (`QueuedOnce` is for one),
  an item that was running when its server stopped, or whose failure could not be written, stays RUNNING, and two rewards
  that read the same key count set the same value: one is lost.
* Overlapping writers of the credits lose top-ups and charges; a callback
  delivered twice credits twice, and one that states a negative amount (`billing.ts:34`) takes
  credits away. A tenth of a credit is enough for a mint that costs one. `runUpdateXpAction`
  would charge without any check, if something created its items.
* A result of brand 0 that runs in the callback of a mint stays on a token of another brand.
* The traits that a node's answer names are unlocked by the poller without a look at what was
  drawn or at the layers: such a trait may be set active and have no picture.
* `join` records a number of its own as the token. Outside a shared contract two
  brands may give the same id, and the row of `token` is that of the later one.
* A selection without a brand that races another loses the brand; the owner portal that is
  inferred when there is no row may overwrite a selection made meanwhile; a gate
  closed by another call of the tab stays closed until the page changes.
* A cached picture is not renewed when a layer is uploaded later. Images of kind
  "state" make a trait eligible for the loot table but are not composed. Uploads
  of one file name share an object. In `DEMO_MODE` two activations that overlap may leave two values of one
  trait on.

* The route of x402 wants its payments on `eip155:84532`, while the page has the wallet sign for
  chain 11155111; the page looks for `maxTimeoutSeconds` inside `extra`, where the server does not put
  it, so an authorization is valid for 900 seconds in place of 600. The route does not look whether an
  authorization was used before.
* A run panel reached from the list has no status, so that it neither polls nor offers a retry; one reached from
  another run by the browser's history has. *Verify now* calls a route that does not exist. When the session ends while the packs are listed after one
  was made, the pack stays selected and is shown empty.
* `GET /me/balances` shows 0 XP to a wallet without a ledger, `GET /me/xp` the demo default.

Some properties except a case because the code does go wrong there. Each exception is a history
variable or a condition in the property, and what it excepts is not claimed:

| property | claims nothing |
|---|---|
| `ResultsMatchBrand` | of a result of brand 0 that ran before the end of the token's mint |
| `ExactUnlessOverlapped` | once a write came between the read and the write of another (`overlapped`) |
| `OwesLessThanMint`, `NoCreditFromNothing` | of what callbacks take back (`takenBack`), or of whether what they add was paid (`toppedUp` counts a second delivery as well) |
| `FailedIsReal` | of a run given up by age or by a poll, or whose answer was lost (`gaveUp`) |
| `PollingEnds` | if the node stops answering the poller |
| `QueueDrains` | that an item left RUNNING by a round cut off is ever finished |
| `OneOpenMint` | once two requests looked before either submitted (`overlapped`); `EnsuresOne` shows one way it goes wrong |
| `OneValueActive` | once two transactions of `DEMO_MODE` overlapped, nor which of two values wins |
| `SettingsKept` | of a value that a page sent after the other tab had replaced it (`putBack`) |
| `ShownOfSelected` | after requests about assets overlapped or failed (`crossed`, `missed`) |
| `PanelOfOneRun` | after the route went on while a request for another run was under way (`overtaken`) |
| `QuietTabAgrees` | after calls of the tab ran at once or another tab wrote the row, until a call confirms the row alone (`mixed`) |
| `PaidAsSigned` | of clients other than the page: the route checks the format of a signature, not its signer |

And some hazards are within the models and break no property: a charge whose workflow was not
submitted keeps the books of `LootEconomy` balanced, a reverted transaction is taken for a success, and
whether a receipt can be decoded is left open in `TokensReal`, as are collisions of digests in `NoSharedToken`,
which takes them not to occur.

## 6. Not modelled

* `apps/web` but for the portals and the pages of 2.10 to 2.12: forms, lists, previews and layout. What such
  a page keeps is a copy of what one request returned, with no protocol of its own; this,
  and the rest of this list, is why a good part of the repository has no entry in
  `map`.
* The parts of `routes/brands.ts` and `routes/me.ts` that create, list and
  validate campaigns, quests, rules and configurations: one query each, without a
  step that depends on an earlier one.
* Templates, encoders, signatures, trait keys, the format of x402 headers: conversions of
  bytes and JSON without state. The contract models begin with what was signed.
* The row of the bootstrap; ERC-721 transfers and approvals; start of the server;
  migrations; scripts.

What could come next, in this order: `TokenRecords` composed with `WorkflowRuns`
so that the runs' outcomes are those of the polls; status of events and quests in
`SponsorCredits`; several wallets in `TraitImages`; an abstract specification of the queue
that `ActionQueue` implements.
