# Verification of the Zynost payment gateway backend

TLA+ models of the gateway's own logic, TLC configurations that check them on
small instances, and TLAPS proofs of what matters most for every size. The
source is `src/`; every definition that models code is listed in
`PROJECT.json` under `map` with the lines it stands for.

## 1. The system

A non-custodial payment gateway. A merchant's server creates an **order**; a
customer pays stablecoins to an address; a background **poller** sees the money
on chain, marks the order paid, calls the merchant's webhook and pushes a
notification. The service never moves money.

| Part | Code | State | Operations | Interacts with |
|---|---|---|---|---|
| Settlement | `merchant_service.py` `poll_pending_orders`, `deliver_webhook`; `payment_check.py` `check_solana_payment` | `merchant_orders` rows, the Solana watermarks on `merchants`, the session's copies of both | one pass: load, expire, read EVM, read Solana, claim, webhook, push, commit | chains, webhook receivers, push, the database session |
| EVM payment check | `payment_check.py` `check_evm_payment`, `build_evm_providers_for_chain` | none of its own | read token after token, chain after chain, until one covers the order | RPC consensus; called by the pass |
| RPC consensus | `rpc_consensus.py` | per-provider breaker and token bucket (module scope, shared by the chains, outliving requests), the votes of a round | query a provider, retry, count votes | RPC providers |
| Merchant row | `create_order`, `_reserve_next_evm_index`, `_ensure_billing_cycle_current`, `set_billing_mode`, `regenerate_webhook_secret`, volume in `poll_pending_orders` | one `merchants` row: index, order count, mode, pending mode, cycle end, volume, plan, webhook secret; PostgreSQL's row lock | create an order, change mode, rotate the secret, credit volume | requests and the poller, through separate sessions |
| Push devices | `push_notification_service.py`, `device_token.py` | `device_tokens` | register, unregister, send, prune | Firebase; **the poller's session**, which its prune commits |
| Derivation | `bip32_lite.py`, `wallet_derivation.py` | none in the gateway but the merchant's xpub | validate an xpub, derive an address; the wallet's side: derive a private key, export an xpub | `create_order`; the merchant's wallet, by way of the xpub and of the money |
| API keys | `generate_api_key`, `matches_current_or_grace_period_key` | two hashes and the end of the grace (the rotation that writes them is not in the repository) | match | requests |
| Core, wallet metadata, tables without code, CI script | `core/`, `wallet_connect_meta`, `models/`, `scripts/` | – | – | – |

What is hard here:

* **One session, one late commit.** A pass changes objects in memory for many
  orders and merchants, awaits the network dozens of times, and commits at the
  end. Anything outside (webhook, push) has happened long before. A push that
  prunes a dead token commits the *same* session in the middle; a push that hits
  a database error leaves the session unable to commit, and is swallowed.
* **One Solana address for all orders of a merchant.** A watermark separates
  what earlier orders claimed from what is new. It moves in memory from order to
  order, is kept or lost with the pass, and never moves down.
* **Copies of a row.** Requests and the poller load the merchant's row, decide on
  their copy, and write the columns they changed as absolute values. Only the
  derivation index is incremented in the database.
* **Unreliable readers.** RPC providers are slow, wrong, behind or silent, the
  balance changes while they answer, and what a chain's failures do to a
  provider's breaker and bucket the next chain finds there.
* **Look, then write.** A registration looks a token up and writes in a later
  statement; a push deletes, after minutes of awaits, rows it selected at first.
* **Two halves that never meet.** The gateway derives public keys, the wallet
  private ones; nothing in production compares them, and a disagreement at one
  index shows only as money nobody can spend.
* **Time.** Deadlines are judged by the instant a pass began; cycles roll over
  lazily, when somebody happens to look.

What makes each part correct:

* Settlement: one payment settles one order; claims are backed by money received;
  an order and its claim are kept or lost together; deadlines; a merchant is told
  once unless a pass is lost; a settled order is final; no order pends for ever.
* EVM check: a match is a balance the address had, in the units of the token
  read; a check that finds nothing skipped nothing; it ends.
* RPC consensus: a reached balance is true; a faulty minority neither invents nor
  hides one; breaker and bucket bound what a provider is asked.
* Merchant row: indices unique; count, volume and mode exact; the cap kept; the
  last secret in force; no checkout waits for ever for the row.
* Push devices: one user per device: the last registrant, or one who registered it while
  that registration was under way; only dead rows pruned.
* Derivation: each address is that of the private key the wallet comes to at that
  index; an index is refused only if the wallet has no key there either.

The list of hazards, each at its line with the properties that would catch it,
is in `PROJECT.json`.

## 2. The modules

    Settlement  <--- MCSettlement (instances)            <--- 5 runs
        |   ^
        |   +------- SettlementProofs <--- LedgerProofs, NoticeProofs
        v
    PaymentLedger (what settlement promises; INSTANCE with a refinement mapping)

    RpcConsensus <-- EvmPayment <--- MCEvmPayment        <--- evm_checks
        ^                ^
    RpcConsensusProofs <-+-- EvmPaymentProofs
        (RpcConsensus implements BalanceRead, what a read promises)

    MerchantAccount <--- MerchantAccountProofs           <--- 4 runs
    PushDevices     <--- PushDevicesProofs               <--- push_devices
    Derivation      <--- MCDerivation                    <--- derivation
        ^
        +--------------- DerivationProofs

### Settlement

The committed database (`row`, `consumed`), the session (`view`, `claimed`,
`poisoned`, and the loop's `pc`, `now`, `todo`), the chain (`balance`, `evm`) and
the merchant's end of the webhook (`received`). Every `await` of the loop is a
point between two actions, so customers, merchants, checkouts and the clock can
move there.

| Action | Code |
|---|---|
| `CreateOrder` | the order `create_order` adds (its index and quota are in `MerchantAccount`) |
| `EmptyPass`, `BeginPass` | `now`, the query, the early return, the load of the merchants |
| `ExpireOrder` | the test against `now` at the head of the loop |
| `EvmFound`, `EvmNotFound` | `check_evm_payment`: some token covers the order, or no token is known to |
| `SolanaFound`, `SolanaNotFound`, `SolanaUnavailable`, `LeavePending` | `check_solana_payment`, the claim and the watermark, `continue` |
| `WebhookDelivered`, `WebhookUnacknowledged`, `WebhookFails` | `deliver_webhook`: received and acknowledged, received but answered with an error or too late, not received |
| `PushSent`, `PushPrunes`, `PushBreaksSession` | `send_push_to_user` as far as the session can tell |
| `Commit`, `CommitFails`, `LosePass` | the commit at the end; a poisoned session or a failing commit; the process or its connection lost anywhere |
| `DepositSolana`, `WithdrawSolana`, `PayEvm`, `SweepEvm`, `Tick` | the world (external) |

Abstracted: an EVM read either finds a covering balance or does not (what makes
it so is `EvmPayment`); a chain and a token contract are one member of
`EvmTokens`; amounts are integers in a unit for which 99% is exact; a claim is
remembered on the row as the interval `from .. from + amount` of the watermark it
moved, which is not a column but makes "the same money twice" expressible.
Orders are numbered in `created_at` order. The billing columns that a pass also
writes are in `MerchantAccount`.

### PaymentLedger

What the merchants are promised, without a poller: a table of orders, each
opened, then closed once as paid or expired, and what has arrived at each
account. Orders settled on Solana own intervals of what the merchant received
in the asset, which do not overlap, leave no gap, and lie within what arrived.
It knows nothing of sessions, passes, watermarks, webhooks or crashes.

`ImplementsLedger` (in `Settlement`) is `PaymentLedger` with the committed rows for
`entry` and `deposited` for `arrived`. A pass that commits closes several orders in
one step of the ledger; a pass that is lost, and everything a pass does before a
commit, is a stutter.

### RpcConsensus and EvmPayment

`RpcConsensus`: all providers of the round's pool run `_query_one` at once (`step`,
`vote`), then the votes are counted. `Faulty` providers may answer any string the
validation lets through; the others return an encoding of the balance at the
instant they answer, and may time out, fail or answer for another chain at any
time. An honest provider that lags behind by a block has no class of its own: it
counts among the faulty. `Raw` is a set of strings as model data, `ValueOf` what `int(r, 16)` makes of
them; `NotANumber` is a string that validation lets through and `int` does not. A
pause is `Tick`. A tie between answers is broken either way, which no property can
tell apart as two tied answers cannot both be a quorum. A pool is a set of
provider *names*; `failures`, `openUntil`, `tokens` and `refilled` are kept by name,
as in the code, so two chains that use `ankr` share one breaker and one bucket.

`EvmPayment` composes rounds into `check_evm_payment`: `Check` is the call, `Call`
the next (chain, token) pair, over `PoolOf` its chain (which providers
`build_evm_providers_for_chain` yields under the configured keys), `Found` the
early return, `Continue` a pair without quorum or without enough. Its own
variables are `stage`, `at`, `want`, `match`; `missed` is history. `Scale` is the
token's decimals, per chain, which is where the code's table differs between
chains.

### BalanceRead

What a read of a balance promises the payment check, without providers, votes or
clocks: a register that may change under the reader. The read ends without a
value, or with one the register held during that very read, and the answer stays
until the next read. `ImplementsRead` (in `RpcConsensus`) is `BalanceRead` with
`phase = "round"` for `reading`, `seen` for `held` and `result` for `answer`; the
clock and all that providers do are stutters. Of the code's `ConsensusResult`,
`reached` and `value` are the outcome and the lists of providers are left out. An
`int` that raises is an outcome the register does not have, so the refinement
includes that it never happens.

### MerchantAccount

One row and the sessions that share it. `base[s]` is what session `s` loaded or
last flushed, `cur[s]` its attributes in memory; a flush writes the columns that
differ (`Written`) and takes the row's lock (`holder`), under which the row is
`work` until the transaction ends. `Reserve` is the flush and the single
`UPDATE ... RETURNING` of `_reserve_next_evm_index`; `AutoFlush` is the query in a
push that flushes the poller's session; `PruneCommits` the commit of its prune;
`RotateSecret` is `regenerate_webhook_secret`, the secrets being numbered in the
order of issue. `made`, `credits`, `credited`, `billed`, `crowded`, `overlapped`,
`staleRoll` and `rotations` are history: they change nothing (the numbers of
secrets and the bounds apart), and the properties compare the row with them.
Without overlap (`~overlapped`) no two sessions have ever been open together.
Left out: `volume_fee_paid_usd`, which nothing here writes but the rollover; the
Solana watermarks, which are `Settlement`'s, and so the lock their write takes on
the row of a merchant billed flat; the passage of a credit through `float` into a
`Numeric(14, 2)` (credits are integers here); and the time between a rotation's
issue of a secret and its commit, which are one step.

### PushDevices

`device_tokens` and the sessions that use it. `Look` is the SELECT of
`register_device`; `Update`, `Insert` and `RegisterFails` its later write, by row id,
under the column's unique constraint. `StartPush` selects a user's rows, `Send` is
one call of `_send_to_token` with Firebase's answer, `Prune` the DELETE by row id;
`PushRaises` is the swallowed exception, which leaves the remaining devices without
the push: pushes are best-effort (push_notification_service.py:10-13), so nothing
is promised of them. `Unregister` is one DELETE by token. `told`, `since` and `last`
are history: `since[s]` is who registered the token of `s` after `s` looked it up, and
`last[t]` the last registrant of `t` with those who overtook it in that way. Two
overlapping registrations may leave the row with either user, as the UPDATE
writes only what differs from the lookup; `LastRegistrationHolds` says that it never
stays with anyone before them.

### Derivation

The wallet and the gateway, who share an xpub. `StartWalk`, `Descend`, `WalkRaises`,
`Export`, `KeyDerived` are `derive_priv_path` and `ckd_priv`, level by level, and the
export of the account's xpub; `SetXpub` is `validate_evm_xpub`; `DeriveChange`,
`RefuseHardened`, `DeriveAddress` are the two `ckd_pub` of `derive_evm_address`. Every
error path of the Python is a disjunct: a hardened index, a key off the curve, a
child at infinity, an xpub damaged or of another version.

HMAC-SHA512 is a table filled in as it is asked (`hmac`): any digest for a new
query, the same one ever after, so the properties hold for every such function.
The curve is a parameter: a prime field, a cyclic group of points, `Plus` and the
multiples `Times` of the generator. The square root of `decompress_pubkey` is
computed as in the code, as a power. An address stands for the point it hashes
(Keccak and the hex form are abstracted). Base58, checksums and byte layouts are
the two facts the code acts on, `intact` and `version`.

## 3. The runs

| Run | Instance | What it shows |
|---|---|---|
| `settle_shared` | 1 merchant, 1 account, 2 orders of 100 or 200, transfers of 99 or 200, 2 transfers, 1 lost pass, clock 0..2, RPC failures | everything promised of settlement, in the rows, in the session and to the merchant (`ToldIsPaidFor`), with liveness and the refinement `ImplementsLedger` |
| `settle_chains` | 2 merchants (one without Solana), 2 Solana assets, one of them held in two accounts, 1 EVM token, 1 lost pass | claims stay per merchant and per asset, and what is claimed of an asset lies on one account (`ClaimsBacked`); an EVM payment claims nothing; a merchant is told once unless a pass is lost; every step of a pass brings its end nearer (`PassMovesOn`) |
| `crash_confirms` | as the first, one amount | **violated**: `ConfirmationsArePaidFor` |
| `fifo_mid_pass` | no RPC failures, no lost pass | **violated**: `FirstCreatedFirstClaim` |
| `withdrawn_balance` | one withdrawal | **violated**: `UnclaimedBalanceCounts` |
| `evm_checks` | 2 chains of one token each with different decimals; pools of 3 and of 2 providers sharing both of the smaller one's names, `ankr` faulty; threshold, burst and rate 1, cooldown 2, clock 0..2, 4 rounds (2 checks) | everything promised of consensus and of the check, with liveness, that each step brings a check's end nearer (`CheckMovesOn`) and the refinement `ImplementsRead` |
| `account` | 2 requests and the poller, cap 1, cycle 1, 2 orders, 2 credits, clock 1..2, the free plan or a pro plan that lapses at 2 | safety of the merchant's row: indices are unique under any overlap, the volume is exact unless a crowded session begins a cycle, count, cap and mode hold without overlap |
| `row_lock` | the same on the free plan with cap 2, at one instant, with 1 credit and 1 rotation of the secret | liveness: a checkout waiting for the row's lock gets it; the last secret stays in force |
| `quota_race` | a free merchant, cap 1 | **violated**: `QuotaKept` |
| `mode_race` | a new merchant | **violated**: `ModeGovernsCycle` |
| `push_devices` | 2 users, 2 tokens, 2 registering sessions, 1 push, 3 rows | everything promised of devices |
| `derivation` | the curve y² = x³ + 7 over 43 elements (31 points with infinity, prime order, 43 = 3 mod 4 as for secp256k1); digests 0, 1, 30 and 40; an ordinary and a hardened index; an exported xpub, one off the curve, one damaged, one xprv | everything promised of derivation |

Why the bounds are enough for the questions asked. Two orders are the least that
can compete for a payment, and every claim property is about pairs of orders. 99
and 200 against 100 and 200 give underpayment within the allowance, overpayment
that is left for the next order, one transfer that could pay two orders and two
that pay one. Clock 2 with lifetime 1 lets an order be created late, be in time
and expire. One lost pass is enough to separate what was told from what was
kept; more repeat it. In `account` a cap and a cycle of one put both orders on
either side of the cap, and of the rollover. With a breaker threshold, burst and
rate of one, four rounds reach every state of breaker and bucket, and the second
check finds what the first left of both. The pool of two has one faulty member
and a quorum of two, the pool of three a quorum without it. Three rows let a
token be removed and inserted anew under a push. The digests are no tweak, a
small one, the inverse of that one (a child at infinity) and one above the
order, which BIP32 would reject and this code reduces. Every bound is
a constant whose name begins with `Max`. Deadlock is checked in every run: the
world, or a new request, can always move.

### Fairness

* `Settlement`: `WF(Poll)` and `WF(Tick)`. The poll loop runs for ever and each of its
  HTTP calls has a timeout (webhook 10 s, FCM 10 s, RPC reads by the client's
  default), so that no silent server holds a pass. httpx applies the timeout to
  each connect, read and write and not to the call, and awaits of the database
  have none: the fairness supposes besides that no server sends a byte now and
  then for ever, and that the database answers. Nothing is assumed of customers, of
  merchants, or of any read ever succeeding. That an order ends nevertheless is
  due to its expiry. `MaxLost` makes lost passes finitely many.
* `EvmPayment`: `WF` of each provider's query and of the count of votes (each
  await has a timeout, with the same proviso, and `gather` returns when all are done), and of the
  caller's next step once its round has ended. `CheckEnds` is the discharge of
  what `Settlement` assumes of an EVM read.
* `MerchantAccount`: a session that holds the row ends its transaction
  (`WF(CommitOrder)`, `SF(EndPass)`), and PostgreSQL serves the waiters of a row lock
  in turn (`SF(Reserve)`). That a pass ends follows from the timeouts above.

### Statements the code does not keep

Five runs end in a counterexample, each to a statement quoted in `PROJECT.json`:

1. `crash_confirms`: "preventing one real payment from satisfying multiple orders"
   (README.md:59). The webhook precedes the commit. If the pass is lost in
   between, the next one may give the same money to another order and confirm it.
   What *is* kept, in the database, is `OnePaymentOneOrder`, proved below.
2. `fifo_mid_pass`: "whichever order was created first gets first claim"
   (merchant_service.py:270-273). A transfer that lands after the older order was
   read and before the younger one is goes to the younger.
3. `withdrawn_balance`: "only genuinely NEW, unclaimed balance can satisfy the next
   one" (models/merchant.py:74-76). After a withdrawal, money that is new and
   unclaimed does not count until the balance has passed the watermark again.
4. `quota_race`: the free plan's cap (merchant_service.py:197-198). Overlapping
   checkouts read the same count.
5. `mode_race`: "never applied immediately once a cycle is already underway"
   (merchant_service.py:157-158). The decision is made on a stale copy.

A sixth is visible in the model and has no run of its own. "A push failing must
never block or fail the real action that triggered it (a payment confirming)"
(push_notification_service.py:10-13): a database error in a push
(`PushBreaksSession`) is swallowed there, but the pass can no longer commit
(`CommitFails`), so its payments are not kept, although their webhooks have gone
out; a later pass has to find them again, and may not, as in 1.

For 4 and 5 the runs of `account` check the same statements without overlap
(`QuotaKeptAlone`, `ModeGovernsCycleAlone`), so the counterexamples are due to the
overlap and to nothing else.

## 4. The proofs

All for any number of orders, merchants, accounts, assets, chains, pools,
providers, sessions and devices, any curve and any bounds; the assumptions are
the named `ASSUME`s of each module (TLC evaluates them on the instances).

**SettlementProofs.** `TypeCorrect`; `SessionCorrect`; then `OnePaymentOneOrder`,
`ClaimsBacked`, `SettledIsFinal` and `PassMovesOn`. No invariant is inductive: a commit copies the session
over the database, so the session must already be sound, and relate to the
database it is about to overwrite.

* `SessionInv` says how the two agree: the session holds orders as they are in the
  database unless this pass has settled or expired them, the order being
  notified is one the pass settled, and outside a pass nothing is held.
* `StepKinds` sorts every step into few kinds by what it does to rows and
  watermarks (nothing; a new order; a claim; a commit; a loss), so the claim
  invariant is proved once per kind.
* `ClaimInv`: every claim lies below the watermark and claims are disjoint, in the
  rows and in what the pass would commit. A new claim begins at the watermark
  and ends at the new one, hence overlaps none.
* `BackedInv`: each non-zero watermark is within 1% of one order's amount of what
  some account received. The tolerance is not compounded because a new claim
  compares the *whole* watermark with the balance again.
* `PassMovesOn` (theorem `PassesEnd`): `StepsLeft`, four steps for each order still to
  do less those taken for the first of them, falls with each step of the poller,
  and only those change the session. It uses that what is left to do is a finite
  set.

**LedgerProofs.** `PollerImplementsLedger`: initial states are ledgers, and every
step is a ledger step or a stutter. It rests on `ViewInv` (a copy in the session
is the database's row, or that row closed) and on `LedgerInv`, which strengthens
the claim invariant to the gapless, backed intervals of the ledger, for the rows
and for what the pass would commit: the last claim of a merchant in an asset ends
at the watermark, so the next one leaves no gap.

`WatermarksAddUp`: each watermark *is* the sum of the amounts of the orders paid
from it (`WatermarkIsSumOfClaims`), in the database and in what the pass would
commit. The sum is the community modules' fold over a set, a `CHOOSE` of a recursive
function, and the provers do no induction over data. The lemmas do without it, by
the smallest counterexample: if a set of orders had no sum function, or two that
differ, there would be one of least cardinality (`SmallestSet`), and taking an
element from it gives a smaller one. They end in `AmountSplits` (the amount of a
set is that of one member and of the rest), `AmountDepends` (it depends on the
members' amounts only) and `AmountOfPart` (a part has no more than the whole). That
is all the invariant needs: a claim adds one order and its amount to the two
sides, a commit copies both sides, a loss drops both.

**NoticeProofs.** What a row says of time and of the merchant: `DeadlineKept`,
`NoticesBounded`, `DeliveredIsTrue`, `ToldIsPaidFor`. `NoticeInv` says it of the rows and of what the
pass would commit, that the order being read is not overdue by the pass's own
`now`, and that no order has been announced by this pass before its webhook: so a
merchant is told once, and once more for each pass lost after telling.
`ToldWasPaidFor`: while no pass has been lost, the orders a merchant was told of
are among those paid in the rows or the session, so their amounts are a part of
the watermark (`WatermarksAddUp`), and the watermark is backed within one order's
allowance (`ClaimsAreBacked`). It is the promise that `crash_confirms` shows a lost
pass to break.

**RpcConsensusProofs.** `RoundsAreReads`, the refinement `ImplementsRead`: a query is
a stutter, and the count of votes ends the read as the register would, because of
`VoteInv`. `TypeCorrect` (with "no bucket was refilled in the
future"); `ReachedIsTrue` from `VoteInv` (the vote of a provider that is not faulty is
an encoding of a balance of the round) and a counting lemma, that a quorum has a
member that is not faulty; `AskedWithinRate` from `RateInv`, the conservation law of
the bucket: tokens left plus queries begun never exceed the burst plus what was
refilled by then. `FaultyCannotVeto`: where a quorum is left without the faulty
ones and all of it answers one balance, the count reaches it. `DeadProviderRarelyAsked`
from `DeadInv`: each time the breaker lets a dead provider be asked again, a
cooldown has passed since the last failure that opened it.

**EvmPaymentProofs.** `ChecksAreRounds`: a behaviour of the checks is one of the
rounds, so what is proved of rounds holds of checks over any chains that share
providers. `MatchIsTrue` and `PaidIsFound` from an invariant that ties the round
under way to the pair being read, and `missed` to the pairs before it.
`CheckMovesOn` (theorem `ChecksMoveOn`): each step of the check or of a provider asked
shortens what is left of it (the pairs to read, and in the round what each
provider still has to do), and nothing else lengthens it. The queries are counted
by the sets of providers that are ready, or at their first or second attempt.

**MerchantAccountProofs.** `TypeCorrect` with `Indexed`; `UniqueIndex`;
`CountIsTrueAlone`, `QuotaKeptAlone`, `ModeGovernsCycleAlone`; `SecretIsLastIssued`;
`VolumeIsTrue`. `Indexed`: only the lock's holder has an index
not yet committed, it is above every committed index, the holder's version of the
row is never behind the committed one, and no session has changed the index
column itself, so that a flush never writes it. `CountIsTrueAlone` rests on `Alone`:
the one open session knows the row it will write on, and its copy has either the
row's count and cycle or a later cycle and no count; the quota needs besides that
a copy past the test has room for one order more, and the mode that a copy's mode
is the row's as long as its cycle is. `SecretIsLastIssued` needs
that no session's copy differs from what it loaded in the secret's column.
`VolumeIsTrue` is about sessions that do overlap. `VolumeInv`: unless a crowded
session has begun a cycle, every open session still knows the cycle the row is
in; the poller's copy has the row's volume and what it has credited since; a
request leaves the volume alone, or begins a cycle with none. Two sessions open
together are both crowded, which is why a commit that begins a cycle finds nobody
else to mislead.

**PushDevicesProofs.** `TypeCorrect`, `DevicesHaveOneUser`, `LastRegistrantOwns`,
`OnlyDeadPruned`, from one invariant (`InvCorrect`): row ids are handed out once, so
a row found by a stale lookup is the same device or gone, and if it has another
user by now, that is one who registered it since the lookup (`FoundIsCurrent`), so
the user a write leaves in the row is its own or one of those; what a push was
told is dead is among the ids it selected.

**DerivationProofs.** `WatchOnlyIsSound`, `WatchOnlyIsComplete`,
`NoAddressOffTheCurve`, for every curve whose points the generator generates
(`GroupAssumption`), every field in which the code's power is a square root
(`RootAssumption`) and every HMAC (`DigestAssumption`). The invariant ties each node of
the wallet, and each address, key and refusal of the gateway, to HMAC's table.
`ChildrenAgree` is the algebra: the public key of a private child is the public
child of the public key, reduction by the order included. `SidesMeet` applies it
twice. The table makes it sound: both sides asked the same two questions.

**Only model-checked.** The liveness properties `EventuallySettled`, `CheckEnds` and
`CheckoutsGetOn`: fairness and ENABLED are beyond the prover. Of the first two the
safety half is proved, that every step of a pass (`PassMovesOn`) or of a check
(`CheckMovesOn`) brings its end nearer; that the next step is taken is the fairness
of section 3. Every invariant and action property of the passing runs, and both
refinements, are proved.

## 5. Assumptions and what is not modelled

* One poller. The loop that calls `poll_pending_orders` is not in the repository,
  and two of them over one database are outside the model.
* The merchant of an order exists (foreign key), so `merchant is None` never holds.
* Distinct derivation indices give distinct EVM addresses in `Settlement`, where an
  order's EVM balance is its own. `Derivation` shows each address spendable, not
  that they differ: that is a property of HMAC.
* An xpub is set once in `Derivation`; what orders given under an earlier one are
  paid is the business of that one's wallet.
* Read committed isolation, an UPDATE of changed columns, autoflush before a
  query, no expiry on commit: SQLAlchemy's and PostgreSQL's documented defaults
  and the settings of `core/database.py`. They are marked external in the map.
* Requests commit after `create_order`, `set_billing_mode` and
  `regenerate_webhook_secret`, as their docstrings say; a refused checkout commits
  nothing.
* Not modelled: API keys (`matches_current_or_grace_period_key` is a pure predicate,
  and the rotation that writes the columns it reads is not in the repository);
  webhook payloads and their signature; Base58, Keccak and byte layouts; formatting
  and logging; settings; wallet metadata; billing tables that no code uses; the CI
  script.

## 6. Plan

The modules, runs, abstract specifications and refinements planned at the start are
done, and so are the proofs within the prover's reach. What remains of the
repository either has no state that changes (API-key matching, settings, wallet
metadata, the signature of a payload), or no code (the rotation of API keys, the
invoices and change requests, which are tables only), or is a script of the CI. If
the loop around `poll_pending_orders` or those handlers are published, the next
steps are: two pollers over one database; the payment of the volume fee at the
end of a cycle; the grace period of a rotated API key under overlapping rotations.

## 7. Running

    tlc -config SettleShared.cfg MCSettlement.tla
    tlc -config EvmChecks.cfg MCEvmPayment.tla
    tlc -config MerchantAccounts.cfg MerchantAccount.tla
    tlc -config PushDevices.cfg PushDevices.tla
    tlc -config Derivation.cfg MCDerivation.tla
    tlapm SettlementProofs.tla

`PROJECT.json` lists for every checked property a mutation of the model, in the
shape of a plausible bug, under which TLC finds the property violated. The mutated
definitions stand in the modules as operators commented "Variant", before the
definition they replace.
