----------------------------- MODULE Settlement -----------------------------
(***************************************************************************)
(* The settlement of merchant orders by the background poller              *)
(* poll_pending_orders (merchant_service.py), with the chain reads of      *)
(* payment_check.py, the webhook, the push notification and the database   *)
(* session that all of them share.                                         *)
(*                                                                         *)
(* One pass of the poller works on objects loaded into one session: what   *)
(* it changes is in memory until a commit, and every chain read, webhook   *)
(* and push awaits the network, so customers pay, merchants withdraw,      *)
(* orders are created and time passes between any two of its steps.  The   *)
(* process may be lost at any of them.  There is one poller.               *)
(*                                                                         *)
(* Money is counted in whole hundredths of a unit large enough for the 99% *)
(* rule to be exact; the model never rounds.                               *)
(***************************************************************************)
EXTENDS Integers, FiniteSets, FiniteSetsExt

CONSTANTS
    MaxOrders,      \* bound: orders created, numbered in created_at order
    Merchants,      \* merchant rows
    Assets,         \* stablecoin mints accepted on Solana
    Accounts,       \* SPL token accounts
    AssetOf,        \* AssetOf[h]: the mint account h holds
    AccountsOf,     \* AccountsOf[m]: the accounts owned by m's payout_solana_address
    EvmTokens,      \* (chain, stablecoin contract) pairs checked on EVM
    Amounts,        \* amounts an order may ask for
    Transfers,      \* sizes of on-chain transfers
    Lifetime,       \* _ORDER_LIFETIME, in clock units
    SolanaMayFail,  \* whether the Solana RPC is ever unavailable
    MaxClock,       \* bound: the last instant
    MaxTransfers,   \* bound: transfers made by customers
    MaxLost         \* bound: passes whose session is lost

Orders == 1..MaxOrders
EvmPaid == "evm"      \* the via of an order settled on an EVM chain
Unpaid == "none"      \* the via of an order not settled

ASSUME BoundsAssumption ==
    /\ MaxOrders \in Nat /\ Lifetime \in Nat \ {0}
    /\ MaxClock \in Nat /\ MaxTransfers \in Nat /\ MaxLost \in Nat
    /\ SolanaMayFail \in BOOLEAN

ASSUME MoneyAssumption ==
    /\ Amounts \subseteq Nat \ {0} /\ Amounts # {}
    /\ Transfers \subseteq Nat \ {0}

ASSUME AddressAssumption ==
    /\ Merchants # {}
    /\ AssetOf \in [Accounts -> Assets]
    /\ AccountsOf \in [Merchants -> SUBSET Accounts]
    /\ EvmPaid \notin Assets /\ Unpaid \notin Assets

VARIABLES
    clock,      \* the wall clock
    row,        \* merchant_orders: the committed rows
    consumed,   \* merchants.solana_usdc_consumed / solana_usdt_consumed, committed
    pc,         \* what the poller is doing
    now,        \* the instant captured at the start of the pass
    todo,       \* orders of the pass not yet finished
    view,       \* the session's copies of the loaded rows, Blank if not loaded
    claimed,    \* the session's copies of the watermarks
    poisoned,   \* a database error has left the session unable to commit
    balance,    \* on-chain balance of each Solana account
    evm,        \* on-chain balance of each order's own EVM address, by token
    deposited,  \* history: all that ever arrived at each Solana account
    transfers,  \* history: number of transfers made
    received,   \* history: webhooks the merchant has received, by order
    lost        \* history: passes whose session was lost

database == <<row, consumed>>
session  == <<pc, now, todo, view, claimed, poisoned>>
chain    == <<balance, evm, deposited, transfers>>
outside  == <<received, lost>>
vars == <<clock, row, consumed, pc, now, todo, view, claimed, poisoned,
          balance, evm, deposited, transfers, received, lost>>

-----------------------------------------------------------------------------
(* Rows *)

Status == {"none", "pending", "paid", "expired"}

(* One merchant_orders row.  "none" is a row not yet inserted.  via stands *)
(* for paid_chain and paid_asset; from is history, the watermark at which  *)
(* a Solana claim starts, so that the claim is the interval                *)
(* from .. from + amount of everything the merchant ever received.         *)
Row == [status : Status, merchant : Merchants, amount : Amounts,
        expires : Nat, via : Assets \cup {EvmPaid, Unpaid},
        from : Nat, paidAt : Nat, delivered : BOOLEAN]

Blank == [status |-> "none", merchant |-> CHOOSE m \in Merchants : TRUE,
          amount |-> CHOOSE a \in Amounts : TRUE, expires |-> 0,
          via |-> Unpaid, from |-> 0, paidAt |-> 0, delivered |-> FALSE]

NewOrder(m, a, t) ==
    [Blank EXCEPT !.status = "pending", !.merchant = m, !.amount = a,
                  !.expires = t + Lifetime]

Watermarks == [Merchants -> [Assets -> Nat]]
NoClaims == [m \in Merchants |-> [s \in Assets |-> 0]]

\* Variants: also load paid orders; leave overdue orders out of the query.
PendingOrPaid == {o \in Orders : row[o].status \in {"pending", "paid"}}
PendingInTime == {o \in Orders : row[o].status = "pending" /\ row[o].expires > clock}

Pending == {o \in Orders : row[o].status = "pending"}
Loaded(o) == view[o].status # "none"

(* What a commit of the session leaves in merchant_orders. *)
Flushed == [o \in Orders |-> IF Loaded(o) THEN view[o] ELSE row[o]]

Init ==
    /\ clock = 0
    /\ row = [o \in Orders |-> Blank]
    /\ consumed = NoClaims
    /\ pc = "idle" /\ now = 0 /\ todo = {}
    /\ view = [o \in Orders |-> Blank]
    /\ claimed = NoClaims
    /\ poisoned = FALSE
    /\ balance = [h \in Accounts |-> 0]
    /\ evm = [o \in Orders |-> [t \in EvmTokens |-> 0]]
    /\ deposited = [h \in Accounts |-> 0]
    /\ transfers = 0
    /\ received = [o \in Orders |-> 0]
    /\ lost = 0

-----------------------------------------------------------------------------
(* The world: checkouts, customers, merchants' wallets, time *)

(* create_order, as far as the order's own row goes; the quota and the     *)
(* derivation index are the merchant row's and belong to MerchantAccount.  *)
CreateOrder(o, m, a) ==
    /\ clock + Lifetime <= MaxClock
    /\ row[o].status = "none"
    /\ \A p \in Orders : p < o => row[p].status # "none"
    /\ row' = [row EXCEPT ![o] = NewOrder(m, a, clock)]
    /\ UNCHANGED <<clock, consumed, session, chain, outside>>

DepositSolana(h, p) ==
    /\ transfers < MaxTransfers
    /\ balance' = [balance EXCEPT ![h] = @ + p]
    /\ deposited' = [deposited EXCEPT ![h] = @ + p]
    /\ transfers' = transfers + 1
    /\ UNCHANGED <<clock, database, session, evm, outside>>

(* The payout address is the merchant's own: it takes money out when it    *)
(* likes and the gateway is not told.                                      *)
WithdrawSolana(h, left) ==
    /\ left < balance[h]
    /\ balance' = [balance EXCEPT ![h] = left]
    /\ UNCHANGED <<clock, database, session, evm, deposited, transfers, outside>>

PayEvm(o, t, p) ==
    /\ row[o].status # "none"
    /\ transfers < MaxTransfers
    /\ evm' = [evm EXCEPT ![o][t] = @ + p]
    /\ transfers' = transfers + 1
    /\ UNCHANGED <<clock, database, session, balance, deposited, outside>>

SweepEvm(o, t) ==
    /\ evm[o][t] > 0
    /\ evm' = [evm EXCEPT ![o][t] = 0]
    /\ UNCHANGED <<clock, database, session, balance, deposited, transfers, outside>>

Tick ==
    /\ clock < MaxClock
    /\ clock' = clock + 1
    /\ UNCHANGED <<database, session, chain, outside>>

-----------------------------------------------------------------------------
(* The chain reads *)

(* amount is at least _MIN_PAYMENT_FRACTION of what is asked *)
Enough(have, want) == 100 * have >= 99 * want

EvmCovers(o, t) == evm[o][t] # 0 /\ Enough(evm[o][t], view[o].amount)

\* Variant: balance >= amount, without the watermark.
SolanaCoversWhole(o, h) ==
    /\ h \in AccountsOf[view[o].merchant]
    /\ Enough(balance[h], view[o].amount)

(* Only what the watermark leaves of one account's balance counts. *)
SolanaCovers(o, h) ==
    LET m == view[o].merchant IN
    /\ h \in AccountsOf[m]
    /\ Enough(balance[h] - claimed[m][AssetOf[h]], view[o].amount)

-----------------------------------------------------------------------------
(* A pass of the poller *)

(* Orders are finished oldest first. *)
IsHead(o) == o \in todo /\ \A p \in todo : o <= p

(* Nothing pending: the pass returns at once. *)
EmptyPass ==
    /\ pc = "idle"
    /\ Pending = {}
    /\ UNCHANGED vars

BeginPass ==
    /\ pc = "idle"
    /\ Pending # {}
    /\ pc' = "next"
    /\ now' = clock
    /\ todo' = Pending
    /\ view' = [o \in Orders |-> IF o \in Pending THEN row[o] ELSE Blank]
    /\ claimed' = consumed
    /\ UNCHANGED <<clock, database, poisoned, chain, outside>>

\* Variant: expire one instant early.
OverdueEarly(o) == view[o].expires <= now + 1

(* Judged by the instant at which the pass began. *)
Overdue(o) == view[o].expires <= now

ExpireOrder(o) ==
    /\ pc = "next"
    /\ IsHead(o)
    /\ Overdue(o)
    /\ view' = [view EXCEPT ![o].status = "expired"]
    /\ todo' = todo \ {o}
    /\ UNCHANGED <<clock, database, pc, now, claimed, poisoned, chain, outside>>

Settled(o, via, from) ==
    [view EXCEPT ![o] = [@ EXCEPT !.status = "paid", !.via = via,
                                  !.from = from, !.paidAt = now]]

EvmFound(o, t) ==
    /\ pc = "next"
    /\ IsHead(o)
    /\ ~Overdue(o)
    /\ EvmCovers(o, t)
    /\ view' = Settled(o, EvmPaid, 0)
    /\ pc' = "webhook"
    /\ UNCHANGED <<clock, database, now, todo, claimed, poisoned, chain, outside>>

(* Possible whatever the balance: a round that reaches no quorum, or finds *)
(* its providers rate limited, says nothing (see RpcConsensus).            *)
EvmNotFound(o) ==
    /\ pc = "next"
    /\ IsHead(o)
    /\ ~Overdue(o)
    /\ pc' = "solana"
    /\ UNCHANGED <<clock, database, now, todo, view, claimed, poisoned, chain, outside>>

\* Variants: the watermark is not raised, is lowered, is raised for every
\* asset, or is raised to the whole balance.
ClaimNothing(m, s, a) == claimed
ClaimNegative(m, s, a) == [claimed EXCEPT ![m][s] = @ - a]
ClaimEveryAsset(m, s, a) == [claimed EXCEPT ![m] = [x \in Assets |-> @[x] + a]]
ClaimBalance(m, s, a) ==
    [claimed EXCEPT ![m][s] = balance[CHOOSE h \in AccountsOf[m] : AssetOf[h] = s]]

(* The order claims its own amount, not all that is available, and the     *)
(* next order of the pass sees the raised watermark.                       *)
Claim(m, s, a) == [claimed EXCEPT ![m][s] = @ + a]

SolanaFound(o, h) ==
    LET m == view[o].merchant
        s == AssetOf[h] IN
    /\ pc = "solana"
    /\ IsHead(o)
    /\ SolanaCovers(o, h)
    /\ view' = Settled(o, s, claimed[m][s])
    /\ claimed' = Claim(m, s, view[o].amount)
    /\ pc' = "webhook"
    /\ UNCHANGED <<clock, database, now, todo, poisoned, chain, outside>>

\* Variant: look at the order again in this pass.
LeaveForNow(o) ==
    /\ pc = "solana"
    /\ IsHead(o)
    /\ pc' = "next"
    /\ UNCHANGED <<clock, database, now, todo, view, claimed, poisoned, chain, outside>>

LeavePending(o) ==
    /\ pc = "solana"
    /\ IsHead(o)
    /\ pc' = "next"
    /\ todo' = todo \ {o}
    /\ UNCHANGED <<clock, database, now, view, claimed, poisoned, chain, outside>>

(* Every account answered and none covers the order. *)
SolanaNotFound(o) ==
    /\ \A h \in Accounts : ~SolanaCovers(o, h)
    /\ LeavePending(o)

(* The RPC call failed for an asset: that asset is skipped. *)
SolanaUnavailable(o) ==
    /\ SolanaMayFail
    /\ \E h \in Accounts : SolanaCovers(o, h)
    /\ LeavePending(o)

\* Variants: retry a POST that got no answer; call an exception a delivery.
PostsRetrying(answer) == IF answer = "none" THEN 2 ELSE 1
DeliveredUnlessRefused(answer) == answer # "error"

(* deliver_webhook: one POST; an answer below 400 in time is a delivery,   *)
(* everything else is not, and is not tried again.                         *)
Posts(answer) == 1
Delivered(answer) == answer = "ok"

Webhook(o, reaches, answer) ==
    /\ pc = "webhook"
    /\ IsHead(o)
    /\ received' = IF reaches THEN [received EXCEPT ![o] = @ + Posts(answer)] ELSE received
    /\ view' = IF Delivered(answer) THEN [view EXCEPT ![o].delivered = TRUE] ELSE view
    /\ pc' = "push"
    /\ UNCHANGED <<clock, database, now, todo, claimed, poisoned, chain, lost>>

WebhookFails(o)          == Webhook(o, FALSE, "none")
WebhookUnacknowledged(o) == \E answer \in {"error", "none"} : Webhook(o, TRUE, answer)
WebhookDelivered(o)      == Webhook(o, TRUE, "ok")

FinishOrder(o) ==
    /\ pc = "push"
    /\ IsHead(o)
    /\ pc' = "next"
    /\ todo' = todo \ {o}
    /\ UNCHANGED <<clock, now, view, claimed, chain, outside>>

(* send_push_to_user: nothing to do, or every send answered and no device  *)
(* is pruned, or an exception that does not come from the database.        *)
PushSent(o) ==
    /\ FinishOrder(o)
    /\ UNCHANGED <<database, poisoned>>

\* Variants: the orders are kept without the watermark, or it without them.
KeepRowsOnly == row' = Flushed /\ UNCHANGED consumed
KeepWatermarkOnly == UNCHANGED row /\ consumed' = claimed

(* A commit of the session keeps all that the pass has done so far. *)
KeepSession == row' = Flushed /\ consumed' = claimed

(* A dead device token is deleted and the delete committed: the commit is  *)
(* the shared session's.                                                   *)
PushPrunes(o) ==
    /\ ~poisoned
    /\ FinishOrder(o)
    /\ KeepSession
    /\ UNCHANGED poisoned

(* A database error inside the push is swallowed there; the session can no *)
(* longer commit, and the loop goes on.                                    *)
PushBreaksSession(o) ==
    /\ lost < MaxLost
    /\ FinishOrder(o)
    /\ poisoned' = TRUE
    /\ UNCHANGED database

EndPass ==
    /\ pc' = "idle" /\ now' = 0 /\ todo' = {}
    /\ view' = [o \in Orders |-> Blank]
    /\ claimed' = NoClaims
    /\ poisoned' = FALSE
    /\ UNCHANGED <<clock, chain, received>>

Commit ==
    /\ pc = "next" /\ todo = {}
    /\ ~poisoned
    /\ KeepSession
    /\ EndPass
    /\ UNCHANGED lost

RollBack ==
    /\ EndPass
    /\ lost' = lost + 1
    /\ UNCHANGED database

CommitFails ==
    /\ pc = "next" /\ todo = {}
    /\ poisoned
    /\ RollBack

(* The process stops, the database connection goes, or an exception leaves *)
(* the loop: nothing since the last commit is kept.                        *)
LosePass ==
    /\ pc # "idle"
    /\ lost < MaxLost
    /\ RollBack

-----------------------------------------------------------------------------

Checkout == \E o \in Orders, m \in Merchants, a \in Amounts : CreateOrder(o, m, a)

Money ==
    \/ \E h \in Accounts, p \in Transfers : DepositSolana(h, p)
    \/ \E h \in Accounts, left \in {0} \cup Transfers : WithdrawSolana(h, left)
    \/ \E o \in Orders, t \in EvmTokens, p \in Transfers : PayEvm(o, t, p)
    \/ \E o \in Orders, t \in EvmTokens : SweepEvm(o, t)

PollOrder(o) ==
    \/ ExpireOrder(o)
    \/ \E t \in EvmTokens : EvmFound(o, t)
    \/ EvmNotFound(o)
    \/ \E h \in Accounts : SolanaFound(o, h)
    \/ SolanaNotFound(o)
    \/ SolanaUnavailable(o)
    \/ WebhookFails(o)
    \/ WebhookUnacknowledged(o)
    \/ WebhookDelivered(o)
    \/ PushSent(o)
    \/ PushPrunes(o)
    \/ PushBreaksSession(o)

Poll ==
    \/ BeginPass
    \/ \E o \in Orders : PollOrder(o)
    \/ Commit
    \/ CommitFails

Next ==
    \/ Checkout
    \/ Money
    \/ Tick
    \/ EmptyPass
    \/ Poll
    \/ LosePass

Spec == Init /\ [][Next]_vars

(* The poll loop is always running and each of its awaits ends, so it takes *)
(* its steps; time passes.  httpx bounds each connect, read and write of a *)
(* call, so that a silent server cannot hold one, while a server that      *)
(* sends a byte now and then, or a database that never answers, could:     *)
(* neither is supposed to.  Nothing is assumed of customers, merchants, or *)
(* of any RPC endpoint answering.                                          *)
Fairness == WF_vars(Poll) /\ WF_vars(Tick)

FairSpec == Spec /\ Fairness

-----------------------------------------------------------------------------
(* What is promised.  The settlement in force is what the merchant sees now *)
(* (row, consumed) and what it would see if the pass committed here         *)
(* (Flushed, InForce); a claim has to be sound in both.                     *)

InForce == IF pc = "idle" THEN consumed ELSE claimed

(* Types: every variable holds a value of its kind. *)
TypeOK ==
    /\ clock \in Nat /\ now \in Nat
    /\ row \in [Orders -> Row] /\ view \in [Orders -> Row]
    /\ consumed \in Watermarks /\ claimed \in Watermarks
    /\ pc \in {"idle", "next", "solana", "webhook", "push"}
    /\ todo \subseteq Orders
    /\ poisoned \in BOOLEAN
    /\ balance \in [Accounts -> Nat] /\ deposited \in [Accounts -> Nat]
    /\ evm \in [Orders -> [EvmTokens -> Nat]]
    /\ transfers \in Nat /\ lost \in Nat
    /\ received \in [Orders -> Nat]

SameClaimant(r, o, p) ==
    /\ r[o].merchant = r[p].merchant
    /\ r[o].via = r[p].via
    /\ r[o].via \in Assets

DisjointIn(r) ==
    \A o, p \in Orders :
        o # p /\ SameClaimant(r, o, p) =>
            \/ r[o].from + r[o].amount <= r[p].from
            \/ r[p].from + r[p].amount <= r[o].from

(* One Solana payment settles one order: the claims of a merchant's orders *)
(* on what arrived in one asset never overlap, in the database or in the   *)
(* pass under way (the watermark handed from order to order in             *)
(* poll_pending_orders, and written back with the rows it belongs to).     *)
OnePaymentOneOrder == DisjointIn(row) /\ DisjointIn(Flushed)

BackedBy(w) ==
    \A m \in Merchants, s \in Assets :
        \/ w[m][s] = 0
        \/ \E h \in AccountsOf[m], a \in Amounts :
              AssetOf[h] = s /\ 100 * w[m][s] <= 100 * deposited[h] + a

(* All that a merchant's orders ever claimed of an asset was really         *)
(* received, on one account and to within the 1% allowance of ONE order:    *)
(* the allowance of _MIN_PAYMENT_FRACTION is never compounded, however many *)
(* orders are settled and whatever passes are lost.                         *)
ClaimsBacked == BackedBy(consumed) /\ BackedBy(InForce)

Claimants(r, m, s) == {o \in Orders : r[o].merchant = m /\ r[o].via = s}

(* What a set of orders asks for, together. *)
AmountOf(r, set) == MapThenSumSet(LAMBDA o : r[o].amount, set)

SumsTo(r, w) ==
    \A m \in Merchants, s \in Assets : w[m][s] = AmountOf(r, Claimants(r, m, s))

(* The watermark is exactly what the orders settled from it add up to, in  *)
(* the database at every commit and in the session at every step: an order *)
(* and its claim are never kept one without the other (the commit that     *)
(* ends poll_pending_orders, and the one inside send_push_to_user).        *)
WatermarkIsSumOfClaims == SumsTo(row, consumed) /\ SumsTo(Flushed, InForce)

Deadlines(r) ==
    \A o \in Orders :
        /\ r[o].status = "paid" => r[o].paidAt < r[o].expires /\ r[o].paidAt <= clock
        /\ r[o].status = "expired" => r[o].expires <= clock

(* An order is dated paid before its deadline or expires after it, though   *)
(* the pass judges every order by the instant at which the pass began.      *)
DeadlineKept == Deadlines(row) /\ Deadlines(Flushed)

(* A merchant is told of an order once, plus once for every lost pass, and  *)
(* only of an order that is being settled unless a pass was lost: within a  *)
(* session deliver_webhook runs once per order, and a committed order is    *)
(* not loaded again.                                                        *)
NoticesBounded ==
    \A o \in Orders :
        received[o] <= lost + (IF Flushed[o].status = "paid" THEN 1 ELSE 0)

ToldOf(m, s) ==
    {o \in Orders : received[o] > 0 /\ Flushed[o].merchant = m /\ Flushed[o].via = s}

(* Until a pass is lost, the merchant is told only of orders settled on an *)
(* EVM chain or paid for on Solana: those it was told of by a webhook add  *)
(* up to no more than one of its accounts received of the asset, within    *)
(* the 1% allowance of one order.  (deliver_webhook runs before the        *)
(* commit; see ConfirmationsArePaidFor for what a lost pass undoes.)       *)
ToldIsPaidFor ==
    lost = 0 =>
        /\ \A o \in Orders : received[o] > 0 => Flushed[o].via \in Assets \cup {EvmPaid}
        /\ \A m \in Merchants, s \in Assets :
              LET told == AmountOf(Flushed, ToldOf(m, s)) IN
              \/ told = 0
              \/ \E h \in AccountsOf[m], a \in Amounts :
                    AssetOf[h] = s /\ 100 * told <= 100 * deposited[h] + a

(* webhook_delivered_at is set only on a paid order whose webhook the       *)
(* merchant has really received.                                            *)
DeliveredIsTrue ==
    \A o \in Orders :
        row[o].delivered => row[o].status = "paid" /\ received[o] > 0

(* A committed paid or expired order is never changed again: not by a later *)
(* pass, nor by the commit that ends the pass in which a push committed it. *)
SettledIsFinal ==
    [][\A o \in Orders :
         row[o].status \in {"paid", "expired"} => row'[o] = row[o]]_vars

Rank == [next |-> 0, solana |-> 1, webhook |-> 2, push |-> 3]

(* At most how many more steps the poller takes in this pass. *)
StepsLeft == IF pc = "idle" THEN 0 ELSE 4 * Cardinality(todo) - Rank[pc] + 1

(* A pass ends: each of its steps leaves it fewer steps to take, whatever  *)
(* the chains, the merchant's server and the push service answer, and      *)
(* whatever happens between.  No order is gone back to, and no order       *)
(* created meanwhile joins the pass (the for loop of poll_pending_orders). *)
PassMovesOn ==
    [][session' # session /\ pc # "idle" => StepsLeft' < StepsLeft]_vars

(* No order stays pending for ever, whatever the chain reads, webhooks and  *)
(* pushes do, as long as only finitely many passes are lost.                *)
EventuallySettled ==
    \A o \in Orders :
        row[o].status = "pending" ~> row[o].status \in {"paid", "expired"}

Ledger == INSTANCE PaymentLedger WITH entry <- row, arrived <- deposited

(* The committed rows are a ledger of payments: whatever the poller loses,  *)
(* commits in mid-pass or reads late, orders close once, and the claims of  *)
(* a merchant's orders on what it received in an asset neither overlap nor  *)
(* leave a gap, each backed by what had arrived when it was committed.      *)
ImplementsLedger == Ledger!Spec
=============================================================================
