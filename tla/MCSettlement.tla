---------------------------- MODULE MCSettlement ----------------------------
(* Small instances of Settlement for TLC, and statements that fail. *)
EXTENDS Settlement

CONSTANTS m1, m2, usdc, usdt, a1, a2, a3, bscUsdt

\* One merchant with one USDC account.
OneAccountAssets == [h \in {a1} |-> usdc]
OneAccountOwner  == [m \in {m1} |-> {a1}]

\* A merchant with two USDC accounts and a USDT account, and one with no
\* Solana address.
TwoAssetsAssets == [h \in {a1, a2, a3} |-> IF h = a2 THEN usdt ELSE usdc]
TwoAssetsOwner  == [m \in {m1, m2} |-> IF m = m1 THEN {a1, a2, a3} ELSE {}]

-----------------------------------------------------------------------------
(* Statements of the repository that the code does not keep. *)

(* README.md: the consumed balance and the FIFO order prevent one real      *)
(* payment from satisfying multiple orders.  Taken as merchants see it:     *)
(* the orders they have received checkout.confirmed for add up to no more   *)
(* than what arrived, within the 1% allowance (no EVM payments here).       *)
ConfirmationsArePaidFor ==
    LET told == {o \in Orders : received[o] > 0} IN
    100 * MapThenSumSet(LAMBDA h : deposited[h], Accounts)
        >= 99 * AmountOf(row, told)

(* poll_pending_orders: whichever order was created first gets first claim  *)
(* on any newly-arrived balance.  In no pass does a younger order claim a   *)
(* balance while an older order of the merchant, asking no more, is left    *)
(* pending.                                                                 *)
FirstCreatedFirstClaim ==
    \A o, p \in Orders :
        /\ o < p
        /\ Loaded(o) /\ Loaded(p)
        /\ view[o].merchant = view[p].merchant
        /\ view[o].amount <= view[p].amount
        /\ view[p].via \in Assets
        => view[o].status # "pending"

(* models/merchant.py: the watermark is how much of the balance past orders *)
(* have claimed, so that genuinely new, unclaimed balance can satisfy the   *)
(* next order.  When an order is checked, money that arrived beyond all     *)
(* claims and still lies on the account is enough.                          *)
UnclaimedBalanceCounts ==
    \A o \in Orders :
        pc = "solana" /\ IsHead(o) =>
            \A h \in AccountsOf[view[o].merchant] :
                LET unclaimed == deposited[h] - claimed[view[o].merchant][AssetOf[h]] IN
                balance[h] >= view[o].amount /\ unclaimed >= view[o].amount
                    => SolanaCovers(o, h)
=============================================================================
