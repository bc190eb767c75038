---------------------------- MODULE PaymentLedger ----------------------------
(***************************************************************************)
(* What the settlement of orders promises the merchants, without the       *)
(* poller: a table of orders, each closed once, and what has arrived at    *)
(* the merchants' Solana accounts.  Nothing is said of sessions, passes,   *)
(* commits in mid-pass, watermarks, webhooks or lost processes.            *)
(*                                                                         *)
(* An order settled on Solana owns an interval of what its merchant ever   *)
(* received in the asset.  The intervals of a merchant do not overlap (no  *)
(* payment settles two orders), leave no gap (no payment is lost to        *)
(* bookkeeping) and lie within what has arrived, but for the 1% that may   *)
(* be missing at the end of each.                                          *)
(***************************************************************************)
EXTENDS Integers

CONSTANTS Orders, Merchants, Assets, Accounts, AssetOf, AccountsOf, EvmPaid, Unpaid

VARIABLES
    entry,      \* the orders: at least status, merchant, amount, via and from
    arrived     \* all that ever arrived at each account

vars == <<entry, arrived>>

Init ==
    /\ \A o \in Orders : entry[o].status = "none" /\ entry[o].via = Unpaid
    /\ arrived = [h \in Accounts |-> 0]

Claimant(e, o, m, s) == e[o].via = s /\ e[o].merchant = m
End(e, o) == e[o].from + e[o].amount

Disjoint(e, m, s) ==
    \A o, p \in Orders :
        o # p /\ Claimant(e, o, m, s) /\ Claimant(e, p, m, s) =>
            End(e, o) <= e[p].from \/ End(e, p) <= e[o].from

Gapless(e, m, s) ==
    \A o \in Orders :
        Claimant(e, o, m, s) =>
            \/ e[o].from = 0
            \/ \E p \in Orders : Claimant(e, p, m, s) /\ End(e, p) = e[o].from

Backed(e, m, s) ==
    \A o \in Orders :
        Claimant(e, o, m, s) =>
            \E h \in AccountsOf[m] :
                AssetOf[h] = s /\ 100 * (arrived[h] - e[o].from) >= 99 * e[o].amount

Sound(e) ==
    \A m \in Merchants, s \in Assets :
        Disjoint(e, m, s) /\ Gapless(e, m, s) /\ Backed(e, m, s)

Open(o) ==
    /\ entry[o].status = "none"
    /\ entry'[o].status = "pending" /\ entry'[o].via = Unpaid
    /\ entry'[o].merchant \in Merchants
    /\ \A p \in Orders \ {o} : entry'[p] = entry[p]
    /\ UNCHANGED arrived

Arrive ==
    /\ arrived' \in [Accounts -> Nat]
    /\ \A h \in Accounts : arrived'[h] >= arrived[h]
    /\ UNCHANGED entry

(* An order pending is paid for, or is given up. *)
Closes(o) ==
    /\ entry[o].status = "pending"
    /\ entry'[o].merchant = entry[o].merchant /\ entry'[o].amount = entry[o].amount
    /\ \/ entry'[o].status = "paid" /\ entry'[o].via \in Assets \cup {EvmPaid}
       \/ entry'[o].status = "expired" /\ entry'[o].via = Unpaid

(* Some orders close together; all others stay as they are. *)
Close ==
    /\ \A o \in Orders : entry'[o] # entry[o] => Closes(o)
    /\ Sound(entry')
    /\ UNCHANGED arrived

Next == (\E o \in Orders : Open(o)) \/ Arrive \/ Close

Spec == Init /\ [][Next]_vars
=============================================================================
