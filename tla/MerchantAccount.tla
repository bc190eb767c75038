--------------------------- MODULE MerchantAccount --------------------------
(***************************************************************************)
(* One merchant's row as checkouts, billing-mode changes and the poller    *)
(* share it (merchant_service.py: create_order, _reserve_next_evm_index,   *)
(* _ensure_billing_cycle_current, set_billing_mode, and the volume that    *)
(* poll_pending_orders adds up).                                           *)
(*                                                                         *)
(* Every request, and every pass of the poller, works on a copy of the row *)
(* loaded into its own session.  A flush writes the columns whose value    *)
(* the session has changed, as absolute values, and holds the row's lock   *)
(* until the transaction ends; other sessions read the committed row and   *)
(* wait for the lock to write.                                             *)
(***************************************************************************)
EXTENDS Integers, FiniteSets

CONSTANTS
    Requests,       \* sessions that serve merchant requests
    Poller,         \* the session of the poller's pass
    Cap,            \* FREE_MONTHLY_ORDER_CAP
    CycleLength,    \* _MONTHLY_RESET_DAYS, in clock units
    Amounts,        \* amounts a paid order adds to the volume
    Plans,          \* the plans the merchant may have at first
    PlanEnds,       \* when that plan may end; 0 stands for no end
    MaxClock,       \* bound: the last instant
    MaxOrders,      \* bound: orders created
    MaxRotations,   \* bound: webhook secrets issued
    MaxCredits      \* bound: paid orders added to the volume

Sessions == Requests \cup {Poller}
Nobody == "nobody"

ASSUME SessionAssumption == Poller \notin Requests /\ Nobody \notin Sessions

ASSUME BillingAssumption ==
    /\ Cap \in Nat /\ CycleLength \in Nat \ {0}
    /\ Amounts \subseteq Nat
    /\ Plans \subseteq {"free", "pro"} /\ PlanEnds \subseteq Nat
    /\ MaxClock \in Nat /\ MaxOrders \in Nat /\ MaxCredits \in Nat
    /\ MaxRotations \in Nat

Modes == {"flat", "volume"}

(* The columns of the merchant's row that these handlers share; left out   *)
(* are volume_fee_paid_usd, which nothing writes but the rollover, and the *)
(* Solana watermarks, which are Settlement's.  index is next_evm_index,    *)
(* pending is pending_billing_mode with "none" for NULL, resetAt is        *)
(* billing_cycle_reset_at with 0 for NULL, secret numbers the webhook      *)
(* secrets in the order they were issued.                                  *)
RowType == [index : Nat, count : Nat, mode : Modes, pending : Modes \cup {"none"},
            resetAt : Nat, volume : Nat, plan : {"free", "pro"}, planEnds : Nat, secret : Nat]

VARIABLES
    clock,      \* the wall clock; starts at 1, as 0 stands for NULL
    row,        \* the committed row
    holder,     \* the session that holds the row's lock, or Nobody
    work,       \* the row as the holder's transaction has it
    pc,         \* where each session is
    base,       \* each session's row as last loaded or flushed
    cur,        \* each session's row in memory
    orders,     \* committed orders: their number and derivation index
    placed,     \* number of orders committed
    made,       \* history: orders committed in the current cycle
    credits,    \* history: paid orders credited
    credited,   \* history: what the poller's session added since it rolled over
    billed,     \* history: volume committed in the current cycle
    crowded,    \* history: the sessions another one has been open beside
    overlapped, \* history: two sessions were once open together
    staleRoll,  \* history: a crowded session once began a cycle
    rotations   \* history: webhook secrets issued to the merchant

history == <<made, credits, credited, billed, crowded, overlapped, staleRoll, rotations>>
vars == <<clock, row, holder, work, pc, base, cur, orders, placed, made,
          credits, credited, billed, crowded, overlapped, staleRoll, rotations>>

Fresh(p, e) == [index |-> 0, count |-> 0, mode |-> "flat", pending |-> "none",
                resetAt |-> 0, volume |-> 0, plan |-> p, planEnds |-> e,
                secret |-> 0]

Closed == Fresh("free", 0)

Init ==
    /\ clock = 1
    /\ \E p \in Plans, e \in PlanEnds : row = Fresh(p, e)
    /\ holder = Nobody
    /\ work = Closed
    /\ pc = [s \in Sessions |-> "closed"]
    /\ base = [s \in Sessions |-> Closed]
    /\ cur = [s \in Sessions |-> Closed]
    /\ orders = {} /\ placed = 0
    /\ made = 0 /\ credits = 0 /\ credited = 0 /\ billed = 0
    /\ crowded = {} /\ overlapped = FALSE /\ staleRoll = FALSE
    /\ rotations = 0

Tick ==
    /\ clock < MaxClock
    /\ clock' = clock + 1
    /\ UNCHANGED <<row, holder, work, pc, base, cur, orders, placed, history>>

-----------------------------------------------------------------------------
(* What the handlers compute on a row *)

CycleOver(r) == r.resetAt = 0 \/ clock >= r.resetAt

RolledOver(r) ==
    [r EXCEPT !.mode = IF r.pending = "none" THEN @ ELSE r.pending,
              !.pending = "none", !.count = 0, !.volume = 0,
              !.resetAt = clock + CycleLength]

\* Variant: a lapsed plan is given a name of its own.
LapsedToItsOwn(r) ==
    IF r.plan = "pro" /\ r.planEnds # 0 /\ clock >= r.planEnds
    THEN [r EXCEPT !.plan = "lapsed"] ELSE r

Lapsed(r) ==
    IF r.plan = "pro" /\ r.planEnds # 0 /\ clock >= r.planEnds
    THEN [r EXCEPT !.plan = "free"] ELSE r

(* _ensure_billing_cycle_current *)
Current(r) == Lapsed(IF CycleOver(r) THEN RolledOver(r) ELSE r)

\* Variant: one order more than the cap.
OutOfQuotaLate(r) == r.mode = "flat" /\ r.plan = "free" /\ r.count > Cap

OutOfQuota(r) == r.mode = "flat" /\ r.plan = "free" /\ r.count >= Cap

\* Variant: a switch takes effect at once.
WithModeNow(r, mode) ==
    IF mode = r.mode THEN [r EXCEPT !.pending = "none"] ELSE [r EXCEPT !.mode = mode]

(* set_billing_mode *)
WithMode(r, mode) ==
    IF mode = r.mode THEN [r EXCEPT !.pending = "none"]
    ELSE IF r.resetAt = 0 THEN [r EXCEPT !.mode = mode]
    ELSE [r EXCEPT !.pending = mode]

WithSecret(r, n) == [r EXCEPT !.secret = n]

\* Variant: every column is written back.
WrittenWhole(old, new, r) == new

(* A flush: the columns that differ from what the session last knew.       *)
Written(old, new, r) ==
    [r EXCEPT !.index    = IF new.index = old.index THEN @ ELSE new.index,
              !.count    = IF new.count = old.count THEN @ ELSE new.count,
              !.mode     = IF new.mode = old.mode THEN @ ELSE new.mode,
              !.pending  = IF new.pending = old.pending THEN @ ELSE new.pending,
              !.resetAt  = IF new.resetAt = old.resetAt THEN @ ELSE new.resetAt,
              !.volume   = IF new.volume = old.volume THEN @ ELSE new.volume,
              !.plan     = IF new.plan = old.plan THEN @ ELSE new.plan,
              !.secret   = IF new.secret = old.secret THEN @ ELSE new.secret]

(* The row as session s sees it when it holds the lock.                    *)
Latest(s) == IF holder = s THEN work ELSE row
LockFree(s) == holder \in {Nobody, s}

-----------------------------------------------------------------------------
(* Sessions *)

Open(s) == pc[s] # "closed"

OpenBeside(s) == {t \in Sessions \ {s} : Open(t)}

(* The merchant is loaded: by the request's authentication, by the pass.   *)
Load(s) ==
    /\ pc[s] = "closed"
    /\ pc' = [pc EXCEPT ![s] = "loaded"]
    /\ base' = [base EXCEPT ![s] = row]
    /\ cur' = [cur EXCEPT ![s] = row]
    /\ crowded' = IF OpenBeside(s) = {} THEN crowded ELSE crowded \cup {s} \cup OpenBeside(s)
    /\ overlapped' = (overlapped \/ OpenBeside(s) # {})
    /\ UNCHANGED <<clock, row, holder, work, orders, placed, made, credits, credited,
                   billed, staleRoll, rotations>>

\* Variant: a transaction's lock outlives it.
KeepLock(s) == UNCHANGED <<holder, work>>

ReleaseLock(s) ==
    /\ holder' = IF holder = s THEN Nobody ELSE holder
    /\ work' = IF holder = s THEN Closed ELSE work

Close(s) ==
    /\ pc' = [pc EXCEPT ![s] = "closed"]
    /\ base' = [base EXCEPT ![s] = Closed]
    /\ cur' = [cur EXCEPT ![s] = Closed]
    /\ crowded' = crowded \ {s}
    /\ ReleaseLock(s)

(* An exception, a disconnected client, a restarted process.               *)
Abort(s) ==
    /\ Open(s)
    /\ Close(s)
    /\ credited' = IF s = Poller THEN 0 ELSE credited
    /\ UNCHANGED <<clock, row, orders, placed, made, credits, billed, overlapped, staleRoll, rotations>>

(* Session s commits r, with the number of orders it created.              *)
BeginsCycle(r) == r.resetAt # row.resetAt

Committed(s, r, created) ==
    /\ row' = r
    /\ made' = IF BeginsCycle(r) THEN created ELSE made + created
    /\ billed' = (IF BeginsCycle(r) THEN 0 ELSE billed) + (IF s = Poller THEN credited ELSE 0)
    /\ credited' = IF s = Poller THEN 0 ELSE credited
    /\ staleRoll' = (staleRoll \/ (BeginsCycle(r) /\ s \in crowded))

(* create_order, up to the quota.  A refusal raises and nothing is kept,   *)
(* the rollover included.                                                  *)
Refuse(s) ==
    /\ pc[s] = "loaded"
    /\ OutOfQuota(Current(cur[s]))
    /\ Close(s)
    /\ UNCHANGED <<clock, row, orders, placed, made, credits, credited, billed, overlapped,
                   staleRoll, rotations>>

Accept(s) ==
    /\ pc[s] = "loaded"
    /\ placed < MaxOrders
    /\ ~OutOfQuota(Current(cur[s]))
    /\ cur' = [cur EXCEPT ![s] = Current(cur[s])]
    /\ pc' = [pc EXCEPT ![s] = "reserving"]
    /\ UNCHANGED <<clock, row, holder, work, base, orders, placed, history>>

\* Variant: the index is taken from the session's copy of the row.
NextIndexOfCopy(s) == cur[s].index + 1

NextIndex(s) == Latest(s).index + 1

(* _reserve_next_evm_index: the session's changes are flushed first, then  *)
(* one UPDATE increments the latest committed index and returns it.        *)
Reserve(s) ==
    /\ pc[s] = "reserving"
    /\ LockFree(s)
    /\ holder' = s
    /\ LET mine == [cur[s] EXCEPT !.index = NextIndex(s)] IN
       /\ work' = [Written(base[s], cur[s], Latest(s)) EXCEPT !.index = NextIndex(s)]
       /\ base' = [base EXCEPT ![s] = mine]
       /\ cur' = [cur EXCEPT ![s] = mine]
    /\ pc' = [pc EXCEPT ![s] = "reserved"]
    /\ UNCHANGED <<clock, row, orders, placed, history>>

\* Variant: the order is not counted.
NotCounted(r) == r

Counted(r) == [r EXCEPT !.count = @ + 1]

(* The rest of create_order: the count goes up in memory, the order gets   *)
(* the index reserved, and the caller commits.                             *)
CommitOrder(s) ==
    /\ pc[s] = "reserved"
    /\ Committed(s, Written(base[s], Counted(cur[s]), work), 1)
    /\ orders' = orders \cup {[id |-> placed + 1, index |-> cur[s].index - 1]}
    /\ placed' = placed + 1
    /\ Close(s)
    /\ UNCHANGED <<clock, credits, overlapped, rotations>>

(* Settings: the new row is computed from the session's copy, and the      *)
(* caller commits.                                                         *)
Rewrite(s, r) ==
    /\ pc[s] = "loaded"
    /\ LockFree(s)
    /\ Committed(s, Written(base[s], r, row), 0)
    /\ Close(s)
    /\ UNCHANGED <<clock, orders, placed, credits, overlapped>>

SetMode(s, mode) == Rewrite(s, WithMode(cur[s], mode)) /\ UNCHANGED rotations

(* regenerate_webhook_secret *)
RotateSecret(s) ==
    /\ rotations < MaxRotations
    /\ rotations' = rotations + 1
    /\ Rewrite(s, WithSecret(cur[s], rotations'))

-----------------------------------------------------------------------------
(* The poller's pass *)

(* One order was found paid and the merchant is billed by volume.          *)
Credit(a) ==
    /\ pc[Poller] = "loaded"
    /\ credits < MaxCredits
    /\ cur[Poller].mode = "volume"
    /\ cur' = [cur EXCEPT ![Poller] = [Current(cur[Poller]) EXCEPT !.volume = @ + a]]
    /\ credits' = credits + 1
    /\ credited' = IF CycleOver(cur[Poller]) THEN a ELSE credited + a
    /\ UNCHANGED <<clock, row, holder, work, pc, base, orders, placed, made, billed,
                   crowded, overlapped, staleRoll, rotations>>

(* The query of a push flushes the session: the lock is taken, and kept    *)
(* while the pass goes on awaiting the network.                            *)
AutoFlush ==
    /\ pc[Poller] = "loaded"
    /\ cur[Poller] # base[Poller]
    /\ LockFree(Poller)
    /\ holder' = Poller
    /\ work' = Written(base[Poller], cur[Poller], Latest(Poller))
    /\ base' = [base EXCEPT ![Poller] = cur[Poller]]
    /\ UNCHANGED <<clock, row, pc, cur, orders, placed, history>>

(* A dead device token is pruned, and the prune's commit takes along what  *)
(* the session has flushed.  The session keeps its copies.                 *)
PruneCommits ==
    /\ pc[Poller] = "loaded"
    /\ holder = Poller /\ cur[Poller] = base[Poller]
    /\ Committed(Poller, work, 0)
    /\ ReleaseLock(Poller)
    /\ UNCHANGED <<clock, pc, base, cur, orders, placed, credits, crowded, overlapped, rotations>>

EndPass ==
    /\ pc[Poller] = "loaded"
    /\ LockFree(Poller)
    /\ Committed(Poller, Written(base[Poller], cur[Poller], Latest(Poller)), 0)
    /\ Close(Poller)
    /\ UNCHANGED <<clock, orders, placed, credits, overlapped, rotations>>

-----------------------------------------------------------------------------

Request(s) ==
    \/ Load(s)
    \/ Refuse(s)
    \/ Accept(s)
    \/ Reserve(s)
    \/ CommitOrder(s)
    \/ \E mode \in Modes : SetMode(s, mode)
    \/ RotateSecret(s)
    \/ Abort(s)

Pass ==
    \/ Load(Poller)
    \/ \E a \in Amounts : Credit(a)
    \/ AutoFlush
    \/ PruneCommits
    \/ EndPass
    \/ Abort(Poller)

Next ==
    \/ Tick
    \/ \E s \in Requests : Request(s)
    \/ Pass

Spec == Init /\ [][Next]_vars

(* A session ends one way or the other, and PostgreSQL grants a row's lock *)
(* to those who wait for it in turn.                                       *)
Fairness ==
    /\ \A s \in Requests : SF_vars(Reserve(s)) /\ WF_vars(CommitOrder(s))
    /\ SF_vars(EndPass)

FairSpec == Spec /\ Fairness

-----------------------------------------------------------------------------
(* What is promised *)

(* Types: every variable holds a value of its kind. *)
TypeOK ==
    /\ clock \in Nat
    /\ row \in RowType /\ work \in RowType
    /\ holder \in Sessions \cup {Nobody}
    /\ pc \in [Sessions -> {"closed", "loaded", "reserving", "reserved"}]
    /\ base \in [Sessions -> RowType] /\ cur \in [Sessions -> RowType]
    /\ orders \subseteq [id : Nat, index : Nat]
    /\ placed \in Nat /\ made \in Nat /\ credits \in Nat /\ credited \in Nat
    /\ billed \in Nat /\ crowded \subseteq Sessions /\ overlapped \in BOOLEAN
    /\ staleRoll \in BOOLEAN /\ rotations \in Nat

(* No two orders of a merchant share a derivation index, and so an EVM      *)
(* address, however their requests overlap and whichever of them are lost   *)
(* (_reserve_next_evm_index).                                               *)
UniqueIndex ==
    \A o, p \in orders : o.index = p.index => o = p

(* As long as requests do not overlap, monthly_order_count is the number of *)
(* orders created in the billing cycle: the figure the free plan's cap is   *)
(* tested against.                                                          *)
CountIsTrueAlone == ~overlapped => row.count = made

Uncapped(r) == r.mode = "volume" \/ r.plan = "pro"

(* A free flat merchant gets no more than FREE_MONTHLY_ORDER_CAP orders in  *)
(* a billing cycle.                                                         *)
QuotaKept ==
    [][orders' # orders => Uncapped(row') \/ made' <= Cap]_vars

(* The same, as long as requests do not overlap.                            *)
QuotaKeptAlone ==
    [][orders' # orders /\ ~overlapped' => Uncapped(row') \/ made' <= Cap]_vars

(* The mode active when a cycle began governs it all the way through: the   *)
(* mode of a merchant in a cycle changes only as the next cycle begins.     *)
ModeGovernsCycle ==
    [][row'.mode # row.mode => row.resetAt = 0 \/ row'.resetAt # row.resetAt]_vars

(* The same, as long as requests do not overlap.                            *)
ModeGovernsCycleAlone ==
    [][row'.mode # row.mode /\ ~overlapped'
         => row.resetAt = 0 \/ row'.resetAt # row.resetAt]_vars

(* The volume a merchant owes its fee on is what the poller has credited in *)
(* the cycle, even when checkouts and mode changes overlap the pass, unless *)
(* a session that overlapped with another began a cycle: the columns a      *)
(* session did not change are left alone.                                   *)
VolumeIsTrue == ~staleRoll => row.volume = billed

(* The webhook secret in force is the one issued last, which the merchant   *)
(* was shown: no checkout, mode change or pass that loaded the row before   *)
(* the rotation (regenerate_webhook_secret) brings the old one back.        *)
SecretIsLastIssued == row.secret = rotations

(* A checkout waiting for the row's lock gets on: nobody keeps it for ever. *)
CheckoutsGetOn ==
    \A s \in Requests : pc[s] = "reserving" ~> pc[s] # "reserving"
=============================================================================
