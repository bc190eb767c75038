-------------------------- MODULE SettlementProofs --------------------------
(* Proofs about Settlement, for any number of orders, merchants, assets and *)
(* accounts, any amounts and transfers, and any bound on time and failures. *)
EXTENDS Settlement, TLAPS, FiniteSetTheorems

-----------------------------------------------------------------------------
(* Type correctness *)

(* A row that is not loaded is a well-formed row. *)
LEMMA BlankIsRow == Blank \in Row
  <1>1. (CHOOSE m \in Merchants : TRUE) \in Merchants
    BY AddressAssumption
  <1>2. (CHOOSE a \in Amounts : TRUE) \in Amounts
    BY MoneyAssumption
  <1> QED
    BY <1>1, <1>2 DEF Blank, Row, Status

(* It is not loaded and claims nothing. *)
LEMMA BlankFields == Blank.status = "none" /\ Blank.via = Unpaid /\ Blank.from = 0
  BY DEF Blank

(* Amounts of orders are natural numbers. *)
LEMMA RowFields ==
  ASSUME NEW r \in Row
  PROVE  /\ r.merchant \in Merchants
         /\ r.amount \in Amounts /\ r.amount \in Nat
         /\ r.expires \in Nat /\ r.from \in Nat /\ r.paidAt \in Nat
         /\ r.status \in Status /\ r.delivered \in BOOLEAN
         /\ r.via \in Assets \cup {EvmPaid, Unpaid}
  BY MoneyAssumption DEF Row

(* An order just created is a well-formed row. *)
LEMMA NewOrderIsRow ==
  ASSUME NEW m \in Merchants, NEW a \in Amounts, NEW t \in Nat
  PROVE  NewOrder(m, a, t) \in Row
  <1>1. t + Lifetime \in Nat
    BY BoundsAssumption
  <1>2. \A e \in Nat : [Blank EXCEPT !.status = "pending", !.merchant = m, !.amount = a,
                                     !.expires = e] \in Row
    BY BlankIsRow DEF Row, Status
  <1> QED
    BY <1>1, <1>2 DEF NewOrder

(* A session that has claimed nothing. *)
LEMMA NoClaimsType == NoClaims \in Watermarks
  <1>1. [s \in Assets |-> 0] \in [Assets -> Nat]
    OBVIOUS
  <1> QED
    BY <1>1 DEF NoClaims, Watermarks

(* What a commit writes is a table of rows. *)
LEMMA FlushedType ==
  ASSUME TypeOK
  PROVE  Flushed \in [Orders -> Row]
  BY DEF TypeOK, Flushed

(* Settling an order keeps the session's rows well formed. *)
LEMMA SettledType ==
  ASSUME TypeOK, NEW o \in Orders, NEW via \in Assets \cup {EvmPaid}, NEW from \in Nat
  PROVE  Settled(o, via, from) \in [Orders -> Row]
  <1>1. view[o] \in Row
    BY DEF TypeOK
  <1>2. [view[o] EXCEPT !.status = "paid", !.via = via, !.from = from, !.paidAt = now] \in Row
    BY <1>1 DEF TypeOK, Row, Status
  <1> QED
    BY <1>2 DEF TypeOK, Settled

(* Every step keeps every variable's type.                                  *)
LEMMA TypeStep ==
  ASSUME TypeOK, [Next]_vars
  PROVE  TypeOK'
  <1> USE DEF TypeOK
  <1>1. CASE Checkout
    <2>1. PICK o \in Orders, m \in Merchants, a \in Amounts : CreateOrder(o, m, a)
      BY <1>1 DEF Checkout
    <2>2. NewOrder(m, a, clock) \in Row
      BY NewOrderIsRow
    <2> QED
      BY <2>1, <2>2 DEF CreateOrder, session, chain, outside
  <1>2. CASE Money
    <2>1. CASE \E h \in Accounts, p \in Transfers : DepositSolana(h, p)
      BY <2>1, MoneyAssumption DEF DepositSolana, database, session, outside
    <2>2. CASE \E h \in Accounts, left \in {0} \cup Transfers : WithdrawSolana(h, left)
      BY <2>2, MoneyAssumption DEF WithdrawSolana, database, session, outside
    <2>3. CASE \E o \in Orders, t \in EvmTokens, p \in Transfers : PayEvm(o, t, p)
      BY <2>3, MoneyAssumption DEF PayEvm, database, session, outside
    <2>4. CASE \E o \in Orders, t \in EvmTokens : SweepEvm(o, t)
      BY <2>4 DEF SweepEvm, database, session, outside
    <2> QED
      BY <1>2, <2>1, <2>2, <2>3, <2>4 DEF Money
  <1>3. CASE Tick
    BY <1>3 DEF Tick, database, session, chain, outside
  <1>4. CASE EmptyPass
    BY <1>4 DEF EmptyPass, vars
  <1>5. CASE BeginPass
    BY <1>5, BlankIsRow DEF BeginPass, Pending, database, chain, outside
  <1>6. ASSUME NEW o \in Orders, PollOrder(o) PROVE TypeOK'
    <2>1. CASE ExpireOrder(o)
      <3>1. [view[o] EXCEPT !.status = "expired"] \in Row
        BY DEF Row, Status
      <3> QED
        BY <2>1, <3>1 DEF ExpireOrder, database, chain, outside
    <2>2. CASE \E t \in EvmTokens : EvmFound(o, t)
      <3>1. Settled(o, EvmPaid, 0) \in [Orders -> Row]
        BY SettledType
      <3> QED
        BY <2>2, <3>1 DEF EvmFound, database, chain, outside
    <2>3. CASE EvmNotFound(o)
      BY <2>3 DEF EvmNotFound, database, chain, outside
    <2>4. CASE \E h \in Accounts : SolanaFound(o, h)
      <3>1. PICK h \in Accounts : SolanaFound(o, h)
        BY <2>4
      <3> DEFINE m == view[o].merchant
                 s == AssetOf[h]
      <3>2. m \in Merchants /\ s \in Assets /\ view[o].amount \in Nat
        BY RowFields, AddressAssumption
      <3>3. claimed[m][s] \in Nat /\ Claim(m, s, view[o].amount) \in Watermarks
        BY <3>2 DEF Claim, Watermarks
      <3>4. Settled(o, s, claimed[m][s]) \in [Orders -> Row]
        BY <3>2, <3>3, SettledType
      <3> QED
        BY <3>1, <3>3, <3>4 DEF SolanaFound, database, chain, outside
    <2>5. CASE LeavePending(o)
      BY <2>5 DEF LeavePending, database, chain, outside
    <2>6. ASSUME NEW reaches \in BOOLEAN, NEW answer,
                 Webhook(o, reaches, answer)
          PROVE TypeOK'
      <3>1. [view[o] EXCEPT !.delivered = TRUE] \in Row
        BY DEF Row
      <3> QED
        BY <2>6, <3>1 DEF Webhook, Posts, database, chain
    <2>7. CASE PushSent(o) \/ PushPrunes(o) \/ PushBreaksSession(o)
      BY <2>7, FlushedType DEF PushSent, PushPrunes, KeepSession, PushBreaksSession, FinishOrder,
           database, chain, outside
    <2> QED
      BY <1>6, <2>1, <2>2, <2>3, <2>4, <2>5, <2>6, <2>7 DEF PollOrder, SolanaNotFound,
           SolanaUnavailable, WebhookFails, WebhookUnacknowledged, WebhookDelivered
  <1>7. CASE Commit
    BY <1>7, BlankIsRow, NoClaimsType, FlushedType DEF Commit, KeepSession, EndPass, chain
  <1>8. CASE CommitFails \/ LosePass
    <2>1. RollBack
      BY <1>8 DEF CommitFails, LosePass
    <2>2. UNCHANGED <<clock, row, consumed, balance, evm, deposited, transfers, received>>
      BY <2>1 DEF RollBack, EndPass, chain, database
    <2>3. view' \in [Orders -> Row] /\ claimed' \in Watermarks
      BY <2>1, BlankIsRow, NoClaimsType DEF RollBack, EndPass
    <2>4. poisoned' \in BOOLEAN
      BY <2>1 DEF RollBack, EndPass
    <2>5. lost' \in Nat
      BY <2>1 DEF RollBack
    <2> QED
      BY <2>1, <2>2, <2>3, <2>4, <2>5 DEF RollBack, EndPass
  <1>9. CASE UNCHANGED vars
    BY <1>9 DEF vars
  <1> QED
    BY <1>1, <1>2, <1>3, <1>4, <1>5, <1>6, <1>7, <1>8, <1>9 DEF Next, Poll

(* Every variable keeps its type: the session's rows and watermarks, and    *)
(* what the poller commits from them, are rows and natural numbers.         *)
THEOREM TypeCorrect == Spec => []TypeOK
  <1>1. Init => TypeOK
    <2>1. [t \in EvmTokens |-> 0] \in [EvmTokens -> Nat]
      OBVIOUS
    <2>2. Init => poisoned \in BOOLEAN
      BY DEF Init
    <2> QED
      BY <2>1, <2>2, BlankIsRow, NoClaimsType DEF Init, TypeOK
  <1>2. TypeOK /\ [Next]_vars => TypeOK'
    BY TypeStep
  <1> QED
    BY <1>1, <1>2, PTL DEF Spec
-----------------------------------------------------------------------------
(* What each way of changing the session's rows does to them *)

(* The part of a row that says what it claims. *)
SameClaim(q, r) ==
    /\ q.merchant = r.merchant /\ q.amount = r.amount
    /\ q.via = r.via /\ q.from = r.from

(* Settling an order changes that order only, and not whose it is. *)
LEMMA SettledEffect ==
  ASSUME TypeOK, NEW o \in Orders, NEW via \in Assets \cup {EvmPaid}, NEW from \in Nat
  PROVE  LET v == Settled(o, via, from) IN
         /\ \A p \in Orders : p # o => v[p] = view[p]
         /\ v[o].status = "paid" /\ v[o].via = via /\ v[o].from = from
         /\ v[o].merchant = view[o].merchant /\ v[o].amount = view[o].amount
         /\ v[o].expires = view[o].expires /\ v[o].paidAt = now
  <1> DEFINE q == [view[o] EXCEPT !.status = "paid", !.via = via, !.from = from, !.paidAt = now]
  <1>1. view[o] \in Row
    BY DEF TypeOK
  <1>2. /\ q.status = "paid" /\ q.via = via /\ q.from = from /\ q.paidAt = now
        /\ q.merchant = view[o].merchant /\ q.amount = view[o].amount
        /\ q.expires = view[o].expires
    BY <1>1 DEF Row
  <1>3. Settled(o, via, from) = [view EXCEPT ![o] = q]
    BY DEF Settled
  <1>4. Settled(o, via, from)[o] = q /\ \A p \in Orders : p # o => Settled(o, via, from)[p] = view[p]
    BY <1>3 DEF TypeOK
  <1> QED
    BY <1>2, <1>4

(* Expiring an order changes its status and nothing else. *)
LEMMA ExpireEffect ==
  ASSUME TypeOK, NEW o \in Orders, ExpireOrder(o)
  PROVE  /\ \A p \in Orders : p # o => view'[p] = view[p]
         /\ view'[o].status = "expired" /\ view'[o].expires = view[o].expires
         /\ SameClaim(view'[o], view[o])
  <1>1. view[o] \in Row
    BY DEF TypeOK
  <1>2. view'[o] = [view[o] EXCEPT !.status = "expired"]
        /\ \A p \in Orders : p # o => view'[p] = view[p]
    BY DEF TypeOK, ExpireOrder
  <1> QED
    BY <1>1, <1>2 DEF Row, SameClaim

(* The answer to a webhook changes delivered and nothing else. *)
LEMMA WebhookEffect ==
  ASSUME TypeOK, NEW o \in Orders, NEW reaches \in BOOLEAN, NEW answer,
         Webhook(o, reaches, answer)
  PROVE  /\ \A p \in Orders : p # o => view'[p] = view[p]
         /\ view'[o].status = view[o].status /\ view'[o].expires = view[o].expires
         /\ view'[o].paidAt = view[o].paidAt
         /\ SameClaim(view'[o], view[o])
  <1>1. view[o] \in Row
    BY DEF TypeOK
  <1>2. CASE view' = view
    BY <1>2 DEF SameClaim
  <1>3. CASE view' = [view EXCEPT ![o].delivered = TRUE]
    <2>1. view'[o] = [view[o] EXCEPT !.delivered = TRUE]
          /\ \A p \in Orders : p # o => view'[p] = view[p]
      BY <1>3 DEF TypeOK
    <2> QED
      BY <1>1, <2>1 DEF Row, SameClaim
  <1> QED
    BY <1>2, <1>3 DEF Webhook

-----------------------------------------------------------------------------
(* The session *)

(* The order whose turn it is has been settled, and is being announced. *)
Announced(o) == pc \in {"webhook", "push"} /\ IsHead(o)

(* How the session's copies stand to the database: an order not yet         *)
(* finished is pending in the database, one that is finished is pending     *)
(* there or has been committed as it stands.                                *)
SessionInv ==
    /\ pc = "idle" => todo = {} /\ \A o \in Orders : ~Loaded(o)
    /\ \A o \in Orders : Loaded(o) => row[o].status = "pending" \/ row[o] = view[o]
    /\ \A o \in todo :
          /\ row[o].status = "pending"
          /\ Announced(o) => view[o].status = "paid"
          /\ ~Announced(o) => view[o].status = "pending"
(* Only one order has its turn. *)
LEMMA OneHead ==
  ASSUME TypeOK, NEW o \in todo, NEW p \in todo, IsHead(o), IsHead(p)
  PROVE  o = p
  <1>1. o <= p /\ p <= o /\ o \in Int /\ p \in Int
    BY BoundsAssumption DEF IsHead, TypeOK, Orders
  <1> QED
    BY <1>1

(* Finishing an order that leaves the rows of the session as they are. *)
LEMMA FinishKeepsSession ==
  ASSUME TypeOK, SessionInv, NEW o \in Orders, IsHead(o),
         pc' = "next", todo' = todo \ {o}, view' = view, row' = row \/ row' = Flushed,
         pc \in {"solana", "push"}
  PROVE  SessionInv'
  <1>1. \A p \in todo' : p \in todo /\ ~Announced(p) /\ view'[p].status = "pending"
    BY OneHead DEF SessionInv, Announced, IsHead
  <1>2. \A p \in todo' : ~Announced(p)'
    BY DEF Announced
  <1>3. \A p \in Orders : Loaded(p)' => Loaded(p)
    BY DEF Loaded
  <1>4. CASE row' = row
    BY <1>1, <1>2, <1>3, <1>4 DEF SessionInv, Loaded
  <1>5. CASE row' = Flushed
    <2>1. \A p \in Orders : row'[p] = IF Loaded(p) THEN view[p] ELSE row[p]
      BY <1>5 DEF Flushed
    <2>2. \A p \in todo' : Loaded(p) /\ p \in Orders
      BY <1>1 DEF Loaded, TypeOK
    <2> QED
      BY <1>1, <1>2, <1>3, <2>1, <2>2 DEF SessionInv, Loaded
  <1> QED
    BY <1>4, <1>5

(* Settling the order whose turn it is. *)
LEMMA SettlingKeepsSession ==
  ASSUME TypeOK, SessionInv, NEW o \in Orders, IsHead(o), pc \in {"next", "solana"},
         NEW via \in Assets \cup {EvmPaid}, NEW from \in Nat,
         view' = Settled(o, via, from), pc' = "webhook", todo' = todo, row' = row
  PROVE  SessionInv'
  <1>1. \A p \in todo : view[p].status = "pending" /\ p \in Orders
    BY DEF SessionInv, Announced, TypeOK
  <1>2. /\ \A p \in Orders : p # o => view'[p] = view[p]
        /\ view'[o].status = "paid"
    BY SettledEffect
  <1>3. o \in todo /\ row[o].status = "pending"
    BY DEF IsHead, SessionInv
  <1>4. \A p \in todo : Announced(p)' <=> p = o
    <2>1. \A p \in todo : IsHead(p)' <=> IsHead(p)
      BY DEF IsHead
    <2>2. \A p \in todo : IsHead(p) <=> p = o
      BY <1>3, OneHead
    <2> QED
      BY <2>1, <2>2 DEF Announced
  <1> QED
    BY <1>1, <1>2, <1>3, <1>4 DEF SessionInv, Loaded

(* The session's copies always stand to the database as SessionInv says.   *)
THEOREM SessionCorrect == Spec => []SessionInv
  <1>1. Init => SessionInv
    BY DEF Init, SessionInv, Loaded, Blank
  <1>2. TypeOK /\ SessionInv /\ [Next]_vars => SessionInv'
    <2> SUFFICES ASSUME TypeOK, SessionInv, [Next]_vars PROVE SessionInv'
      OBVIOUS
    <2>1. CASE Checkout
      <3>1. PICK o \in Orders, m \in Merchants, a \in Amounts : CreateOrder(o, m, a)
        BY <2>1 DEF Checkout
      <3>2. row[o].status = "none" /\ \A p \in Orders : p # o => row'[p] = row[p]
        BY <3>1 DEF CreateOrder, TypeOK
      <3>3. ~Loaded(o) /\ o \notin todo
        BY <3>2 DEF SessionInv, Loaded
      <3>4. UNCHANGED <<pc, todo, view>>
        BY <3>1 DEF CreateOrder, session
      <3> QED
        BY <3>2, <3>3, <3>4 DEF SessionInv, Loaded, Announced, IsHead, TypeOK
    <2>2. CASE Money \/ Tick \/ EmptyPass \/ UNCHANGED vars
      <3>1. UNCHANGED <<pc, todo, view, row>>
        BY <2>2 DEF Money, DepositSolana, WithdrawSolana, PayEvm, SweepEvm, Tick, EmptyPass,
             vars, database, session
      <3> QED
        BY <3>1 DEF SessionInv, Loaded, Announced, IsHead
    <2>3. CASE BeginPass
      <3>1. /\ pc' = "next" /\ todo' = Pending /\ row' = row
            /\ \A p \in Orders : view'[p] = IF p \in Pending THEN row[p] ELSE Blank
        BY <2>3 DEF BeginPass, database
      <3>2. \A p \in Orders : Loaded(p)' => p \in Pending
        BY <3>1, BlankFields DEF Loaded
      <3> QED
        BY <3>1, <3>2 DEF SessionInv, Pending, Announced
    <2>4. ASSUME NEW o \in Orders, PollOrder(o) PROVE SessionInv'
      <3>1. CASE ExpireOrder(o)
        <4>1. /\ pc = "next" /\ pc' = "next" /\ todo' = todo \ {o} /\ row' = row
              /\ o \in todo
          BY <3>1 DEF ExpireOrder, IsHead, database
        <4>2. \A p \in Orders : p # o => view'[p] = view[p]
          BY <3>1, ExpireEffect
        <4> QED
          BY <4>1, <4>2 DEF SessionInv, Loaded, Announced, TypeOK
      <3>2. CASE \E t \in EvmTokens : EvmFound(o, t)
        BY <3>2, SettlingKeepsSession DEF EvmFound, database
      <3>3. CASE EvmNotFound(o)
        BY <3>3 DEF EvmNotFound, SessionInv, Loaded, Announced, database
      <3>4. CASE \E h \in Accounts : SolanaFound(o, h)
        <4>1. PICK h \in Accounts : SolanaFound(o, h)
          BY <3>4
        <4>2. view[o].merchant \in Merchants /\ AssetOf[h] \in Assets
          BY RowFields, AddressAssumption DEF TypeOK
        <4>3. claimed[view[o].merchant][AssetOf[h]] \in Nat
          BY <4>2 DEF TypeOK, Watermarks
        <4> QED
          BY <4>1, <4>2, <4>3, SettlingKeepsSession DEF SolanaFound, database
      <3>5. CASE LeavePending(o)
        BY <3>5, FinishKeepsSession DEF LeavePending, database
      <3>6. ASSUME NEW reaches \in BOOLEAN, NEW answer,
                   Webhook(o, reaches, answer)
            PROVE SessionInv'
        <4>1. pc = "webhook" /\ pc' = "push" /\ todo' = todo /\ row' = row /\ IsHead(o)
          BY <3>6 DEF Webhook, database
        <4>2. /\ \A p \in Orders : p # o => view'[p] = view[p]
              /\ view'[o].status = view[o].status
          BY <3>6, WebhookEffect
        <4>3. \A p \in todo : Announced(p)' <=> Announced(p)
          BY <4>1 DEF Announced, IsHead
        <4>4. o \in todo /\ row[o].status = "pending"
          BY <4>1 DEF IsHead, SessionInv
        <4> QED
          BY <4>1, <4>2, <4>3, <4>4 DEF SessionInv, Loaded, TypeOK
      <3>7. CASE PushSent(o) \/ PushPrunes(o) \/ PushBreaksSession(o)
        BY <3>7, FinishKeepsSession DEF PushSent, PushPrunes, KeepSession, PushBreaksSession, FinishOrder,
             database
      <3> QED
        BY <2>4, <3>1, <3>2, <3>3, <3>4, <3>5, <3>6, <3>7 DEF PollOrder, SolanaNotFound,
             SolanaUnavailable, WebhookFails, WebhookUnacknowledged, WebhookDelivered
    <2>5. CASE Commit \/ CommitFails \/ LosePass
      <3>1. EndPass
        BY <2>5 DEF Commit, KeepSession, CommitFails, LosePass, RollBack
      <3> QED
        BY <3>1 DEF EndPass, SessionInv, Loaded, Blank
    <2> QED
      BY <2>1, <2>2, <2>3, <2>4, <2>5 DEF Next, Poll
  <1> QED
    BY <1>1, <1>2, TypeCorrect, PTL DEF Spec
-----------------------------------------------------------------------------
(* Claims *)

BelowIn(r, w) ==
    \A o \in Orders :
        r[o].via \in Assets => r[o].from + r[o].amount <= w[r[o].merchant][r[o].via]

(* The inductive strengthening of OnePaymentOneOrder: claims lie below the  *)
(* watermark they were made under, so that the next one starts above them.  *)
ClaimInv ==
    /\ DisjointIn(row) /\ BelowIn(row, consumed)
    /\ DisjointIn(Flushed) /\ BelowIn(Flushed, InForce)

(* The settlement in force, and the committed one, change in six ways.      *)
KeepsClaims ==
    /\ UNCHANGED <<row, consumed>> /\ InForce' = InForce
    /\ \A p \in Orders : SameClaim(Flushed'[p], Flushed[p])

Commits ==
    /\ row' = Flushed /\ Flushed' = Flushed
    /\ consumed' = InForce /\ InForce' = InForce

Forgets ==
    /\ UNCHANGED <<row, consumed>>
    /\ Flushed' = row /\ InForce' = consumed

Opens(o) ==
    /\ consumed' = consumed /\ InForce' = InForce
    /\ row[o].status = "none"
    /\ row'[o].via = Unpaid /\ Flushed'[o].via = Unpaid
    /\ \A p \in Orders : p # o => row'[p] = row[p] /\ Flushed'[p] = Flushed[p]

Claims(o) ==
    LET m == Flushed[o].merchant IN
    /\ UNCHANGED <<row, consumed>>
    /\ Flushed[o].status = "pending"
    /\ Flushed'[o].merchant = m /\ Flushed'[o].amount = Flushed[o].amount
    /\ Flushed'[o].via \in Assets
    /\ Flushed'[o].from = InForce[m][Flushed'[o].via]
    /\ InForce' = [InForce EXCEPT ![m][Flushed'[o].via] = @ + Flushed[o].amount]
    /\ \E h \in AccountsOf[m] :
          /\ AssetOf[h] = Flushed'[o].via
          /\ Enough(balance[h] - InForce[m][AssetOf[h]], Flushed[o].amount)
    /\ \A p \in Orders : p # o => Flushed'[p] = Flushed[p]

(* Settling on an EVM chain claims nothing. *)
SettlesOnEvm(o) ==
    /\ UNCHANGED <<row, consumed>> /\ InForce' = InForce
    /\ Flushed[o].status = "pending" /\ Flushed'[o].via = EvmPaid
    /\ \A p \in Orders : p # o => Flushed'[p] = Flushed[p]
(* The rows and watermarks in force, between passes and within one.         *)
LEMMA InForceFacts ==
  ASSUME TypeOK, SessionInv
  PROVE  /\ InForce \in Watermarks
         /\ \A p \in Orders : Flushed[p] = IF Loaded(p) THEN view[p] ELSE row[p]
         /\ \A p \in Orders : Flushed[p] \in Row
         /\ pc = "idle" => InForce = consumed /\ \A p \in Orders : Flushed[p] = row[p]
         /\ pc # "idle" => InForce = claimed
         /\ \A p \in todo : Flushed[p] = view[p]
  BY DEF TypeOK, SessionInv, InForce, Flushed, Loaded

(* A step that leaves the session's order rows and watermarks alone.        *)
LEMMA QuietStep ==
  ASSUME TypeOK, SessionInv, UNCHANGED <<row, consumed, claimed>>,
         pc = "idle" <=> pc' = "idle",
         \A p \in Orders : /\ Loaded(p)' <=> Loaded(p)
                           /\ Loaded(p) => SameClaim(view'[p], view[p])
  PROVE  KeepsClaims
  BY DEF KeepsClaims, InForce, Flushed, SameClaim

(* Every step of the system changes the settlement in one of those ways.    *)
LEMMA StepKinds ==
  ASSUME TypeOK, SessionInv, [Next]_vars
  PROVE  \/ KeepsClaims \/ Commits \/ Forgets
         \/ \E o \in Orders : Opens(o) \/ Claims(o) \/ SettlesOnEvm(o)
  <1>1. CASE Checkout
    <2>1. PICK o \in Orders, m \in Merchants, a \in Amounts : CreateOrder(o, m, a)
      BY <1>1 DEF Checkout
    <2>2. /\ row[o].status = "none" /\ row' = [row EXCEPT ![o] = NewOrder(m, a, clock)]
          /\ UNCHANGED <<pc, view, consumed, claimed>>
      BY <2>1 DEF CreateOrder, session
    <2>3. ~Loaded(o)
      BY <2>2 DEF SessionInv, Loaded
    <2>4. NewOrder(m, a, clock).via = Unpaid
      BY BlankIsRow, BlankFields DEF NewOrder, Row
    <2>5. Opens(o)
      BY <2>2, <2>3, <2>4 DEF Opens, InForce, Flushed, Loaded, TypeOK
    <2> QED
      BY <2>5
  <1>2. CASE Money \/ Tick \/ EmptyPass \/ UNCHANGED vars
    <2>1. UNCHANGED <<pc, view, row, consumed, claimed>>
      BY <1>2 DEF Money, DepositSolana, WithdrawSolana, PayEvm, SweepEvm, Tick, EmptyPass,
           vars, database, session
    <2> QED
      BY <2>1, QuietStep DEF Loaded, SameClaim
  <1>3. CASE BeginPass
    <2>1. /\ pc = "idle" /\ pc' = "next" /\ UNCHANGED <<row, consumed>> /\ claimed' = consumed
          /\ \A p \in Orders : view'[p] = IF p \in Pending THEN row[p] ELSE Blank
      BY <1>3 DEF BeginPass, database
    <2>2. \A p \in Orders : Flushed'[p] = row[p]
      BY <2>1, BlankFields DEF Flushed, Loaded
    <2>3. InForce' = InForce
      BY <2>1 DEF InForce
    <2> QED
      BY <2>1, <2>2, <2>3, InForceFacts DEF KeepsClaims, SameClaim
  <1>4. ASSUME NEW o \in Orders, PollOrder(o)
        PROVE  \/ KeepsClaims \/ Commits \/ Forgets
               \/ \E p \in Orders : Opens(p) \/ Claims(p) \/ SettlesOnEvm(p)
    <2>1. CASE ExpireOrder(o)
      <3>1. pc = "next" /\ pc' = "next" /\ UNCHANGED <<row, consumed, claimed>> /\ o \in todo
        BY <2>1 DEF ExpireOrder, IsHead, database
      <3>2. Loaded(o) /\ Loaded(o)'
        BY <2>1, <3>1, ExpireEffect DEF SessionInv, Loaded, Announced
      <3> QED
        BY <2>1, <3>1, <3>2, ExpireEffect, QuietStep DEF Loaded, SameClaim
    <2>2. CASE \E t \in EvmTokens : EvmFound(o, t)
      <3>1. /\ pc = "next" /\ pc' = "webhook" /\ UNCHANGED <<row, consumed, claimed>>
            /\ o \in todo /\ view' = Settled(o, EvmPaid, 0)
        BY <2>2 DEF EvmFound, IsHead, database
      <3>2. /\ view'[o].status = "paid" /\ view'[o].via = EvmPaid
            /\ \A p \in Orders : p # o => view'[p] = view[p]
        BY <3>1, SettledEffect
      <3>3. Flushed[o].status = "pending"
        BY <3>1, InForceFacts DEF SessionInv, Announced
      <3>4. SettlesOnEvm(o)
        BY <3>1, <3>2, <3>3 DEF SettlesOnEvm, InForce, Flushed, Loaded
      <3> QED
        BY <3>4
    <2>3. CASE EvmNotFound(o) \/ LeavePending(o) \/ PushSent(o) \/ PushBreaksSession(o)
      <3>1. /\ pc # "idle" /\ pc' # "idle" /\ UNCHANGED <<row, consumed, claimed, view>>
        BY <2>3 DEF EvmNotFound, LeavePending, PushSent, PushBreaksSession, FinishOrder, database
      <3> QED
        BY <3>1, QuietStep DEF Loaded, SameClaim
    <2>4. CASE \E h \in Accounts : SolanaFound(o, h)
      <3>1. PICK h \in Accounts : SolanaFound(o, h)
        BY <2>4
      <3> DEFINE m == view[o].merchant
                 s == AssetOf[h]
                 a == view[o].amount
      <3>2. m \in Merchants /\ s \in Assets /\ a \in Nat /\ claimed[m][s] \in Nat
        BY RowFields, AddressAssumption DEF TypeOK, Watermarks
      <3>3. /\ pc = "solana" /\ pc' = "webhook" /\ UNCHANGED <<row, consumed>> /\ o \in todo
            /\ view' = Settled(o, s, claimed[m][s]) /\ claimed' = Claim(m, s, a)
            /\ SolanaCovers(o, h)
        BY <3>1 DEF SolanaFound, IsHead, database
      <3>4. /\ \A p \in Orders : p # o => view'[p] = view[p]
            /\ view'[o].status = "paid" /\ view'[o].via = s /\ view'[o].from = claimed[m][s]
            /\ view'[o].merchant = m /\ view'[o].amount = a
        BY <3>2, <3>3, SettledEffect
      <3>5. /\ Flushed[o] = view[o] /\ Flushed'[o] = view'[o]
            /\ \A p \in Orders : p # o => Flushed'[p] = Flushed[p]
            /\ InForce = claimed /\ InForce' = claimed'
        BY <3>3, <3>4, InForceFacts DEF Flushed, Loaded, InForce
      <3>6. claimed' = [claimed EXCEPT ![m][s] = @ + a]
        BY <3>3 DEF Claim
      <3>7. h \in AccountsOf[m] /\ Enough(balance[h] - claimed[m][s], a)
        BY <3>3 DEF SolanaCovers
      <3>8. Flushed[o].status = "pending"
        BY <3>3, <3>5 DEF SessionInv, Announced
      <3>9. Claims(o)
        BY <3>2, <3>3, <3>4, <3>5, <3>6, <3>7, <3>8 DEF Claims
      <3> QED
        BY <3>9
    <2>5. ASSUME NEW reaches \in BOOLEAN, NEW answer,
                 Webhook(o, reaches, answer)
          PROVE  KeepsClaims
      <3>1. pc = "webhook" /\ pc' = "push" /\ UNCHANGED <<row, consumed, claimed>>
        BY <2>5 DEF Webhook, database
      <3>2. /\ \A p \in Orders : p # o => view'[p] = view[p]
            /\ view'[o].status = view[o].status /\ SameClaim(view'[o], view[o])
        BY <2>5, WebhookEffect
      <3> QED
        BY <3>1, <3>2, QuietStep DEF Loaded, SameClaim
    <2>6. CASE PushPrunes(o)
      <3>1. /\ pc = "push" /\ pc' = "next" /\ UNCHANGED <<view, claimed>>
            /\ row' = Flushed /\ consumed' = claimed
        BY <2>6 DEF PushPrunes, KeepSession, FinishOrder
      <3>2. Flushed' = Flushed
        BY <3>1 DEF Flushed, Loaded
      <3> QED
        BY <3>1, <3>2 DEF Commits, InForce
    <2> QED
      BY <1>4, <2>1, <2>2, <2>3, <2>4, <2>5, <2>6 DEF PollOrder, SolanaNotFound,
           SolanaUnavailable, WebhookFails, WebhookUnacknowledged, WebhookDelivered
  <1>5. CASE Commit
    <2>1. /\ pc = "next" /\ row' = Flushed /\ consumed' = claimed /\ pc' = "idle"
          /\ view' = [p \in Orders |-> Blank]
      BY <1>5 DEF Commit, KeepSession, EndPass
    <2>2. Flushed' = [p \in Orders |-> row'[p]]
      BY <2>1, BlankFields DEF Flushed, Loaded
    <2>3. Flushed' = Flushed
      BY <2>1, <2>2 DEF Flushed
    <2> QED
      BY <2>1, <2>3 DEF Commits, InForce
  <1>6. CASE CommitFails \/ LosePass
    <2>1. /\ pc' = "idle" /\ UNCHANGED <<row, consumed>>
          /\ view' = [p \in Orders |-> Blank]
      BY <1>6 DEF CommitFails, LosePass, RollBack, EndPass, database
    <2>2. Flushed' = [p \in Orders |-> row[p]]
      BY <2>1, BlankFields DEF Flushed, Loaded
    <2>3. Flushed' = row
      BY <2>2 DEF TypeOK
    <2> QED
      BY <2>1, <2>3 DEF Forgets, InForce
  <1> QED
    BY <1>1, <1>2, <1>3, <1>4, <1>5, <1>6 DEF Next, Poll
(* A claim that starts at the watermark and raises it past itself overlaps  *)
(* no claim that lies below.                                                *)
LEMMA ClaimStep ==
  ASSUME TypeOK, SessionInv, DisjointIn(Flushed), BelowIn(Flushed, InForce),
         NEW o \in Orders, Claims(o)
  PROVE  DisjointIn(Flushed') /\ BelowIn(Flushed', InForce')
  <1> DEFINE m == Flushed[o].merchant
             s == Flushed'[o].via
             a == Flushed[o].amount
  <1>1. \A p \in Orders : Flushed[p] \in Row
    BY InForceFacts
  <1>2. m \in Merchants /\ s \in Assets /\ a \in Nat
    BY <1>1, RowFields DEF Claims
  <1>3. \A n \in Merchants, x \in Assets : InForce[n][x] \in Nat
    BY InForceFacts DEF Watermarks
  <1>4. /\ InForce'[m][s] = InForce[m][s] + a
        /\ \A n \in Merchants, x \in Assets :
              <<n, x>> # <<m, s>> => InForce'[n][x] = InForce[n][x]
    BY <1>2, InForceFacts DEF Claims, Watermarks
  <1>5. \A n \in Merchants, x \in Assets : InForce[n][x] <= InForce'[n][x]
    BY <1>2, <1>3, <1>4
  <1>6. /\ Flushed'[o].merchant = m /\ Flushed'[o].amount = a
        /\ Flushed'[o].from = InForce[m][s]
        /\ \A p \in Orders : p # o => Flushed'[p] = Flushed[p]
    BY DEF Claims
  <1>7. \A p \in Orders : /\ Flushed[p].merchant \in Merchants
                          /\ Flushed[p].from \in Nat /\ Flushed[p].amount \in Nat
    BY <1>1, RowFields
  <1>8. ASSUME NEW p \in Orders, Flushed'[p].via \in Assets
        PROVE  Flushed'[p].from + Flushed'[p].amount
                 <= InForce'[Flushed'[p].merchant][Flushed'[p].via]
    <2>1. CASE p = o
      BY <2>1, <1>2, <1>3, <1>4, <1>6
    <2>2. CASE p # o
      <3>1. Flushed[p].from + Flushed[p].amount <= InForce[Flushed[p].merchant][Flushed[p].via]
        BY <1>6, <1>8, <2>2 DEF BelowIn
      <3>2. InForce[Flushed[p].merchant][Flushed[p].via]
              <= InForce'[Flushed[p].merchant][Flushed[p].via]
        BY <1>5, <1>6, <1>7, <1>8, <2>2
      <3>3. /\ InForce[Flushed[p].merchant][Flushed[p].via] \in Nat
            /\ InForce'[Flushed[p].merchant][Flushed[p].via] \in Nat
        BY <1>2, <1>3, <1>4, <1>6, <1>7, <1>8, <2>2
      <3> QED
        BY <3>1, <3>2, <3>3, <1>6, <1>7, <2>2
    <2> QED
      BY <2>1, <2>2
  <1>9. ASSUME NEW p \in Orders, p # o, SameClaimant(Flushed', o, p)
        PROVE  Flushed'[p].from + Flushed'[p].amount <= Flushed'[o].from
    BY <1>6, <1>9 DEF SameClaimant, BelowIn
  <1>10. DisjointIn(Flushed')
    <2> SUFFICES ASSUME NEW p \in Orders, NEW q \in Orders, p # q,
                        SameClaimant(Flushed', p, q)
                 PROVE  \/ Flushed'[p].from + Flushed'[p].amount <= Flushed'[q].from
                        \/ Flushed'[q].from + Flushed'[q].amount <= Flushed'[p].from
      BY DEF DisjointIn
    <2>1. CASE p = o
      BY <2>1, <1>9
    <2>2. CASE q = o
      BY <2>2, <1>9 DEF SameClaimant
    <2>3. CASE p # o /\ q # o
      BY <2>3, <1>6 DEF DisjointIn, SameClaimant
    <2> QED
      BY <2>1, <2>2, <2>3
  <1> QED
    BY <1>8, <1>10 DEF BelowIn

(* No Solana payment settles two orders, whatever the interleaving of the   *)
(* poller with payments, withdrawals, new orders, mid-pass commits and lost *)
(* passes.                                                                  *)
THEOREM PaymentSettlesOneOrder == Spec => []OnePaymentOneOrder
  <1>1. Init => ClaimInv
    <2> SUFFICES ASSUME Init PROVE ClaimInv
      OBVIOUS
    <2>1. \A p \in Orders : row[p].via = Unpaid /\ Flushed[p].via = Unpaid
      BY BlankFields DEF Init, Flushed, Loaded
    <2> QED
      BY <2>1, AddressAssumption DEF ClaimInv, DisjointIn, BelowIn, SameClaimant
  <1>2. TypeOK /\ SessionInv /\ ClaimInv /\ [Next]_vars => ClaimInv'
    <2> SUFFICES ASSUME TypeOK, SessionInv, ClaimInv, [Next]_vars PROVE ClaimInv'
      OBVIOUS
    <2>1. CASE KeepsClaims
      BY <2>1 DEF KeepsClaims, ClaimInv, DisjointIn, BelowIn, SameClaimant, SameClaim
    <2>2. CASE Commits
      BY <2>2 DEF Commits, ClaimInv
    <2>3. CASE Forgets
      BY <2>3 DEF Forgets, ClaimInv
    <2>4. ASSUME NEW o \in Orders, Opens(o) PROVE ClaimInv'
      BY <2>4, AddressAssumption DEF Opens, ClaimInv, DisjointIn, BelowIn, SameClaimant
    <2>5. ASSUME NEW o \in Orders, Claims(o) PROVE ClaimInv'
      <3>1. UNCHANGED <<row, consumed>>
        BY <2>5 DEF Claims
      <3>2. DisjointIn(Flushed') /\ BelowIn(Flushed', InForce')
        BY <2>5, ClaimStep DEF ClaimInv
      <3> QED
        BY <3>1, <3>2 DEF ClaimInv
    <2>6. ASSUME NEW o \in Orders, SettlesOnEvm(o) PROVE ClaimInv'
      BY <2>6, AddressAssumption DEF SettlesOnEvm, ClaimInv, DisjointIn, BelowIn, SameClaimant
    <2> QED
      BY <2>1, <2>2, <2>3, <2>4, <2>5, <2>6, StepKinds
  <1>3. ClaimInv => OnePaymentOneOrder
    BY DEF ClaimInv, OnePaymentOneOrder
  <1> QED
    BY <1>1, <1>2, <1>3, TypeCorrect, SessionCorrect, PTL DEF Spec

-----------------------------------------------------------------------------
(* Backing *)

(* The inductive strengthening of ClaimsBacked: an account never holds more *)
(* than ever arrived at it.                                                 *)
BackedInv ==
    /\ ClaimsBacked
    /\ \A h \in Accounts : balance[h] <= deposited[h]

(* What arrived is never forgotten, and bounds what is there.               *)
LEMMA MoneyStep ==
  ASSUME TypeOK, BackedInv, [Next]_vars
  PROVE  \A h \in Accounts : deposited[h] <= deposited'[h] /\ balance'[h] <= deposited'[h]
  <1>1. CASE \E h \in Accounts, p \in Transfers : DepositSolana(h, p)
    BY <1>1, MoneyAssumption DEF DepositSolana, TypeOK, BackedInv
  <1>2. CASE \E h \in Accounts, left \in {0} \cup Transfers : WithdrawSolana(h, left)
    BY <1>2, MoneyAssumption DEF WithdrawSolana, TypeOK, BackedInv
  <1>3. CASE UNCHANGED <<balance, deposited>>
    BY <1>3 DEF TypeOK, BackedInv
  <1>4. ASSUME ~(\E h \in Accounts, p \in Transfers : DepositSolana(h, p)),
               ~(\E h \in Accounts, left \in {0} \cup Transfers : WithdrawSolana(h, left))
        PROVE  UNCHANGED <<balance, deposited>>
    BY <1>4 DEF Next, Checkout, CreateOrder, Money, PayEvm, SweepEvm, Tick, EmptyPass, vars,
       Poll, BeginPass, PollOrder, ExpireOrder, EvmFound, EvmNotFound, SolanaFound,
       SolanaNotFound, SolanaUnavailable, LeavePending, WebhookFails, WebhookUnacknowledged,
       WebhookDelivered, Webhook, PushSent, PushPrunes, PushBreaksSession, FinishOrder,
       Commit, KeepSession, CommitFails, LosePass, RollBack, EndPass, chain
  <1> QED
    BY <1>1, <1>2, <1>3, <1>4

(* The backing of the claims, with what it rests on, holds throughout.      *)
THEOREM BackedCorrect == Spec => []BackedInv
  <1>1. Init => BackedInv
    <2> SUFFICES ASSUME Init PROVE BackedInv
      OBVIOUS
    <2>1. \A m \in Merchants, s \in Assets : consumed[m][s] = 0 /\ InForce[m][s] = 0
      BY DEF Init, NoClaims, InForce
    <2>2. \A h \in Accounts : balance[h] <= deposited[h]
      BY DEF Init
    <2> QED
      BY <2>1, <2>2 DEF BackedInv, ClaimsBacked, BackedBy
  <1>2. TypeOK /\ SessionInv /\ BackedInv /\ [Next]_vars => BackedInv'
    <2> SUFFICES ASSUME TypeOK, SessionInv, BackedInv, [Next]_vars PROVE BackedInv'
      OBVIOUS
    <2> DEFINE Later(w) ==
          \A m \in Merchants, s \in Assets :
             \/ w[m][s] = 0
             \/ \E h \in AccountsOf[m], a \in Amounts :
                   AssetOf[h] = s /\ 100 * w[m][s] <= 100 * deposited'[h] + a
    <2>1. \A h \in Accounts : /\ deposited[h] \in Nat /\ deposited'[h] \in Int
                              /\ deposited[h] <= deposited'[h] /\ balance'[h] <= deposited'[h]
      <3>1. TypeOK'
        BY TypeStep
      <3> QED
        BY <3>1, MoneyStep DEF TypeOK
    <2>2. \A w \in Watermarks : BackedBy(w) => Later(w)
      <3> SUFFICES ASSUME NEW w \in Watermarks, BackedBy(w),
                          NEW m \in Merchants, NEW s \in Assets, w[m][s] # 0
                   PROVE  \E h \in AccountsOf[m], a \in Amounts :
                            AssetOf[h] = s /\ 100 * w[m][s] <= 100 * deposited'[h] + a
        OBVIOUS
      <3>1. PICK h \in AccountsOf[m], a \in Amounts :
               AssetOf[h] = s /\ 100 * w[m][s] <= 100 * deposited[h] + a
        BY DEF BackedBy
      <3>2. h \in Accounts /\ a \in Nat /\ w[m][s] \in Nat
        BY AddressAssumption, MoneyAssumption DEF Watermarks
      <3>3. 100 * w[m][s] <= 100 * deposited'[h] + a
        BY <3>1, <3>2, <2>1
      <3> QED
        BY <3>1, <3>3
    <2>3. Later(consumed) /\ Later(InForce)
      BY <2>2, InForceFacts DEF BackedInv, ClaimsBacked, TypeOK
    <2>4. Later(consumed') /\ Later(InForce')
      <3>1. CASE KeepsClaims
        BY <3>1, <2>3 DEF KeepsClaims
      <3>2. CASE Commits
        BY <3>2, <2>3 DEF Commits
      <3>3. CASE Forgets
        BY <3>3, <2>3 DEF Forgets
      <3>4. ASSUME NEW o \in Orders, Opens(o) PROVE Later(consumed') /\ Later(InForce')
        BY <3>4, <2>3 DEF Opens
      <3>5. ASSUME NEW o \in Orders, SettlesOnEvm(o) PROVE Later(consumed') /\ Later(InForce')
        BY <3>5, <2>3 DEF SettlesOnEvm
      <3>6. ASSUME NEW o \in Orders, Claims(o) PROVE Later(consumed') /\ Later(InForce')
        <4> DEFINE n == Flushed[o].merchant
                   x == Flushed'[o].via
                   b == Flushed[o].amount
        <4>1. n \in Merchants /\ x \in Assets /\ b \in Amounts /\ b \in Nat
          BY <3>6, InForceFacts, RowFields DEF Claims
        <4>2. InForce \in Watermarks /\ InForce[n][x] \in Nat
          BY <4>1, InForceFacts DEF Watermarks
        <4>3. /\ InForce'[n][x] = InForce[n][x] + b
              /\ \A m \in Merchants, s \in Assets :
                    <<m, s>> # <<n, x>> => InForce'[m][s] = InForce[m][s]
          BY <3>6, <4>1, <4>2 DEF Claims, Watermarks
        <4>4. PICK h \in AccountsOf[n] :
                 AssetOf[h] = x /\ Enough(balance[h] - InForce[n][x], b)
          BY <3>6 DEF Claims
        <4>5. h \in Accounts /\ balance[h] \in Nat /\ balance[h] <= deposited[h]
          BY <4>1, <4>4, AddressAssumption DEF TypeOK, BackedInv
        <4>6. 100 * InForce'[n][x] <= 100 * deposited'[h] + b
          BY <4>1, <4>2, <4>3, <4>4, <4>5, <2>1 DEF Enough
        <4>7. Later(InForce')
          <5> SUFFICES ASSUME NEW m \in Merchants, NEW s \in Assets, InForce'[m][s] # 0
                       PROVE  \E k \in AccountsOf[m], a \in Amounts :
                                AssetOf[k] = s /\ 100 * InForce'[m][s] <= 100 * deposited'[k] + a
            OBVIOUS
          <5>1. CASE m = n /\ s = x
            BY <5>1, <4>1, <4>4, <4>6
          <5>2. CASE ~(m = n /\ s = x)
            BY <5>2, <4>3, <2>3
          <5> QED
            BY <5>1, <5>2
        <4> QED
          BY <4>7, <3>6, <2>3 DEF Claims
      <3> QED
        BY <3>1, <3>2, <3>3, <3>4, <3>5, <3>6, StepKinds
    <2> QED
      BY <2>1, <2>4 DEF BackedInv, ClaimsBacked, BackedBy
  <1> QED
    BY <1>1, <1>2, TypeCorrect, SessionCorrect, PTL DEF Spec

(* Claims of all a merchant's orders are backed by what it received, to     *)
(* within the 1% allowance of a single order.                               *)
THEOREM ClaimsAreBacked == Spec => []ClaimsBacked
  <1>1. BackedInv => ClaimsBacked
    BY DEF BackedInv
  <1> QED
    BY <1>1, BackedCorrect, PTL
-----------------------------------------------------------------------------
(* Finality *)

(* Once an order is committed as paid or expired, no step changes its row:  *)
(* not the commit that ends a pass in which a push already committed it,    *)
(* nor any later pass.                                                      *)
THEOREM SettledStaysSettled == Spec => SettledIsFinal
  <1> DEFINE Kept == \A o \in Orders :
                       row[o].status \in {"paid", "expired"} => row'[o] = row[o]
  <1>1. TypeOK /\ SessionInv /\ [Next]_vars => Kept
    <2> SUFFICES ASSUME TypeOK, SessionInv, [Next]_vars PROVE Kept
      OBVIOUS
    <2>1. CASE row' = row
      BY <2>1
    <2>2. CASE row' = Flushed
      <3>1. \A o \in Orders : row'[o] = IF Loaded(o) THEN view[o] ELSE row[o]
        BY <2>2 DEF Flushed
      <3> QED
        BY <3>1 DEF SessionInv
    <2>3. CASE \E o \in Orders : Opens(o)
      BY <2>3 DEF Opens
    <2> QED
      BY <2>1, <2>2, <2>3, StepKinds DEF KeepsClaims, Commits, Forgets, Claims, SettlesOnEvm
  <1>2. TypeOK /\ SessionInv /\ [Next]_vars => [Kept]_vars
    BY <1>1
  <1> QED
    BY <1>2, TypeCorrect, SessionCorrect, PTL DEF Spec, SettledIsFinal

-----------------------------------------------------------------------------
(* A pass ends *)

(* Within a pass, a step goes on with the order at the head or finishes it. *)
GoesOn(o) ==
    \/ todo' = todo \ {o} /\ pc' = "next"
    \/ todo' = todo /\ <<pc, pc'>> \in {<<"next", "solana">>, <<"next", "webhook">>,
                                        <<"solana", "webhook">>, <<"webhook", "push">>}

(* What the poller does with one order goes on with it or finishes it.      *)
LEMMA PollGoesOn ==
  ASSUME NEW o \in Orders, PollOrder(o)
  PROVE  o \in todo /\ pc # "idle" /\ GoesOn(o)
  <1>1. ASSUME NEW reaches, NEW answer, Webhook(o, reaches, answer)
        PROVE  o \in todo /\ pc # "idle" /\ GoesOn(o)
    BY <1>1 DEF Webhook, IsHead, GoesOn
  <1>2. CASE \/ WebhookFails(o) \/ WebhookUnacknowledged(o) \/ WebhookDelivered(o)
    BY <1>1, <1>2 DEF WebhookFails, WebhookUnacknowledged, WebhookDelivered
  <1>3. CASE \/ ExpireOrder(o) \/ \E t \in EvmTokens : EvmFound(o, t)
             \/ EvmNotFound(o) \/ \E h \in Accounts : SolanaFound(o, h)
             \/ LeavePending(o) \/ FinishOrder(o)
    BY <1>3 DEF ExpireOrder, EvmFound, EvmNotFound, SolanaFound, LeavePending, FinishOrder,
         IsHead, GoesOn
  <1> QED
    BY <1>2, <1>3 DEF PollOrder, SolanaNotFound, SolanaUnavailable, PushSent, PushPrunes,
       PushBreaksSession

(* An order whose balances are read, or that is announced, is in the pass.  *)
BusyInv == pc \in {"solana", "webhook", "push"} => todo # {}

(* The poller is never in the middle of an order it has finished.           *)
LEMMA BusyCorrect == Spec => []BusyInv
  <1>1. Init => BusyInv
    BY DEF Init, BusyInv
  <1>2. BusyInv /\ [Next]_vars => BusyInv'
    <2> SUFFICES ASSUME BusyInv, [Next]_vars PROVE BusyInv'
      OBVIOUS
    <2>1. CASE Checkout \/ Money \/ Tick \/ EmptyPass \/ UNCHANGED vars
      BY <2>1 DEF Checkout, CreateOrder, Money, DepositSolana, WithdrawSolana, PayEvm, SweepEvm,
           Tick, EmptyPass, vars, session, BusyInv
    <2>2. CASE BeginPass \/ Commit \/ CommitFails \/ LosePass
      BY <2>2 DEF BeginPass, Commit, CommitFails, LosePass, RollBack, EndPass, BusyInv
    <2>3. ASSUME NEW o \in Orders, PollOrder(o) PROVE BusyInv'
      BY <2>3, PollGoesOn DEF GoesOn, BusyInv
    <2> QED
      BY <2>1, <2>2, <2>3 DEF Next, Poll
  <1> QED
    BY <1>1, <1>2, PTL DEF Spec

(* The orders of a pass are finitely many, and finishing one leaves fewer.  *)
LEMMA TodoCount ==
  ASSUME TypeOK
  PROVE  /\ Cardinality(todo) \in Nat
         /\ todo # {} => Cardinality(todo) # 0
         /\ \A o \in todo : Cardinality(todo \ {o}) = Cardinality(todo) - 1
  <1>1. IsFiniteSet(Orders)
    BY BoundsAssumption, FS_Interval DEF Orders
  <1>2. IsFiniteSet(todo)
    BY <1>1, FS_Subset DEF TypeOK
  <1> QED
    BY <1>2, FS_CardinalityType, FS_EmptySet, FS_RemoveElement

(* Each step of a pass brings its end nearer, whatever the chains, the      *)
(* merchant's server and the push service answer: the part of liveness that *)
(* needs no fairness (poll_pending_orders visits each loaded order once).   *)
THEOREM PassesEnd == Spec => PassMovesOn
  <1> DEFINE Fewer == session' # session /\ pc # "idle" => StepsLeft' < StepsLeft
  <1>1. TypeOK /\ BusyInv /\ [Next]_vars => Fewer
    <2> SUFFICES ASSUME TypeOK, BusyInv, [Next]_vars, session' # session, pc # "idle"
                 PROVE  StepsLeft' < StepsLeft
      OBVIOUS
    <2> DEFINE n == Cardinality(todo)
    <2>1. /\ Rank["next"] = 0 /\ Rank["solana"] = 1
          /\ Rank["webhook"] = 2 /\ Rank["push"] = 3
      BY DEF Rank
    <2>2. n \in Nat /\ (todo # {} => n >= 1) /\ StepsLeft = 4 * n - Rank[pc] + 1
      BY TodoCount DEF StepsLeft
    <2>3. CASE Commit \/ CommitFails \/ LosePass
      <3>1. StepsLeft' = 0
        BY <2>3 DEF Commit, CommitFails, LosePass, RollBack, EndPass, StepsLeft
      <3>2. StepsLeft > 0
        BY <2>1, <2>2 DEF BusyInv, TypeOK
      <3> QED
        BY <3>1, <3>2
    <2>4. ASSUME NEW o \in Orders, PollOrder(o) PROVE StepsLeft' < StepsLeft
      <3>1. o \in todo /\ GoesOn(o)
        BY <2>4, PollGoesOn
      <3>2. CASE todo' = todo \ {o} /\ pc' = "next"
        <4>1. Cardinality(todo') = n - 1
          BY <3>1, <3>2, TodoCount
        <4>2. StepsLeft' = 4 * (n - 1) + 1
          BY <3>2, <4>1, <2>1, <2>2 DEF StepsLeft
        <4>3. Rank[pc] \in 0 .. 3
          BY <2>1 DEF TypeOK
        <4> QED
          BY <4>1, <4>2, <4>3, <2>2
      <3>3. CASE /\ todo' = todo
                 /\ <<pc, pc'>> \in {<<"next", "solana">>, <<"next", "webhook">>,
                                     <<"solana", "webhook">>, <<"webhook", "push">>}
        <4>1. StepsLeft' = 4 * n - Rank[pc'] + 1
          BY <3>3 DEF StepsLeft
        <4>2. Rank[pc'] > Rank[pc] /\ Rank[pc'] \in Nat /\ Rank[pc] \in Nat
          BY <3>3, <2>1
        <4> QED
          BY <4>1, <4>2, <2>2
      <3> QED
        BY <3>1, <3>2, <3>3 DEF GoesOn
    <2>5. ~(Checkout \/ Money \/ Tick \/ EmptyPass \/ BeginPass \/ UNCHANGED vars)
      BY DEF Checkout, CreateOrder, Money, DepositSolana, WithdrawSolana, PayEvm, SweepEvm,
         Tick, EmptyPass, BeginPass, vars, session
    <2> QED
      BY <2>3, <2>4, <2>5 DEF Next, Poll
  <1>2. TypeOK /\ BusyInv /\ [Next]_vars => [Fewer]_vars
    BY <1>1
  <1> QED
    BY <1>2, TypeCorrect, BusyCorrect, PTL DEF Spec, PassMovesOn
=============================================================================
