---------------------------- MODULE NoticeProofs ----------------------------
(* What an order's row says is true: when it was paid or expired, and       *)
(* whether the merchant was told.  Proofs, for any number of orders,        *)
(* merchants and accounts and any bound on time and losses.                 *)
EXTENDS LedgerProofs

-----------------------------------------------------------------------------
(* One row *)

Timely(r, t) ==
    /\ r.status = "paid" => r.paidAt < r.expires /\ r.paidAt <= t
    /\ r.status = "expired" => r.expires <= t

Told(r, n) == r.delivered => r.status = "paid" /\ n > 0

Within(r, n, l) == n <= l + (IF r.status = "paid" THEN 1 ELSE 0)

(* The head of the pass is not overdue while its accounts are read, and has *)
(* not been announced by this pass before its webhook.                      *)
HeadInv ==
    \A o \in todo :
        IsHead(o) => /\ pc = "solana" => now < view[o].expires
                     /\ pc = "webhook" => received[o] <= lost

NoticeInv ==
    /\ now <= clock
    /\ \A o \in Orders : Timely(row[o], clock) /\ Told(row[o], received[o])
    /\ \A o \in Orders :
          /\ Timely(Flushed[o], clock) /\ Told(Flushed[o], received[o])
          /\ Within(Flushed[o], received[o], lost)
    /\ HeadInv

(* What is true of a row stays true.                                        *)
LEMMA RowCarries ==
  ASSUME NEW r \in Row, NEW t \in Nat, NEW u \in Nat, t <= u,
         NEW n \in Nat, NEW k \in Nat, n <= k, Timely(r, t), Told(r, n)
  PROVE  Timely(r, u) /\ Told(r, k)
  BY RowFields DEF Timely, Told

(* What a commit would write, before and after a step.                      *)
LEMMA FlushedPointwise ==
  /\ \A p \in Orders : Flushed[p] = IF Loaded(p) THEN view[p] ELSE row[p]
  /\ \A p \in Orders : Flushed'[p] = IF Loaded(p)' THEN view'[p] ELSE row'[p]
  BY DEF Flushed

(* A step that tells nobody, and commits what is in force or nothing.       *)
LEMMA QuietNotice ==
  ASSUME TypeOK, TypeOK', NoticeInv,
         row' = row \/ row' = Flushed,
         \A p \in Orders : Flushed'[p] = Flushed[p],
         clock <= clock', now' <= clock', received' = received, lost' = lost, HeadInv'
  PROVE  NoticeInv'
  <1>1. \A p \in Orders : /\ row[p] \in Row /\ Flushed[p] \in Row /\ received[p] \in Nat
                          /\ received'[p] = received[p]
    BY FlushedType DEF TypeOK
  <1>2. clock \in Nat /\ clock' \in Nat
    BY DEF TypeOK
  <1>3. ASSUME NEW o \in Orders
        PROVE  /\ Timely(row[o], clock') /\ Told(row[o], received'[o])
               /\ Timely(Flushed[o], clock') /\ Told(Flushed[o], received'[o])
               /\ Within(Flushed[o], received'[o], lost')
    BY <1>1, <1>2, RowCarries DEF NoticeInv
  <1>4. \A o \in Orders : Timely(row'[o], clock') /\ Told(row'[o], received'[o])
    BY <1>3
  <1>5. \A o \in Orders : /\ Timely(Flushed'[o], clock') /\ Told(Flushed'[o], received'[o])
                          /\ Within(Flushed'[o], received'[o], lost')
    BY <1>3
  <1> QED
    BY <1>4, <1>5 DEF NoticeInv

(* A step that changes one order's row in the session, and only there.      *)
LEMMA NoticeOfOne ==
  ASSUME TypeOK, NoticeInv, NEW o \in Orders, UNCHANGED <<clock, row, now, lost>>,
         \A p \in Orders : p # o => Flushed'[p] = Flushed[p] /\ received'[p] = received[p],
         received[o] <= received'[o], received'[o] \in Nat,
         Timely(Flushed'[o], clock), Told(Flushed'[o], received'[o]),
         Within(Flushed'[o], received'[o], lost),
         HeadInv'
  PROVE  NoticeInv'
  <1>1. Timely(row[o], clock) /\ Told(row[o], received'[o])
    <2>1. row[o] \in Row /\ received[o] \in Nat /\ clock \in Nat
      BY DEF TypeOK
    <2> QED
      BY <2>1, RowCarries DEF NoticeInv
  <1>2. \A p \in Orders : Timely(row[p], clock) /\ Told(row[p], received'[p])
    BY <1>1 DEF NoticeInv
  <1>3. \A p \in Orders : /\ Timely(Flushed'[p], clock) /\ Told(Flushed'[p], received'[p])
                          /\ Within(Flushed'[p], received'[p], lost)
    BY DEF NoticeInv
  <1> QED
    BY <1>2, <1>3 DEF NoticeInv

(* Settling an order that is not overdue.                                   *)
LEMMA SettlingNotices ==
  ASSUME TypeOK, SessionInv, NoticeInv, NEW o \in Orders, IsHead(o), pc \in {"next", "solana"},
         now < view[o].expires,
         NEW via \in Assets \cup {EvmPaid}, NEW from \in Nat, view' = Settled(o, via, from),
         pc' = "webhook", UNCHANGED <<clock, row, now, todo, received, lost>>
  PROVE  NoticeInv'
  <1> DEFINE q == [view[o] EXCEPT !.status = "paid", !.via = via, !.from = from, !.paidAt = now]
  <1>1. o \in todo /\ view[o].status = "pending" /\ view[o] \in Row
    BY DEF SessionInv, Announced, IsHead, TypeOK
  <1>2. view' = [view EXCEPT ![o] = q]
    BY DEF Settled
  <1>3. view'[o] = q /\ \A p \in Orders : p # o => view'[p] = view[p]
    BY <1>2 DEF TypeOK
  <1>4. /\ view'[o].status = "paid" /\ view'[o].paidAt = now
        /\ view'[o].expires = view[o].expires /\ view'[o].delivered = view[o].delivered
    BY <1>1, <1>3 DEF Row
  <1>5. Flushed[o] = view[o] /\ Flushed'[o] = view'[o]
    BY <1>1, <1>4, FlushedPointwise DEF Loaded
  <1>6. \A p \in Orders : p # o => Flushed'[p] = Flushed[p]
    BY <1>3, FlushedPointwise DEF Loaded
  <1>7. ~view[o].delivered /\ received[o] <= lost
    BY <1>1, <1>5 DEF NoticeInv, Told, Within, TypeOK
  <1>8. /\ Timely(Flushed'[o], clock) /\ Told(Flushed'[o], received[o])
        /\ Within(Flushed'[o], received[o], lost)
    BY <1>4, <1>5, <1>7 DEF Timely, Told, Within, NoticeInv, TypeOK
  <1>9. HeadInv'
    <2> SUFFICES ASSUME NEW p \in todo, IsHead(p)' PROVE received[p] <= lost
      BY DEF HeadInv
    <2> QED
      BY <1>1, <1>7, OneHead DEF IsHead
  <1> QED
    BY <1>6, <1>8, <1>9, NoticeOfOne DEF TypeOK

(* The answer of the merchant's server, and what is made of it.             *)
LEMMA WebhookNotices ==
  ASSUME TypeOK, SessionInv, NoticeInv, NEW o \in Orders, NEW reaches \in BOOLEAN, NEW answer,
         answer = "ok" => reaches, Webhook(o, reaches, answer)
  PROVE  NoticeInv'
  <1>1. /\ pc = "webhook" /\ pc' = "push" /\ IsHead(o) /\ o \in todo
        /\ UNCHANGED <<clock, row, now, todo, lost>>
    BY DEF Webhook, IsHead, database
  <1>2. view[o].status = "paid" /\ view[o] \in Row /\ received[o] \in Nat /\ received[o] <= lost
    BY <1>1 DEF SessionInv, Announced, TypeOK, NoticeInv, HeadInv
  <1>3. received' = IF reaches THEN [received EXCEPT ![o] = @ + 1] ELSE received
    BY DEF Webhook, Posts
  <1>4. /\ received'[o] = IF reaches THEN received[o] + 1 ELSE received[o]
        /\ \A p \in Orders : p # o => received'[p] = received[p]
    BY <1>3 DEF TypeOK
  <1>5. /\ \A p \in Orders : p # o => view'[p] = view[p]
        /\ view'[o].status = view[o].status /\ view'[o].expires = view[o].expires
        /\ view'[o].paidAt = view[o].paidAt
    BY WebhookEffect
  <1>6. view'[o].delivered => view[o].delivered \/ reaches
    <2>1. CASE answer = "ok"
      BY <2>1
    <2>2. CASE answer # "ok"
      BY <2>2 DEF Webhook, Delivered
    <2> QED
      BY <2>1, <2>2
  <1>7. Flushed[o] = view[o] /\ Flushed'[o] = view'[o]
    BY <1>2, <1>5, FlushedPointwise DEF Loaded
  <1>8. \A p \in Orders : p # o => Flushed'[p] = Flushed[p]
    BY <1>1, <1>5, FlushedPointwise DEF Loaded
  <1>9. /\ Timely(Flushed'[o], clock) /\ Told(Flushed'[o], received'[o])
        /\ Within(Flushed'[o], received'[o], lost)
    <2>1. Timely(view[o], clock) /\ Told(view[o], received[o])
      BY <1>7 DEF NoticeInv
    <2>2. lost \in Nat /\ received'[o] \in Nat
      BY <1>2, <1>4 DEF TypeOK
    <2> QED
      BY <1>2, <1>4, <1>5, <1>6, <1>7, <2>1, <2>2 DEF Timely, Told, Within
  <1> QED
    BY <1>1, <1>2, <1>4, <1>8, <1>9, NoticeOfOne DEF HeadInv

(* An overdue order is given up.                                            *)
LEMMA ExpiringNotices ==
  ASSUME TypeOK, SessionInv, NoticeInv, NEW o \in Orders, ExpireOrder(o)
  PROVE  NoticeInv'
  <1>1. /\ pc = "next" /\ pc' = "next" /\ o \in todo /\ view[o].expires <= now
        /\ UNCHANGED <<clock, row, now, lost, received>>
    BY DEF ExpireOrder, IsHead, Overdue, database, outside
  <1>2. view[o].status = "pending" /\ view[o] \in Row
    BY <1>1 DEF SessionInv, Announced, TypeOK
  <1>3. /\ \A p \in Orders : p # o => view'[p] = view[p]
        /\ view'[o] = [view[o] EXCEPT !.status = "expired"]
    BY DEF ExpireOrder, TypeOK
  <1>4. /\ view'[o].status = "expired" /\ view'[o].expires = view[o].expires
        /\ view'[o].delivered = view[o].delivered
    BY <1>2, <1>3 DEF Row
  <1>5. Flushed[o] = view[o] /\ Flushed'[o] = view'[o]
    BY <1>2, <1>4, FlushedPointwise DEF Loaded
  <1>6. \A p \in Orders : p # o => Flushed'[p] = Flushed[p]
    BY <1>1, <1>3, FlushedPointwise DEF Loaded
  <1>7. /\ Timely(Flushed'[o], clock) /\ Told(Flushed'[o], received[o])
        /\ Within(Flushed'[o], received[o], lost)
    BY <1>1, <1>2, <1>4, <1>5, RowFields DEF Timely, Told, Within, NoticeInv, TypeOK
  <1>8. received[o] \in Nat
    BY DEF TypeOK
  <1> QED
    BY <1>1, <1>6, <1>7, <1>8, NoticeOfOne DEF HeadInv

(* A new order has neither an end nor an announcement.                      *)
LEMMA OpeningNotices ==
  ASSUME TypeOK, TypeOK', SessionInv, NoticeInv, NEW o \in Orders, NEW m \in Merchants,
         NEW a \in Amounts, CreateOrder(o, m, a)
  PROVE  NoticeInv'
  <1>1. /\ row[o].status = "none" /\ row' = [row EXCEPT ![o] = NewOrder(m, a, clock)]
        /\ UNCHANGED <<clock, pc, now, todo, view, received, lost>>
    BY DEF CreateOrder, session, outside
  <1>2. row'[o] = NewOrder(m, a, clock) /\ \A p \in Orders : p # o => row'[p] = row[p]
    BY <1>1 DEF TypeOK
  <1>3. NewOrder(m, a, clock).status = "pending" /\ ~NewOrder(m, a, clock).delivered
    BY BlankIsRow DEF NewOrder, Row, Blank
  <1>4. ~Loaded(o)
    BY <1>1 DEF SessionInv, Loaded
  <1>5. Flushed[o] = row[o] /\ Flushed'[o] = row'[o]
    BY <1>1, <1>4, FlushedPointwise DEF Loaded
  <1>6. \A p \in Orders : p # o => Flushed'[p] = Flushed[p]
    BY <1>1, <1>2, FlushedPointwise DEF Loaded
  <1>7. Within(row'[o], received[o], lost)
    BY <1>1, <1>2, <1>3, <1>5 DEF NoticeInv, Within
  <1>8. Timely(row'[o], clock) /\ Told(row'[o], received[o])
    BY <1>2, <1>3 DEF Timely, Told
  <1>9. HeadInv'
    BY <1>1 DEF NoticeInv, HeadInv, IsHead
  <1> QED
    BY <1>1, <1>2, <1>5, <1>6, <1>7, <1>8, <1>9 DEF NoticeInv

(* What is lost is forgotten, and may be told again.                        *)
LEMMA LosingNotices ==
  ASSUME TypeOK, NoticeInv, RollBack
  PROVE  NoticeInv'
  <1>1. /\ UNCHANGED <<clock, row, received>> /\ now' = 0 /\ todo' = {}
        /\ lost' = lost + 1 /\ view' = [p \in Orders |-> Blank]
    BY DEF RollBack, EndPass, database
  <1>2. \A p \in Orders : Flushed'[p] = row[p]
    BY <1>1, FlushedPointwise, BlankFields DEF Loaded
  <1>3. \A p \in Orders : Within(row[p], received[p], lost + 1)
    <2> SUFFICES ASSUME NEW p \in Orders PROVE Within(row[p], received[p], lost + 1)
      OBVIOUS
    <2>1. received[p] <= lost + 1 /\ received[p] \in Nat /\ lost \in Nat
      BY DEF NoticeInv, Within, TypeOK
    <2> QED
      BY <2>1 DEF Within
  <1> QED
    BY <1>1, <1>2, <1>3 DEF NoticeInv, HeadInv, TypeOK

-----------------------------------------------------------------------------

(* Every step keeps what the rows say true.                                 *)
LEMMA NoticeStep ==
  ASSUME TypeOK, TypeOK', SessionInv, NoticeInv, [Next]_vars
  PROVE  NoticeInv'
  <1>1. CASE Checkout
    BY <1>1, OpeningNotices DEF Checkout
  <1>2. CASE Money \/ Tick \/ EmptyPass \/ UNCHANGED vars
    <2>1. /\ UNCHANGED <<pc, now, todo, view, row, received, lost>> /\ clock <= clock'
      BY <1>2 DEF Money, DepositSolana, WithdrawSolana, PayEvm, SweepEvm, Tick, EmptyPass,
           vars, database, session, outside, TypeOK
    <2>2. \A p \in Orders : Flushed'[p] = Flushed[p]
      BY <2>1, FlushedPointwise DEF Loaded
    <2>3. HeadInv'
      BY <2>1 DEF NoticeInv, HeadInv, IsHead
    <2>4. now' <= clock'
      BY <2>1 DEF NoticeInv, TypeOK
    <2> QED
      BY <2>1, <2>2, <2>3, <2>4, QuietNotice
  <1>3. CASE BeginPass
    <2>1. /\ pc = "idle" /\ pc' = "next" /\ now' = clock
          /\ UNCHANGED <<clock, row, received, lost>>
          /\ \A p \in Orders : view'[p] = IF p \in Pending THEN row[p] ELSE Blank
      BY <1>3 DEF BeginPass, database, outside
    <2>2. \A p \in Orders : Flushed'[p] = row[p] /\ Flushed[p] = row[p]
      BY <2>1, FlushedPointwise, BlankFields DEF Loaded, SessionInv
    <2> QED
      BY <2>1, <2>2, QuietNotice DEF HeadInv, TypeOK
  <1>4. ASSUME NEW o \in Orders, PollOrder(o) PROVE NoticeInv'
    <2>1. CASE ExpireOrder(o)
      BY <2>1, ExpiringNotices
    <2>2. CASE \E t \in EvmTokens : EvmFound(o, t)
      <3>1. /\ IsHead(o) /\ pc = "next" /\ ~(view[o].expires <= now)
            /\ view' = Settled(o, EvmPaid, 0) /\ pc' = "webhook"
            /\ UNCHANGED <<clock, row, now, todo, received, lost>>
        BY <2>2 DEF EvmFound, Overdue, database, outside
      <3>2. now < view[o].expires
        BY <3>1, RowFields DEF TypeOK
      <3> QED
        BY <3>1, <3>2, SettlingNotices
    <2>3. CASE EvmNotFound(o)
      <3>1. /\ IsHead(o) /\ pc = "next" /\ ~(view[o].expires <= now) /\ pc' = "solana"
            /\ UNCHANGED <<clock, row, now, todo, view, received, lost>>
        BY <2>3 DEF EvmNotFound, Overdue, database, outside
      <3>2. now < view[o].expires
        BY <3>1, RowFields DEF TypeOK
      <3>3. \A p \in Orders : Flushed'[p] = Flushed[p]
        BY <3>1, FlushedPointwise DEF Loaded
      <3>4. HeadInv'
        BY <3>1, <3>2, OneHead DEF HeadInv, IsHead
      <3> QED
        BY <3>1, <3>3, <3>4, QuietNotice DEF NoticeInv, TypeOK
    <2>4. CASE \E h \in Accounts : SolanaFound(o, h)
      <3>1. PICK h \in Accounts : SolanaFound(o, h)
        BY <2>4
      <3>2. view[o].merchant \in Merchants /\ AssetOf[h] \in Assets
        BY RowFields, AddressAssumption DEF TypeOK
      <3>3. claimed[view[o].merchant][AssetOf[h]] \in Nat
        BY <3>2 DEF TypeOK, Watermarks
      <3>4. /\ IsHead(o) /\ o \in todo /\ pc = "solana" /\ pc' = "webhook"
            /\ view' = Settled(o, AssetOf[h], claimed[view[o].merchant][AssetOf[h]])
            /\ UNCHANGED <<clock, row, now, todo, received, lost>>
        BY <3>1 DEF SolanaFound, IsHead, database, outside
      <3>5. now < view[o].expires
        BY <3>4 DEF NoticeInv, HeadInv
      <3> QED
        BY <3>2, <3>3, <3>4, <3>5, SettlingNotices
    <2>5. CASE LeavePending(o) \/ PushSent(o) \/ PushPrunes(o) \/ PushBreaksSession(o)
      <3>1. /\ pc' = "next" /\ UNCHANGED <<clock, now, view, received, lost>>
            /\ row' = row \/ row' = Flushed
        BY <2>5 DEF LeavePending, PushSent, PushPrunes, KeepSession, PushBreaksSession,
             FinishOrder, database, outside
      <3>2. \A p \in Orders : Flushed'[p] = Flushed[p]
        BY <3>1, FlushedPointwise DEF Loaded
      <3> QED
        BY <3>1, <3>2, QuietNotice DEF NoticeInv, HeadInv, TypeOK
    <2>6. ASSUME NEW reaches \in BOOLEAN, NEW answer, answer = "ok" => reaches,
                 Webhook(o, reaches, answer)
          PROVE NoticeInv'
      BY <2>6, WebhookNotices
    <2>7. CASE WebhookFails(o) \/ WebhookUnacknowledged(o) \/ WebhookDelivered(o)
      BY <2>6, <2>7 DEF WebhookFails, WebhookUnacknowledged, WebhookDelivered
    <2> QED
      BY <1>4, <2>1, <2>2, <2>3, <2>4, <2>5, <2>7 DEF PollOrder, SolanaNotFound, SolanaUnavailable
  <1>5. CASE Commit
    <2>1. /\ row' = Flushed /\ now' = 0 /\ todo' = {} /\ UNCHANGED <<clock, received, lost>>
          /\ view' = [p \in Orders |-> Blank]
      BY <1>5 DEF Commit, KeepSession, EndPass
    <2>2. \A p \in Orders : Flushed'[p] = Flushed[p]
      BY <2>1, FlushedPointwise, BlankFields DEF Loaded
    <2> QED
      BY <2>1, <2>2, QuietNotice DEF HeadInv, TypeOK
  <1>6. CASE CommitFails \/ LosePass
    BY <1>6, LosingNotices DEF CommitFails, LosePass
  <1> QED
    BY <1>1, <1>2, <1>3, <1>4, <1>5, <1>6 DEF Next, Poll

(* What the rows say holds throughout.                                      *)
LEMMA NoticeCorrect == Spec => []NoticeInv
  <1>1. Init => NoticeInv
    <2> SUFFICES ASSUME Init PROVE NoticeInv
      OBVIOUS
    <2>1. \A p \in Orders : row[p] = Blank /\ view[p] = Blank /\ received[p] = 0
      BY DEF Init
    <2>2. \A p \in Orders : Flushed[p] = Blank
      BY <2>1, FlushedPointwise
    <2>3. Timely(Blank, clock) /\ Told(Blank, 0) /\ Within(Blank, 0, 0)
      BY BlankFields DEF Timely, Told, Within, Blank
    <2> QED
      BY <2>1, <2>2, <2>3 DEF Init, NoticeInv, HeadInv
  <1>2. TypeOK /\ TypeOK' /\ SessionInv /\ NoticeInv /\ [Next]_vars => NoticeInv'
    BY NoticeStep
  <1> QED
    BY <1>1, <1>2, TypeCorrect, SessionCorrect, PTL DEF Spec

-----------------------------------------------------------------------------

(* An order is dated paid before its deadline, or expires after it, though  *)
(* time passes while the pass awaits the network (poll_pending_orders).     *)
THEOREM DeadlinesKept == Spec => []DeadlineKept
  <1>1. NoticeInv => DeadlineKept
    BY DEF NoticeInv, Timely, DeadlineKept, Deadlines
  <1> QED
    BY <1>1, NoticeCorrect, PTL

(* A merchant is told of an order once, and once more for each pass lost.   *)
THEOREM ToldOnce == Spec => []NoticesBounded
  <1>1. NoticeInv => NoticesBounded
    BY DEF NoticeInv, Within, NoticesBounded
  <1> QED
    BY <1>1, NoticeCorrect, PTL

(* webhook_delivered_at is never set for a webhook nobody received.         *)
THEOREM DeliveriesAreTrue == Spec => []DeliveredIsTrue
  <1>1. NoticeInv => DeliveredIsTrue
    BY DEF NoticeInv, Told, DeliveredIsTrue
  <1> QED
    BY <1>1, NoticeCorrect, PTL

-----------------------------------------------------------------------------
(* What the merchant was told, against what it received *)

(* An order paid in force says how it was paid. *)
PaidVia ==
    \A o \in Orders :
        row[o].status = "paid" => row[o].via \in Assets \cup {EvmPaid}

(* A row becomes paid only by a commit of one that the session settled.     *)
LEMMA PaidViaCorrect == Spec => []PaidVia
  <1>1. Init => PaidVia
    BY BlankFields DEF Init, PaidVia
  <1>2. TypeOK /\ SessionInv /\ ViewInv /\ PaidVia /\ [Next]_vars => PaidVia'
    <2> SUFFICES ASSUME TypeOK, SessionInv, ViewInv, PaidVia, [Next]_vars PROVE PaidVia'
      OBVIOUS
    <2>1. CASE Checkout
      <3>1. PICK o \in Orders, m \in Merchants, a \in Amounts : CreateOrder(o, m, a)
        BY <2>1 DEF Checkout
      <3>2. row'[o] = NewOrder(m, a, clock) /\ \A p \in Orders : p # o => row'[p] = row[p]
        BY <3>1 DEF CreateOrder, TypeOK
      <3>3. NewOrder(m, a, clock).status = "pending"
        BY BlankIsRow DEF NewOrder, Row
      <3> QED
        BY <3>2, <3>3 DEF PaidVia
    <2>2. CASE row' = row
      BY <2>2 DEF PaidVia
    <2>3. CASE row' = Flushed
      <3>1. \A p \in Orders : row'[p] = row[p] \/ (row'[p] = view[p] /\ Closing(p))
        BY <2>3 DEF ViewInv, Flushed, Loaded
      <3> QED
        BY <3>1 DEF PaidVia, Closing
    <2> QED
      BY <2>1, <2>2, <2>3 DEF Next, Money, DepositSolana, WithdrawSolana, PayEvm,
         SweepEvm, Tick, EmptyPass, vars, Poll, BeginPass, PollOrder, ExpireOrder, EvmFound,
         EvmNotFound, SolanaFound, SolanaNotFound, SolanaUnavailable, LeavePending,
         WebhookFails, WebhookUnacknowledged, WebhookDelivered, Webhook, PushSent, PushPrunes,
         PushBreaksSession, KeepSession, FinishOrder, Commit, CommitFails, LosePass, RollBack,
         EndPass, database
  <1> QED
    BY <1>1, <1>2, TypeCorrect, SessionCorrect, ViewCorrect, PTL DEF Spec

(* Until a pass is lost, what a merchant was told of by webhooks was paid   *)
(* for: by EVM balances of its own, or within one order's 1% allowance by   *)
(* what one Solana account received, no transfer counted twice.             *)
THEOREM ToldWasPaidFor == Spec => []ToldIsPaidFor
  <1>1. TypeOK /\ SessionInv /\ ViewInv /\ PaidVia /\ NoticeInv /\ ClaimsBacked
          /\ WatermarkIsSumOfClaims => ToldIsPaidFor
    <2> SUFFICES ASSUME TypeOK, SessionInv, ViewInv, PaidVia, NoticeInv, ClaimsBacked,
                        WatermarkIsSumOfClaims, lost = 0
                 PROVE  /\ \A o \in Orders : received[o] > 0
                                             => Flushed[o].via \in Assets \cup {EvmPaid}
                        /\ \A m \in Merchants, s \in Assets :
                              LET told == AmountOf(Flushed, ToldOf(m, s)) IN
                              \/ told = 0
                              \/ \E h \in AccountsOf[m], a \in Amounts :
                                    AssetOf[h] = s /\ 100 * told <= 100 * deposited[h] + a
      BY DEF ToldIsPaidFor
    <2>1. ASSUME NEW o \in Orders, received[o] > 0
          PROVE  Flushed[o].via \in Assets \cup {EvmPaid}
      <3>1. Flushed[o].status = "paid"
        BY <2>1 DEF NoticeInv, Within, TypeOK
      <3>2. Flushed[o] = row[o] \/ (Flushed[o] = view[o] /\ Closing(o))
        BY DEF ViewInv, Flushed, Loaded
      <3> QED
        BY <3>1, <3>2 DEF PaidVia, Closing
    <2>2. ASSUME NEW m \in Merchants, NEW s \in Assets,
                 AmountOf(Flushed, ToldOf(m, s)) # 0
          PROVE  \E h \in AccountsOf[m], a \in Amounts :
                    /\ AssetOf[h] = s
                    /\ 100 * AmountOf(Flushed, ToldOf(m, s)) <= 100 * deposited[h] + a
      <3> DEFINE told == AmountOf(Flushed, ToldOf(m, s))
      <3>1. /\ IsFiniteSet(Claimants(Flushed, m, s))
            /\ \A o \in Claimants(Flushed, m, s) : Flushed[o].amount \in Nat
        BY FlushedType, ClaimantsFinite
      <3>2. ToldOf(m, s) \in SUBSET Claimants(Flushed, m, s)
        BY DEF ToldOf, Claimants
      <3>3. told \in Nat /\ told <= AmountOf(Flushed, Claimants(Flushed, m, s))
        BY <3>1, <3>2, AmountOfPart, AmountType, FS_Subset
      <3>4. InForce[m][s] = AmountOf(Flushed, Claimants(Flushed, m, s))
        BY DEF WatermarkIsSumOfClaims, SumsTo
      <3>5. InForce[m][s] \in Nat
        BY InForceFacts DEF Watermarks
      <3>6. PICK h \in AccountsOf[m], a \in Amounts :
               AssetOf[h] = s /\ 100 * InForce[m][s] <= 100 * deposited[h] + a
        BY <2>2, <3>3, <3>4, <3>5 DEF ClaimsBacked, BackedBy
      <3>7. deposited[h] \in Nat /\ a \in Nat
        BY AddressAssumption, MoneyAssumption DEF TypeOK
      <3> HIDE DEF told
      <3>8. 100 * told <= 100 * deposited[h] + a
        BY <3>3, <3>4, <3>5, <3>6, <3>7
      <3> QED
        BY <3>6, <3>8 DEF told
    <2> QED
      BY <2>1, <2>2
  <1> QED
    BY <1>1, TypeCorrect, SessionCorrect, ViewCorrect, PaidViaCorrect, NoticeCorrect,
       ClaimsAreBacked, WatermarksAddUp, PTL
=============================================================================
