---------------------------- MODULE LedgerProofs ----------------------------
(* The poller implements the ledger of payments: proofs, for any number of  *)
(* orders, merchants, assets and accounts and any bound on time and losses. *)
EXTENDS SettlementProofs, FiniteSetTheorems, WellFoundedInduction

-----------------------------------------------------------------------------
(* What the session may have done to an order *)

Unclaimed(r) == r.status \in {"none", "pending"} => r.via = Unpaid

(* The session has closed an order that is still pending in the database. *)
Closing(o) ==
    /\ row[o].status = "pending"
    /\ view[o].merchant = row[o].merchant /\ view[o].amount = row[o].amount
    /\ \/ view[o].status = "paid" /\ view[o].via \in Assets \cup {EvmPaid}
       \/ view[o].status = "expired" /\ view[o].via = Unpaid

(* A copy is the row itself, or the row closed. *)
ViewInv ==
    /\ \A o \in Orders : Unclaimed(row[o])
    /\ \A o \in Orders : Loaded(o) => view[o] = row[o] \/ Closing(o)

(* An order pending in the session is the database's, and claims nothing.   *)
LEMMA PendingView ==
  ASSUME TypeOK, SessionInv, ViewInv, NEW o \in Orders, view[o].status = "pending"
  PROVE  view[o] = row[o] /\ row[o].status = "pending" /\ view[o].via = Unpaid
  BY DEF ViewInv, Unclaimed, Closing, Loaded

(* Settling an order that is pending closes it.                             *)
LEMMA SettlingCloses ==
  ASSUME TypeOK, SessionInv, ViewInv, NEW o \in todo, o \in Orders, pc \in {"next", "solana"},
         NEW via \in Assets \cup {EvmPaid}, NEW from \in Nat,
         view' = Settled(o, via, from), row' = row
  PROVE  ViewInv'
  <1>1. view[o].status = "pending"
    BY DEF SessionInv, Announced
  <1>2. view[o] = row[o] /\ row[o].status = "pending"
    BY <1>1, PendingView
  <1>3. /\ \A p \in Orders : p # o => view'[p] = view[p]
        /\ view'[o].status = "paid" /\ view'[o].via = via
        /\ view'[o].merchant = view[o].merchant /\ view'[o].amount = view[o].amount
    BY SettledEffect
  <1> QED
    BY <1>2, <1>3 DEF ViewInv, Closing, Loaded

(* Every copy is always the database's row or that row closed.              *)
LEMMA ViewCorrect == Spec => []ViewInv
  <1>1. Init => ViewInv
    BY BlankFields DEF Init, ViewInv, Loaded, Unclaimed
  <1>2. TypeOK /\ SessionInv /\ ViewInv /\ [Next]_vars => ViewInv'
    <2> SUFFICES ASSUME TypeOK, SessionInv, ViewInv, [Next]_vars PROVE ViewInv'
      OBVIOUS
    <2>1. CASE Checkout
      <3>1. PICK o \in Orders, m \in Merchants, a \in Amounts : CreateOrder(o, m, a)
        BY <2>1 DEF Checkout
      <3>2. /\ row[o].status = "none" /\ view' = view
            /\ row'[o] = NewOrder(m, a, clock) /\ \A p \in Orders : p # o => row'[p] = row[p]
        BY <3>1 DEF CreateOrder, TypeOK, session
      <3>3. ~Loaded(o)
        BY <3>2 DEF SessionInv, Loaded
      <3>4. NewOrder(m, a, clock).via = Unpaid
        BY BlankIsRow, BlankFields DEF NewOrder, Row
      <3> QED
        BY <3>2, <3>3, <3>4 DEF ViewInv, Loaded, Closing, Unclaimed
    <2>2. CASE Money \/ Tick \/ EmptyPass \/ UNCHANGED vars
      <3>1. UNCHANGED <<view, row>>
        BY <2>2 DEF Money, DepositSolana, WithdrawSolana, PayEvm, SweepEvm, Tick, EmptyPass,
             vars, database, session
      <3> QED
        BY <3>1 DEF ViewInv, Loaded, Closing
    <2>3. CASE BeginPass
      <3>1. /\ row' = row
            /\ \A p \in Orders : view'[p] = IF p \in Pending THEN row[p] ELSE Blank
        BY <2>3 DEF BeginPass, database
      <3> QED
        BY <3>1, BlankFields DEF ViewInv, Loaded
    <2>4. ASSUME NEW o \in Orders, PollOrder(o) PROVE ViewInv'
      <3>1. CASE ExpireOrder(o)
        <4>1. row' = row /\ o \in todo /\ pc = "next"
          BY <3>1 DEF ExpireOrder, IsHead, database
        <4>2. view[o].status = "pending"
          BY <4>1 DEF SessionInv, Announced
        <4> QED
          BY <3>1, <4>1, <4>2, PendingView, ExpireEffect
          DEF ViewInv, Closing, Loaded, SameClaim
      <3>2. CASE \E t \in EvmTokens : EvmFound(o, t)
        BY <3>2, SettlingCloses DEF EvmFound, IsHead, database
      <3>3. CASE \E h \in Accounts : SolanaFound(o, h)
        <4>1. PICK h \in Accounts : SolanaFound(o, h)
          BY <3>3
        <4>2. view[o].merchant \in Merchants /\ AssetOf[h] \in Assets
          BY RowFields, AddressAssumption DEF TypeOK
        <4>3. claimed[view[o].merchant][AssetOf[h]] \in Nat
          BY <4>2 DEF TypeOK, Watermarks
        <4> QED
          BY <4>1, <4>2, <4>3, SettlingCloses DEF SolanaFound, IsHead, database
      <3>4. CASE EvmNotFound(o) \/ LeavePending(o) \/ PushSent(o) \/ PushBreaksSession(o)
        <4>1. UNCHANGED <<row, view>>
          BY <3>4 DEF EvmNotFound, LeavePending, PushSent, PushBreaksSession, FinishOrder,
               database
        <4> QED
          BY <4>1 DEF ViewInv, Loaded, Closing
      <3>5. ASSUME NEW reaches \in BOOLEAN, NEW answer, Webhook(o, reaches, answer)
            PROVE  ViewInv'
        <4>1. row' = row /\ o \in todo /\ Announced(o)
          BY <3>5 DEF Webhook, IsHead, Announced, database
        <4>2. row[o].status = "pending" /\ view[o].status = "paid" /\ Loaded(o)
          BY <4>1 DEF SessionInv, Loaded
        <4>3. Closing(o)
          BY <4>2 DEF ViewInv
        <4> QED
          BY <3>5, <4>1, <4>3, WebhookEffect DEF ViewInv, Closing, Loaded, SameClaim
      <3>6. CASE PushPrunes(o)
        <4>1. view' = view /\ \A p \in Orders : row'[p] = IF Loaded(p) THEN view[p] ELSE row[p]
          BY <3>6 DEF PushPrunes, KeepSession, FinishOrder, Flushed
        <4> QED
          BY <4>1 DEF ViewInv, Loaded, Unclaimed, Closing
      <3> QED
        BY <2>4, <3>1, <3>2, <3>3, <3>4, <3>5, <3>6 DEF PollOrder, SolanaNotFound,
             SolanaUnavailable, WebhookFails, WebhookUnacknowledged, WebhookDelivered
    <2>5. CASE Commit
      <3>1. /\ \A p \in Orders : view'[p] = Blank
            /\ \A p \in Orders : row'[p] = IF Loaded(p) THEN view[p] ELSE row[p]
        BY <2>5 DEF Commit, KeepSession, EndPass, Flushed
      <3> QED
        BY <3>1, BlankFields DEF ViewInv, Loaded, Unclaimed, Closing
    <2>6. CASE CommitFails \/ LosePass
      <3>1. row' = row /\ \A p \in Orders : view'[p] = Blank
        BY <2>6 DEF CommitFails, LosePass, RollBack, EndPass, database
      <3> QED
        BY <3>1, BlankFields DEF ViewInv, Loaded
    <2> QED
      BY <2>1, <2>2, <2>3, <2>4, <2>5, <2>6 DEF Next, Poll
  <1> QED
    BY <1>1, <1>2, TypeCorrect, SessionCorrect, PTL DEF Spec

-----------------------------------------------------------------------------
(* The settlement in force as a ledger *)

(* The watermark is where the last claim ends. *)
Tops(r, w) ==
    \A m \in Merchants, s \in Assets :
        \/ w[m][s] = 0
        \/ \E p \in Orders : Ledger!Claimant(r, p, m, s) /\ Ledger!End(r, p) = w[m][s]

GaplessIn(r) == \A m \in Merchants, s \in Assets : Ledger!Gapless(r, m, s)
BackedIn(r) == \A m \in Merchants, s \in Assets : Ledger!Backed(r, m, s)

(* The inductive strengthening of the ledger's promise: what is in force in *)
(* the session is as sound as what is committed, and the next claim starts  *)
(* where the last one ended.                                                *)
LedgerInv ==
    /\ Tops(row, consumed) /\ GaplessIn(row) /\ BackedIn(row)
    /\ Tops(Flushed, InForce) /\ GaplessIn(Flushed) /\ BackedIn(Flushed)

(* The same claims, of the same merchants. *)
SameClaims(q, r) == \A p \in Orders : SameClaim(q[p], r[p])

(* The claims alone decide. *)
LEMMA ClaimsDecide ==
  ASSUME NEW q, NEW r, NEW w, SameClaims(q, r)
  PROVE  /\ Tops(q, w) <=> Tops(r, w)
         /\ GaplessIn(q) <=> GaplessIn(r)
         /\ BackedIn(q) <=> BackedIn(r)
  <1> USE DEF SameClaims, SameClaim, Ledger!Claimant, Ledger!End
  <1>1. Tops(q, w) <=> Tops(r, w)
    BY DEF Tops
  <1>2. GaplessIn(q) <=> GaplessIn(r)
    BY DEF GaplessIn, Ledger!Gapless
  <1>3. BackedIn(q) <=> BackedIn(r)
    BY DEF BackedIn, Ledger!Backed
  <1> QED
    BY <1>1, <1>2, <1>3

(* An order that claims nothing can be replaced by one that claims nothing. *)
LEMMA NonClaimantsAside ==
  ASSUME NEW q, NEW r, NEW w, NEW o \in Orders, q[o].via \notin Assets, r[o].via \notin Assets,
         \A p \in Orders : p # o => q[p] = r[p]
  PROVE  /\ Tops(r, w) => Tops(q, w)
         /\ GaplessIn(r) => GaplessIn(q)
         /\ BackedIn(r) => BackedIn(q)
  <1> USE DEF Ledger!Claimant, Ledger!End
  <1>1. Tops(r, w) => Tops(q, w)
    BY DEF Tops
  <1>2. GaplessIn(r) => GaplessIn(q)
    BY DEF GaplessIn, Ledger!Gapless
  <1>3. BackedIn(r) => BackedIn(q)
    BY DEF BackedIn, Ledger!Backed
  <1> QED
    BY <1>1, <1>2, <1>3

(* What arrives later takes no backing away.                                *)
LEMMA BackingLasts ==
  ASSUME TypeOK, BackedInv, [Next]_vars, NEW r, r \in [Orders -> Row], BackedIn(r)
  PROVE  \A m \in Merchants, s \in Assets, o \in Orders :
            Ledger!Claimant(r, o, m, s) =>
              \E h \in AccountsOf[m] :
                 AssetOf[h] = s /\ 100 * (deposited'[h] - r[o].from) >= 99 * r[o].amount
  <1> SUFFICES ASSUME NEW m \in Merchants, NEW s \in Assets, NEW o \in Orders,
                      Ledger!Claimant(r, o, m, s)
               PROVE  \E h \in AccountsOf[m] :
                 AssetOf[h] = s /\ 100 * (deposited'[h] - r[o].from) >= 99 * r[o].amount
    OBVIOUS
  <1>1. PICK h \in AccountsOf[m] :
           AssetOf[h] = s /\ 100 * (deposited[h] - r[o].from) >= 99 * r[o].amount
    BY DEF BackedIn, Ledger!Backed
  <1>2. h \in Accounts
    BY AddressAssumption
  <1>3. deposited[h] \in Nat /\ deposited'[h] \in Nat /\ deposited[h] <= deposited'[h]
    BY <1>2, MoneyStep, TypeStep DEF TypeOK
  <1>4. r[o].from \in Nat /\ r[o].amount \in Nat
    BY RowFields
  <1>5. 100 * (deposited'[h] - r[o].from) >= 99 * r[o].amount
    BY <1>1, <1>3, <1>4
  <1> QED
    BY <1>1, <1>5

(* An order pending in force claims nothing yet.                            *)
LEMMA PendingClaimsNothing ==
  ASSUME TypeOK, SessionInv, ViewInv, NEW o \in Orders,
         Flushed[o].status \in {"none", "pending"}
  PROVE  Flushed[o].via \notin Assets
  BY AddressAssumption, InForceFacts DEF ViewInv, Unclaimed, Closing, Loaded

(* A claim that starts where the last one ended leaves no gap, and is       *)
(* backed by the balance it was checked against.                            *)
LEMMA ClaimExtends ==
  ASSUME TypeOK, SessionInv, ViewInv, BackedInv, LedgerInv, NEW o \in Orders, Claims(o)
  PROVE  Tops(Flushed', InForce') /\ GaplessIn(Flushed') /\ BackedIn(Flushed')
  <1> DEFINE m == Flushed[o].merchant
             s == Flushed'[o].via
             a == Flushed[o].amount
  <1> USE DEF Ledger!Claimant, Ledger!End
  <1>1. m \in Merchants /\ s \in Assets /\ a \in Nat /\ InForce[m][s] \in Nat
    BY InForceFacts, RowFields DEF Claims, Watermarks
  <1>2. /\ InForce'[m][s] = InForce[m][s] + a
        /\ \A n \in Merchants, x \in Assets :
              <<n, x>> # <<m, s>> => InForce'[n][x] = InForce[n][x]
    BY <1>1, InForceFacts DEF Claims, Watermarks
  <1>3. /\ Flushed'[o].merchant = m /\ Flushed'[o].amount = a
        /\ Flushed'[o].from = InForce[m][s]
        /\ \A p \in Orders : p # o => Flushed'[p] = Flushed[p]
    BY DEF Claims
  <1>4. Flushed[o].via \notin Assets
    BY PendingClaimsNothing DEF Claims
  <1>5. Tops(Flushed', InForce')
    <2> SUFFICES ASSUME NEW n \in Merchants, NEW x \in Assets, InForce'[n][x] # 0
                 PROVE  \E p \in Orders : /\ Ledger!Claimant(Flushed', p, n, x)
                                          /\ Ledger!End(Flushed', p) = InForce'[n][x]
      BY DEF Tops
    <2>1. CASE n = m /\ x = s
      BY <2>1, <1>2, <1>3
    <2>2. CASE <<n, x>> # <<m, s>>
      <3>1. PICK p \in Orders : /\ Ledger!Claimant(Flushed, p, n, x)
                                /\ Ledger!End(Flushed, p) = InForce[n][x]
        BY <2>2, <1>2 DEF LedgerInv, Tops
      <3>2. p # o
        BY <3>1, <1>4
      <3> QED
        BY <2>2, <3>1, <3>2, <1>2, <1>3
    <2> QED
      BY <2>1, <2>2
  <1>6. GaplessIn(Flushed')
    <2> SUFFICES ASSUME NEW n \in Merchants, NEW x \in Assets, NEW p \in Orders,
                        Ledger!Claimant(Flushed', p, n, x), Flushed'[p].from # 0
                 PROVE  \E q \in Orders : /\ Ledger!Claimant(Flushed', q, n, x)
                                          /\ Ledger!End(Flushed', q) = Flushed'[p].from
      BY DEF GaplessIn, Ledger!Gapless
    <2>1. PICK q \in Orders : /\ Ledger!Claimant(Flushed, q, n, x)
                              /\ Ledger!End(Flushed, q) = Flushed'[p].from
      <3>1. CASE p = o
        BY <3>1, <1>3 DEF LedgerInv, Tops
      <3>2. CASE p # o
        BY <3>2, <1>3 DEF LedgerInv, GaplessIn, Ledger!Gapless
      <3> QED
        BY <3>1, <3>2
    <2>2. q # o
      BY <2>1, <1>4
    <2> QED
      BY <2>1, <2>2, <1>3
  <1>7. BackedIn(Flushed')
    <2> SUFFICES ASSUME NEW n \in Merchants, NEW x \in Assets, NEW p \in Orders,
                        Ledger!Claimant(Flushed', p, n, x)
                 PROVE  \E h \in AccountsOf[n] :
                           /\ AssetOf[h] = x
                           /\ 100 * (deposited[h] - Flushed'[p].from) >= 99 * Flushed'[p].amount
      BY DEF BackedIn, Ledger!Backed
    <2>1. CASE p = o
      <3>1. PICK h \in AccountsOf[m] :
               AssetOf[h] = s /\ Enough(balance[h] - InForce[m][AssetOf[h]], a)
        BY DEF Claims
      <3>2. h \in Accounts
        BY <1>1, AddressAssumption
      <3>3. balance[h] \in Nat /\ deposited[h] \in Nat /\ balance[h] <= deposited[h]
        BY <3>2 DEF TypeOK, BackedInv
      <3>4. 100 * (deposited[h] - InForce[m][s]) >= 99 * a
        BY <3>1, <3>3, <1>1 DEF Enough
      <3> QED
        BY <2>1, <3>1, <3>4, <1>3
    <2>2. CASE p # o
      BY <2>2, <1>3 DEF LedgerInv, BackedIn, Ledger!Backed
    <2> QED
      BY <2>1, <2>2
  <1> QED
    BY <1>5, <1>6, <1>7

-----------------------------------------------------------------------------
(* The refinement *)

(* What is in force is always a sound ledger, and its claims end where the  *)
(* watermark stands.                                                        *)
THEOREM LedgerCorrect == Spec => []LedgerInv
  <1>1. Init => LedgerInv
    <2> SUFFICES ASSUME Init PROVE LedgerInv
      OBVIOUS
    <2>1. \A p \in Orders : row[p].via \notin Assets /\ Flushed[p].via \notin Assets
      BY BlankFields, AddressAssumption DEF Init, Flushed, Loaded
    <2>2. \A m \in Merchants, s \in Assets : consumed[m][s] = 0 /\ InForce[m][s] = 0
      BY DEF Init, NoClaims, InForce
    <2> QED
      BY <2>1, <2>2 DEF LedgerInv, Tops, GaplessIn, BackedIn, Ledger!Gapless, Ledger!Backed,
           Ledger!Claimant
  <1>2. TypeOK /\ SessionInv /\ ViewInv /\ BackedInv /\ LedgerInv /\ [Next]_vars => LedgerInv'
    <2> SUFFICES ASSUME TypeOK, SessionInv, ViewInv, BackedInv, LedgerInv, [Next]_vars
                 PROVE  LedgerInv'
      OBVIOUS
    <2> DEFINE Kept == /\ Tops(row', consumed') /\ GaplessIn(row') /\ BackedIn(row')
                       /\ Tops(Flushed', InForce') /\ GaplessIn(Flushed') /\ BackedIn(Flushed')
    <2>1. Kept
      <3>1. CASE KeepsClaims
        BY <3>1, ClaimsDecide DEF KeepsClaims, LedgerInv, SameClaims
      <3>2. CASE Commits
        BY <3>2 DEF Commits, LedgerInv
      <3>3. CASE Forgets
        BY <3>3 DEF Forgets, LedgerInv
      <3>4. ASSUME NEW o \in Orders, Opens(o) PROVE Kept
        <4>1. row[o].via \notin Assets /\ Flushed[o].via \notin Assets
          <5>1. Flushed[o] = row[o]
            BY <3>4, InForceFacts DEF Opens, SessionInv, Loaded
          <5> QED
            BY <5>1, <3>4, PendingClaimsNothing DEF Opens
        <4> QED
          BY <3>4, <4>1, AddressAssumption, NonClaimantsAside DEF Opens, LedgerInv
      <3>5. ASSUME NEW o \in Orders, Claims(o) PROVE Kept
        BY <3>5, ClaimExtends DEF Claims, LedgerInv
      <3>6. ASSUME NEW o \in Orders, SettlesOnEvm(o) PROVE Kept
        <4>1. Flushed[o].via \notin Assets
          BY <3>6, PendingClaimsNothing DEF SettlesOnEvm
        <4> QED
          BY <3>6, <4>1, AddressAssumption, NonClaimantsAside DEF SettlesOnEvm, LedgerInv
      <3> QED
        BY <3>1, <3>2, <3>3, <3>4, <3>5, <3>6, StepKinds
    <2>2. TypeOK' /\ Flushed' \in [Orders -> Row]
      BY TypeStep DEF TypeOK, Flushed
    <2>3. BackedIn(row)' /\ BackedIn(Flushed)'
      BY <2>1, <2>2, BackingLasts DEF BackedIn, Ledger!Backed, TypeOK
    <2> QED
      BY <2>1, <2>3 DEF LedgerInv, Tops, GaplessIn, Ledger!Gapless
  <1> QED
    BY <1>1, <1>2, TypeCorrect, SessionCorrect, ViewCorrect, BackedCorrect, PTL DEF Spec

(* The poller implements the ledger: every step of the system opens an      *)
(* order, is money arriving, closes orders soundly, or is none of the       *)
(* ledger's business.                                                       *)
THEOREM PollerImplementsLedger == Spec => ImplementsLedger
  <1>1. Init => Ledger!Init
    BY BlankFields DEF Init, Ledger!Init
  <1>2. TypeOK /\ SessionInv /\ ViewInv /\ OnePaymentOneOrder /\ BackedInv /\ LedgerInv
        /\ [Next]_vars => [Ledger!Next]_(Ledger!vars)
    <2> SUFFICES ASSUME TypeOK, SessionInv, ViewInv, OnePaymentOneOrder, BackedInv, LedgerInv,
                        [Next]_vars
                 PROVE  [Ledger!Next]_(Ledger!vars)
      OBVIOUS
    <2>1. CASE \E o \in Orders, m \in Merchants, a \in Amounts : CreateOrder(o, m, a)
      <3>1. PICK o \in Orders, m \in Merchants, a \in Amounts : CreateOrder(o, m, a)
        BY <2>1
      <3>2. /\ NewOrder(m, a, clock).status = "pending" /\ NewOrder(m, a, clock).merchant = m
            /\ NewOrder(m, a, clock).via = Unpaid
        BY BlankIsRow, BlankFields DEF NewOrder, Row
      <3>3. Ledger!Open(o)
        BY <3>1, <3>2 DEF CreateOrder, Ledger!Open, TypeOK, chain
      <3> QED
        BY <3>3 DEF Ledger!Next
    <2>2. CASE row' = row /\ deposited' # deposited
      <3>1. Ledger!Arrive
        BY <2>2, TypeStep, MoneyStep DEF TypeOK, Ledger!Arrive
      <3> QED
        BY <3>1 DEF Ledger!Next
    <2>3. CASE row' = Flushed /\ deposited' = deposited
      <3>1. \A o \in Orders : row'[o] # row[o] => Ledger!Closes(o)
        BY <2>3 DEF ViewInv, Closing, Flushed, Loaded, Ledger!Closes
      <3>2. Ledger!Sound(row')
        <4>1. \A m \in Merchants, s \in Assets : Ledger!Disjoint(Flushed, m, s)
          BY DEF OnePaymentOneOrder, DisjointIn, SameClaimant, Ledger!Disjoint,
               Ledger!Claimant, Ledger!End
        <4> QED
          BY <2>3, <4>1 DEF Ledger!Sound, LedgerInv, GaplessIn, BackedIn
      <3>3. Ledger!Close
        BY <2>3, <3>1, <3>2 DEF Ledger!Close
      <3> QED
        BY <3>3 DEF Ledger!Next
    <2>4. CASE UNCHANGED <<row, deposited>>
      BY <2>4 DEF Ledger!vars
    <2> QED
      BY <2>1, <2>2, <2>3, <2>4 DEF Next, Checkout, Money, DepositSolana, WithdrawSolana, PayEvm,
         SweepEvm, Tick, EmptyPass, vars, Poll, BeginPass, PollOrder, ExpireOrder, EvmFound,
         EvmNotFound, SolanaFound, SolanaNotFound, SolanaUnavailable, LeavePending,
         WebhookFails, WebhookUnacknowledged, WebhookDelivered, Webhook, PushSent, PushPrunes,
         PushBreaksSession, KeepSession, FinishOrder, Commit, CommitFails, LosePass, RollBack,
         EndPass, chain, database
  <1> QED
    BY <1>1, <1>2, TypeCorrect, SessionCorrect, ViewCorrect, PaymentSettlesOneOrder,
       BackedCorrect, LedgerCorrect, PTL DEF Spec, ImplementsLedger, Ledger!Spec

-----------------------------------------------------------------------------
(* Sums of amounts.  MapThenSumSet is defined by a function on the subsets  *)
(* of its set; that the function exists, and what it computes, is shown by  *)
(* taking a smallest counterexample.                                        *)

(* A nonempty set of naturals has a least element.                          *)
LEMMA LeastNatural ==
  ASSUME NEW T, T \subseteq Nat, T # {}
  PROVE  \E n \in T : \A k \in T : n <= k
  <1> DEFINE R == OpToRel(<, Nat)
  <1>1. R = {ss \in Nat \X Nat : ss[1] < ss[2]}
    BY Zenon DEF OpToRel
  <1>2. IsWellFoundedOn(R, Nat)
    BY NatLessThanWellFounded, Zenon
  <1> HIDE DEF R
  <1>3. PICK x \in T : \A y \in T : ~ (<<y, x>> \in R)
    BY <1>2, WFMin, Zenon
  <1>4. ASSUME NEW y \in T PROVE x <= y
    <2>1. x \in Nat /\ y \in Nat
      OBVIOUS
    <2>2. <<y, x>> \in Nat \X Nat /\ <<y, x>>[1] = y /\ <<y, x>>[2] = x
      BY <2>1
    <2>3. ~ (y < x)
      BY <1>1, <1>3, <2>2
    <2> QED
      BY <2>1, <2>3
  <1> QED
    BY <1>4

(* A nonempty collection of finite sets has a smallest member.              *)
LEMMA SmallestSet ==
  ASSUME NEW C, C # {}, \A s \in C : IsFiniteSet(s)
  PROVE  \E s \in C : \A t \in C : Cardinality(s) <= Cardinality(t)
  <1> DEFINE T == {Cardinality(s) : s \in C}
  <1>1. T \subseteq Nat /\ T # {}
    BY FS_CardinalityType
  <1>2. PICK n \in T : \A k \in T : n <= k
    BY <1>1, LeastNatural
  <1> QED
    BY <1>2

Chosen(s) == CHOOSE x \in s : TRUE

(* One unfolding of the sum. *)
Unfolded(r, g, s) == IF s = {} THEN 0 ELSE r[Chosen(s)].amount + g[s \ {Chosen(s)}]

Sums(r, S) == CHOOSE g : g = [s \in SUBSET S |-> Unfolded(r, g, s)]

LEMMA ChosenIn == ASSUME NEW s, s # {} PROVE Chosen(s) \in s
  BY DEF Chosen

(* The sum as FiniteSetsExt defines it: by a function on subsets.           *)
LEMMA AmountByFunction ==
  ASSUME NEW r, NEW S
  PROVE  AmountOf(r, S) = Sums(r, S)[S]
  BY Zenon DEF AmountOf, MapThenSumSet, MapThenFoldSet, Unfolded, Sums, Chosen

(* Removing one element makes a finite set smaller by one.                  *)
LEMMA OneLess ==
  ASSUME NEW s, IsFiniteSet(s), NEW x \in s
  PROVE  /\ IsFiniteSet(s \ {x})
         /\ Cardinality(s) \in Nat /\ Cardinality(s) = Cardinality(s \ {x}) + 1
         /\ Cardinality(s \ {x}) \in Nat
         /\ ~ (Cardinality(s) <= Cardinality(s \ {x}))
  <1>1. IsFiniteSet(s \ {x}) /\ Cardinality(s \ {x}) = Cardinality(s) - 1
    BY FS_RemoveElement
  <1>2. Cardinality(s) \in Nat /\ Cardinality(s \ {x}) \in Nat
    BY <1>1, FS_CardinalityType
  <1> QED
    BY <1>1, <1>2

(* That function exists. *)
LEMMA SumsExist ==
  ASSUME NEW r, NEW S, IsFiniteSet(S)
  PROVE  Sums(r, S) = [s \in SUBSET S |-> Unfolded(r, Sums(r, S), s)]
  <1> DEFINE Upto(g, n) == \A s \in SUBSET S : Cardinality(s) <= n => g[s] = Unfolded(r, g, s)
             Once(g) == [s \in SUBSET S |-> Unfolded(r, g, s)]
             Short == {n \in Nat : ~ \E g : Upto(Once(g), n)}
  <1>1. \A s \in SUBSET S : IsFiniteSet(s) /\ Cardinality(s) \in Nat
    BY FS_Subset, FS_CardinalityType
  <1>2. ASSUME NEW g, Cardinality({}) = 0 PROVE Upto(Once(g), 0)
    <2> SUFFICES ASSUME NEW s \in SUBSET S, Cardinality(s) <= 0
                 PROVE  Once(g)[s] = Unfolded(r, Once(g), s)
      OBVIOUS
    <2>1. s = {}
      <3>1. Cardinality(s) = 0
        BY <1>1
      <3> QED
        BY <3>1, <1>1, FS_EmptySet
    <2> QED
      BY <2>1 DEF Unfolded
  <1>3. ASSUME NEW n \in Nat, NEW g, Upto(Once(g), n) PROVE Upto(Once(Once(g)), n + 1)
    <2> DEFINE h == Once(g)
    <2> SUFFICES ASSUME NEW s \in SUBSET S, Cardinality(s) <= n + 1
                 PROVE  Once(h)[s] = Unfolded(r, Once(h), s)
      OBVIOUS
    <2>1. CASE s = {}
      BY <2>1 DEF Unfolded
    <2>2. CASE s # {}
      <3> DEFINE t == s \ {Chosen(s)}
      <3>1. t \in SUBSET S /\ Cardinality(t) <= n
        <4>1. Cardinality(s) = Cardinality(t) + 1 /\ Cardinality(t) \in Nat
          BY <2>2, <1>1, ChosenIn, OneLess
        <4> QED
          BY <4>1
      <3>2. h[t] = Unfolded(r, h, t)
        BY <3>1, <1>3
      <3>3. Once(h)[t] = h[t]
        BY <3>1, <3>2
      <3>4. Once(h)[s] = Unfolded(r, h, s)
        OBVIOUS
      <3> HIDE DEF h
      <3> QED
        BY <3>3, <3>4, <2>2 DEF Unfolded
    <2> QED
      BY <2>1, <2>2
  <1>4. Short = {}
    <2> SUFFICES ASSUME Short # {} PROVE FALSE
      OBVIOUS
    <2>1. Short \subseteq Nat
      OBVIOUS
    <2>2. PICK n \in Short : \A k \in Short : n <= k
      <3> HIDE DEF Short
      <3> QED
        BY <2>1, LeastNatural
    <2>3. n # 0
      BY <1>2, FS_EmptySet
    <2>4. n - 1 \in Nat /\ n - 1 \notin Short
      <3> HIDE DEF Short
      <3> QED
        BY <2>1, <2>2, <2>3
    <2>5. PICK g : Upto(Once(g), n - 1)
      BY <2>4
    <2>6. (n - 1) + 1 = n
      BY <2>1
    <2>7. Upto(Once(Once(g)), n)
      <3> HIDE DEF Upto, Once, Short
      <3> QED
        BY <2>4, <2>5, <2>6, <1>3
    <2> QED
      <3> HIDE DEF Upto, Once
      <3> QED
        BY <2>2, <2>7
  <1>5. PICK g : Upto(Once(g), Cardinality(S))
    BY <1>1, <1>4
  <1>6. \A s \in SUBSET S : Cardinality(s) <= Cardinality(S)
    BY FS_Subset
  <1>7. \E f : f = [s \in SUBSET S |-> Unfolded(r, f, s)]
    <2> DEFINE f == Once(g)
    <2>1. \A s \in SUBSET S : f[s] = Unfolded(r, f, s)
      BY <1>5, <1>6
    <2>2. f = [s \in SUBSET S |-> f[s]]
      OBVIOUS
    <2> HIDE DEF f
    <2>3. f = [s \in SUBSET S |-> Unfolded(r, f, s)]
      BY <2>1, <2>2
    <2> QED
      BY <2>3
  <1> QED
    BY <1>7, Zenon DEF Sums

(* Its values. *)
LEMMA SumsUnfold ==
  ASSUME NEW r, NEW S, IsFiniteSet(S), NEW s \in SUBSET S
  PROVE  Sums(r, S)[s] = Unfolded(r, Sums(r, S), s)
  <1>1. \A g : g = [x \in SUBSET S |-> Unfolded(r, g, x)] => g[s] = Unfolded(r, g, s)
    OBVIOUS
  <1> QED
    BY <1>1, SumsExist, Zenon

(* The sum over a set does not depend on the set it is taken in.            *)
LEMMA SumsAgree ==
  ASSUME NEW r, NEW S, IsFiniteSet(S), NEW s \in SUBSET S
  PROVE  Sums(r, S)[s] = Sums(r, s)[s]
  <1> DEFINE C == {t \in SUBSET s : Sums(r, S)[t] # Sums(r, s)[t]}
  <1>1. IsFiniteSet(s)
    BY FS_Subset
  <1>2. /\ \A t \in SUBSET S : Sums(r, S)[t] = Unfolded(r, Sums(r, S), t)
        /\ \A t \in SUBSET s : Sums(r, s)[t] = Unfolded(r, Sums(r, s), t)
    BY <1>1, SumsUnfold
  <1>3. C = {}
    <2> SUFFICES ASSUME C # {} PROVE FALSE
      OBVIOUS
    <2>1. \A t \in C : IsFiniteSet(t)
      BY <1>1, FS_Subset
    <2>2. PICK t \in C : \A u \in C : Cardinality(t) <= Cardinality(u)
      BY <2>1, SmallestSet
    <2>3. t # {}
      BY <1>2 DEF Unfolded
    <2> DEFINE u == t \ {Chosen(t)}
    <2>4. Cardinality(t) = Cardinality(u) + 1 /\ Cardinality(u) \in Nat
      BY <2>1, <2>3, ChosenIn, OneLess
    <2>5. ~ (Cardinality(t) <= Cardinality(u))
      BY <2>4
    <2>6. u \in SUBSET s /\ u \notin C
      <3>1. u \in SUBSET s
        OBVIOUS
      <3> HIDE DEF u
      <3> QED
        BY <3>1, <2>2, <2>5
    <2> QED
      BY <2>3, <2>6, <1>2 DEF Unfolded
  <1> QED
    BY <1>3

(* The sum of the amounts, one order at a time.                             *)
LEMMA AmountUnfolds ==
  ASSUME NEW r, NEW S, IsFiniteSet(S)
  PROVE  AmountOf(r, S) =
           IF S = {} THEN 0 ELSE r[Chosen(S)].amount + AmountOf(r, S \ {Chosen(S)})
  <1>1. AmountOf(r, S) = Unfolded(r, Sums(r, S), S)
    BY AmountByFunction, SumsUnfold
  <1>2. Sums(r, S)[S \ {Chosen(S)}] = AmountOf(r, S \ {Chosen(S)})
    BY AmountByFunction, SumsAgree
  <1> QED
    BY <1>1, <1>2 DEF Unfolded

(* It is a natural number. *)
LEMMA AmountType ==
  ASSUME NEW r, NEW S, IsFiniteSet(S), \A o \in S : r[o].amount \in Nat
  PROVE  AmountOf(r, S) \in Nat
  <1> DEFINE C == {s \in SUBSET S : AmountOf(r, s) \notin Nat}
  <1>1. \A s \in SUBSET S : IsFiniteSet(s)
    BY FS_Subset
  <1>2. C = {}
    <2> SUFFICES ASSUME C # {} PROVE FALSE
      OBVIOUS
    <2>1. PICK s \in C : \A t \in C : Cardinality(s) <= Cardinality(t)
      BY <1>1, SmallestSet
    <2>2. s # {}
      <3>1. s = {} => AmountOf(r, s) = 0
        BY <1>1, AmountUnfolds
      <3> QED
        BY <3>1
    <2>3. s \ {Chosen(s)} \notin C /\ Chosen(s) \in S
      <3>1. Chosen(s) \in s
        BY <2>2, ChosenIn
      <3>2. ~ (Cardinality(s) <= Cardinality(s \ {Chosen(s)}))
        BY <3>1, <2>1, <1>1, OneLess
      <3> QED
        BY <3>1, <3>2, <2>1
    <2> QED
      BY <1>1, <2>2, <2>3, AmountUnfolds
  <1> QED
    BY <1>2

(* It depends on nothing but the amounts. *)
LEMMA AmountDepends ==
  ASSUME NEW q, NEW r, NEW S, IsFiniteSet(S), \A o \in S : q[o].amount = r[o].amount
  PROVE  AmountOf(q, S) = AmountOf(r, S)
  <1> DEFINE C == {s \in SUBSET S : AmountOf(q, s) # AmountOf(r, s)}
  <1>1. \A s \in SUBSET S : IsFiniteSet(s)
    BY FS_Subset
  <1>2. C = {}
    <2> SUFFICES ASSUME C # {} PROVE FALSE
      OBVIOUS
    <2>1. PICK s \in C : \A t \in C : Cardinality(s) <= Cardinality(t)
      BY <1>1, SmallestSet
    <2>2. s # {}
      <3>1. s = {} => AmountOf(q, s) = 0 /\ AmountOf(r, s) = 0
        BY <1>1, AmountUnfolds
      <3> QED
        BY <3>1
    <2>3. s \ {Chosen(s)} \notin C /\ Chosen(s) \in S
      <3>1. Chosen(s) \in s
        BY <2>2, ChosenIn
      <3>2. ~ (Cardinality(s) <= Cardinality(s \ {Chosen(s)}))
        BY <3>1, <2>1, <1>1, OneLess
      <3> QED
        BY <3>1, <3>2, <2>1
    <2> QED
      BY <1>1, <2>2, <2>3, AmountUnfolds
  <1> QED
    BY <1>2

(* Any one order can be counted first. *)
LEMMA AmountSplits ==
  ASSUME NEW r, NEW S, IsFiniteSet(S), \A o \in S : r[o].amount \in Nat, NEW p \in S
  PROVE  AmountOf(r, S) = r[p].amount + AmountOf(r, S \ {p})
  <1> DEFINE Splits(s, x) == AmountOf(r, s) = r[x].amount + AmountOf(r, s \ {x})
             C == {s \in SUBSET S : \E x \in s : ~ Splits(s, x)}
  <1>1. \A s \in SUBSET S : IsFiniteSet(s) /\ AmountOf(r, s) \in Nat
    BY FS_Subset, AmountType
  <1>2. C = {}
    <2> SUFFICES ASSUME C # {} PROVE FALSE
      OBVIOUS
    <2>1. PICK s \in C : \A t \in C : Cardinality(s) <= Cardinality(t)
      BY <1>1, SmallestSet
    <2>2. PICK x \in s : ~ Splits(s, x)
      OBVIOUS
    <2>3. \A y \in s : \A z \in s \ {y} : Splits(s \ {y}, z)
      <3> SUFFICES ASSUME NEW y \in s PROVE s \ {y} \notin C
        OBVIOUS
      <3>1. ~ (Cardinality(s) <= Cardinality(s \ {y}))
        BY <2>1, <1>1, OneLess
      <3> QED
        BY <3>1, <2>1
    <2> DEFINE c == Chosen(s)
    <2>4. c \in s /\ Splits(s, c)
      BY <1>1, ChosenIn, AmountUnfolds
    <2> HIDE DEF c
    <2>5. x # c
      BY <2>2, <2>4
    <2>6. Splits(s \ {c}, x) /\ Splits(s \ {x}, c)
      <3> HIDE DEF Splits
      <3> QED
        BY <2>3, <2>4, <2>5
    <2>7. (s \ {c}) \ {x} = (s \ {x}) \ {c}
      OBVIOUS
    <2> DEFINE rest == AmountOf(r, (s \ {x}) \ {c})
    <2>8. r[c].amount \in Nat /\ r[x].amount \in Nat /\ rest \in Nat
      BY <1>1, <2>4
    <2>9. /\ AmountOf(r, s \ {c}) = r[x].amount + rest
          /\ AmountOf(r, s \ {x}) = r[c].amount + rest
      BY <2>6, <2>7
    <2>10. AmountOf(r, s) = r[x].amount + AmountOf(r, s \ {x})
      <3> HIDE DEF rest
      <3> QED
        BY <2>4, <2>8, <2>9
    <2> QED
      BY <2>2, <2>10
  <1> QED
    BY <1>2

(* A set has at least the sum of a part of it. *)
LEMMA AmountOfPart ==
  ASSUME NEW r, NEW S, IsFiniteSet(S), \A o \in S : r[o].amount \in Nat, NEW P \in SUBSET S
  PROVE  AmountOf(r, P) <= AmountOf(r, S)
  <1> DEFINE C == {s \in SUBSET S : P \subseteq s /\ ~ (AmountOf(r, P) <= AmountOf(r, s))}
  <1>1. \A s \in SUBSET S : IsFiniteSet(s) /\ AmountOf(r, s) \in Nat
    BY FS_Subset, AmountType
  <1>2. C = {}
    <2> SUFFICES ASSUME C # {} PROVE FALSE
      OBVIOUS
    <2>1. PICK s \in C : \A t \in C : Cardinality(s) <= Cardinality(t)
      BY <1>1, SmallestSet
    <2>2. PICK x \in s : x \notin P
      BY <1>1
    <2>3. ~ (Cardinality(s) <= Cardinality(s \ {x}))
      BY <2>1, <1>1, OneLess
    <2>4. AmountOf(r, P) <= AmountOf(r, s \ {x})
      BY <2>1, <2>2, <2>3
    <2>5. AmountOf(r, s) = r[x].amount + AmountOf(r, s \ {x})
      BY <1>1, AmountSplits
    <2> QED
      BY <1>1, <2>4, <2>5
  <1> QED
    BY <1>2

-----------------------------------------------------------------------------
(* The watermark as a sum *)

(* The orders settled from one asset are finitely many, of natural amounts. *)
LEMMA ClaimantsFinite ==
  ASSUME NEW r, NEW m, NEW s
  PROVE  /\ IsFiniteSet(Claimants(r, m, s))
         /\ r \in [Orders -> Row] => \A o \in Claimants(r, m, s) : r[o].amount \in Nat
  <1>1. IsFiniteSet(Orders)
    BY BoundsAssumption, FS_Interval DEF Orders
  <1>2. IsFiniteSet(Claimants(r, m, s))
    BY <1>1, FS_Subset DEF Claimants
  <1> QED
    BY <1>2, RowFields DEF Claimants

(* The claims alone decide what they add up to.                             *)
LEMMA SumsDecided ==
  ASSUME NEW q, NEW r, NEW w, SumsTo(r, w),
         \A p \in Orders : \/ SameClaim(q[p], r[p])
                           \/ q[p].via \notin Assets /\ r[p].via \notin Assets
  PROVE  SumsTo(q, w)
  <1> SUFFICES ASSUME NEW m \in Merchants, NEW s \in Assets
               PROVE  w[m][s] = AmountOf(q, Claimants(q, m, s))
    BY DEF SumsTo
  <1>1. Claimants(q, m, s) = Claimants(r, m, s)
    BY DEF Claimants, SameClaim
  <1>2. \A o \in Claimants(r, m, s) : q[o].amount = r[o].amount
    BY DEF Claimants, SameClaim
  <1>3. AmountOf(q, Claimants(r, m, s)) = AmountOf(r, Claimants(r, m, s))
    BY <1>2, ClaimantsFinite, AmountDepends
  <1> QED
    BY <1>1, <1>3 DEF SumsTo

(* A claim adds its amount to the sum and to the watermark.                 *)
LEMMA ClaimAdds ==
  ASSUME TypeOK, TypeOK', SessionInv, ViewInv, SumsTo(Flushed, InForce),
         NEW o \in Orders, Claims(o)
  PROVE  SumsTo(Flushed', InForce')
  <1> DEFINE m == Flushed[o].merchant
             s == Flushed'[o].via
             a == Flushed[o].amount
  <1>1. m \in Merchants /\ s \in Assets /\ a \in Nat
    BY InForceFacts, RowFields DEF Claims
  <1>2. /\ InForce'[m][s] = InForce[m][s] + a
        /\ \A n \in Merchants, x \in Assets :
              <<n, x>> # <<m, s>> => InForce'[n][x] = InForce[n][x]
    BY <1>1, InForceFacts DEF Claims, Watermarks
  <1>3. /\ Flushed'[o].merchant = m /\ Flushed'[o].amount = a
        /\ \A p \in Orders : p # o => Flushed'[p] = Flushed[p]
    BY DEF Claims
  <1>4. Flushed[o].via \notin Assets
    BY PendingClaimsNothing DEF Claims
  <1>5. Flushed \in [Orders -> Row] /\ Flushed' \in [Orders -> Row]
    BY FlushedType DEF TypeOK, Flushed
  <1> SUFFICES ASSUME NEW n \in Merchants, NEW x \in Assets
               PROVE  InForce'[n][x] = AmountOf(Flushed', Claimants(Flushed', n, x))
    BY DEF SumsTo
  <1> DEFINE before == Claimants(Flushed, n, x)
             after == Claimants(Flushed', n, x)
  <1>6. IsFiniteSet(before) /\ IsFiniteSet(after) /\ \A p \in after : Flushed'[p].amount \in Nat
    BY <1>5, ClaimantsFinite
  <1>7. o \notin before /\ \A p \in before : Flushed'[p].amount = Flushed[p].amount
    BY <1>3, <1>4 DEF Claimants
  <1>8. AmountOf(Flushed', before) = InForce[n][x]
    BY <1>6, <1>7, AmountDepends DEF SumsTo
  <1>9. CASE n = m /\ x = s
    <2>1. o \in after /\ after \ {o} = before
      BY <1>3, <1>7, <1>9 DEF Claimants
    <2>2. AmountOf(Flushed', after) = Flushed'[o].amount + AmountOf(Flushed', after \ {o})
      BY <1>6, <2>1, AmountSplits
    <2>3. InForce[n][x] \in Nat
      BY InForceFacts DEF Watermarks
    <2>4. InForce'[n][x] = InForce[n][x] + a
      BY <1>2, <1>9
    <2>5. AmountOf(Flushed', after) = a + InForce[n][x]
      BY <1>3, <1>8, <2>1, <2>2
    <2> HIDE DEF a
    <2> QED
      BY <1>1, <2>3, <2>4, <2>5
  <1>10. CASE <<n, x>> # <<m, s>>
    <2>1. after = before
      BY <1>3, <1>4, <1>10 DEF Claimants
    <2> QED
      BY <1>2, <1>8, <1>10, <2>1
  <1> QED
    BY <1>9, <1>10

(* Whatever is lost or committed in mid-pass, the watermark is the sum of   *)
(* the amounts of the orders settled from it (poll_pending_orders).         *)
THEOREM WatermarksAddUp == Spec => []WatermarkIsSumOfClaims
  <1>1. Init => WatermarkIsSumOfClaims
    <2> SUFFICES ASSUME Init PROVE WatermarkIsSumOfClaims
      OBVIOUS
    <2>1. \A p \in Orders : row[p].via \notin Assets /\ Flushed[p].via \notin Assets
      BY BlankFields, AddressAssumption DEF Init, Flushed, Loaded
    <2>2. \A m \in Merchants, s \in Assets : consumed[m][s] = 0 /\ InForce[m][s] = 0
      BY DEF Init, NoClaims, InForce
    <2>3. \A m \in Merchants, s \in Assets :
             Claimants(row, m, s) = {} /\ Claimants(Flushed, m, s) = {}
      BY <2>1 DEF Claimants
    <2>4. \A r : AmountOf(r, {}) = 0
      BY AmountUnfolds, FS_EmptySet
    <2> QED
      BY <2>2, <2>3, <2>4 DEF WatermarkIsSumOfClaims, SumsTo
  <1>2. TypeOK /\ TypeOK' /\ SessionInv /\ ViewInv /\ WatermarkIsSumOfClaims /\ [Next]_vars
          => WatermarkIsSumOfClaims'
    <2> SUFFICES ASSUME TypeOK, TypeOK', SessionInv, ViewInv, WatermarkIsSumOfClaims, [Next]_vars
                 PROVE  SumsTo(row', consumed') /\ SumsTo(Flushed', InForce')
      BY DEF WatermarkIsSumOfClaims, SumsTo
    <2>1. SumsTo(row, consumed) /\ SumsTo(Flushed, InForce)
      BY DEF WatermarkIsSumOfClaims
    <2>2. CASE KeepsClaims
      BY <2>1, <2>2, SumsDecided DEF KeepsClaims
    <2>3. CASE Commits
      BY <2>1, <2>3 DEF Commits
    <2>4. CASE Forgets
      BY <2>1, <2>4 DEF Forgets
    <2>5. ASSUME NEW o \in Orders, Opens(o)
          PROVE  SumsTo(row', consumed') /\ SumsTo(Flushed', InForce')
      <3>1. Flushed[o] = row[o]
        BY <2>5, InForceFacts DEF Opens, SessionInv, Loaded
      <3>2. row[o].via \notin Assets /\ Flushed[o].via \notin Assets
        BY <3>1, <2>5, PendingClaimsNothing DEF Opens
      <3>3. row'[o].via \notin Assets /\ Flushed'[o].via \notin Assets
        BY <2>5, AddressAssumption DEF Opens
      <3> QED
        BY <2>1, <2>5, <3>2, <3>3, SumsDecided DEF Opens, SameClaim
    <2>6. ASSUME NEW o \in Orders, Claims(o)
          PROVE  SumsTo(row', consumed') /\ SumsTo(Flushed', InForce')
      BY <2>1, <2>6, ClaimAdds DEF Claims
    <2>7. ASSUME NEW o \in Orders, SettlesOnEvm(o)
          PROVE  SumsTo(row', consumed') /\ SumsTo(Flushed', InForce')
      <3>1. Flushed[o].via \notin Assets /\ Flushed'[o].via \notin Assets
        BY <2>7, AddressAssumption, PendingClaimsNothing DEF SettlesOnEvm
      <3> QED
        BY <2>1, <2>7, <3>1, SumsDecided DEF SettlesOnEvm, SameClaim
    <2> QED
      BY <2>2, <2>3, <2>4, <2>5, <2>6, <2>7, StepKinds
  <1> QED
    BY <1>1, <1>2, TypeCorrect, SessionCorrect, ViewCorrect, PTL DEF Spec
=============================================================================
