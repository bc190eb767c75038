------------------------- MODULE RpcConsensusProofs -------------------------
(* Proofs about RpcConsensus, for any pools of providers of which fewer     *)
(* than a quorum are faulty, and any limits of the breakers and buckets.    *)
EXTENDS RpcConsensus, TLAPS, FiniteSetTheorems

(* A quorum of a pool of two or more has at least two members.              *)
LEMMA QuorumIsNat ==
  ASSUME NEW P \in Pools
  PROVE  IsFiniteSet(P) /\ QuorumOf(P) \in Nat /\ QuorumOf(P) >= 2
  <1>1. IsFiniteSet(P)
    BY PoolAssumption, FS_Subset
  <1>2. Cardinality(P) \in Nat
    BY <1>1, FS_CardinalityType
  <1>3. Cardinality(P) >= 2
    BY PoolAssumption
  <1>4. \A n \in Nat : n >= 2 => n \div 2 + 1 \in Nat /\ n \div 2 + 1 >= 2
    OBVIOUS
  <1> QED
    BY <1>1, <1>2, <1>3, <1>4 DEF QuorumOf

(* What a bucket holds after a refill is at most its capacity and at most   *)
(* what was in it and what has flowed in since.                             *)
LEMMA RefillBounds ==
  ASSUME TypeOK, NEW p \in Providers, refilled[p] <= clock
  PROVE  /\ Refill(p) \in Nat
         /\ Refill(p) <= Burst
         /\ Refill(p) <= tokens[p] + Rate * (clock - refilled[p])
  <1> DEFINE d == clock - refilled[p]
  <1>1. d \in Nat /\ Rate \in Nat /\ Burst \in Nat /\ tokens[p] \in Nat
    BY LimitAssumption DEF TypeOK
  <1>2. Rate * d \in Nat
    BY <1>1
  <1> QED
    BY <1>1, <1>2 DEF Refill

(* The bucket's instant of refill is never in the future.                   *)
RefilledPast == \A p \in Providers : refilled[p] <= clock

(* The parts of the system's steps that the invariants turn on.             *)
LEMMA TypeStep ==
  ASSUME TypeOK, RefilledPast, [Next]_vars
  PROVE  TypeOK' /\ RefilledPast'
  <1> USE DEF TypeOK, RefilledPast
  <1>1. CASE Tick
    BY <1>1 DEF Tick, breaker, bucket
  <1>2. CASE \E b \in Balances : BalanceChanges(b)
    BY <1>2 DEF BalanceChanges, breaker, bucket
  <1>3. CASE \E P \in Pools, b \in Balances : StartRound(P, b)
    BY <1>3 DEF StartRound, breaker, bucket, Outcomes
  <1>4. ASSUME NEW p \in Providers, Query(p) PROVE TypeOK' /\ RefilledPast'
    <2>1. CASE SkipOpen(p)
      BY <2>1 DEF SkipOpen, Returns, world, breaker, bucket
    <2>2. CASE SkipRateLimited(p)
      BY <2>2, RefillBounds DEF SkipRateLimited, Take, Returns, world, breaker
    <2>3. CASE Ask(p)
      <3>1. Refill(p) - 1 \in Nat
        BY <2>3, RefillBounds DEF Ask, HasToken
      <3> QED
        BY <2>3, <3>1 DEF Ask, Take, world, breaker
    <2>4. CASE WrongChain(p) \/ SecondAttemptFails(p)
      <3>1. RecordFailure(p) /\ Returns(p, NoVote)
            /\ UNCHANGED <<world, bucket, phase, result, seen, answered, rounds>>
        BY <2>4 DEF WrongChain, SecondAttemptFails
      <3>2. failures' \in [Providers -> Nat] /\ openUntil' \in [Providers -> Nat]
        BY <3>1, LimitAssumption DEF RecordFailure
      <3> QED
        BY <3>1, <3>2 DEF Returns, world, bucket
    <2>5. CASE FirstAttemptFails(p)
      BY <2>5 DEF FirstAttemptFails, world, breaker, bucket
    <2>6. CASE \E r \in Raw : Answer(p, r)
      <3>1. PICK r \in Raw : Answer(p, r)
        BY <2>6
      <3>2. failures' \in [Providers -> Nat] /\ openUntil' \in [Providers -> Nat]
        BY <3>1 DEF Answer, RecordSuccess
      <3>3. answered' \in [Providers -> BOOLEAN]
        BY <3>1 DEF Answer
      <3> QED
        BY <3>1, <3>2, <3>3 DEF Answer, Returns, world, bucket
    <2> QED
      BY <1>4, <2>1, <2>2, <2>3, <2>4, <2>5, <2>6 DEF Query
  <1>5. CASE NobodyAnswered \/ CountVotes
    <2>1. PICK res : Conclude(res) /\ (res = Unreached \/ \E r \in Raw : res = Tally(r))
      BY <1>5 DEF NobodyAnswered, CountVotes
    <2>2. res \in [outcome : Outcomes, value : Nat \cup {NotANumber}]
      <3>1. Unreached \in [outcome : Outcomes, value : Nat \cup {NotANumber}]
        BY DEF Unreached, Outcomes
      <3>2. ASSUME NEW r \in Raw
            PROVE  Tally(r) \in [outcome : Outcomes, value : Nat \cup {NotANumber}]
        <4>1. ValueOf[r] \in Nat \cup {NotANumber}
          BY AnswerAssumption
        <4> QED
          BY <4>1, <3>1 DEF Tally, Outcomes
      <3> QED
        BY <2>1, <3>1, <3>2
    <2> QED
      BY <2>1, <2>2 DEF Conclude, world, breaker, bucket
  <1>6. CASE UNCHANGED vars
    BY <1>6 DEF vars
  <1> QED
    BY <1>1, <1>2, <1>3, <1>4, <1>5, <1>6 DEF Next

LEMMA InitType == Init => TypeOK /\ RefilledPast
  <1>1. Init => answered \in [Providers -> BOOLEAN]
    BY DEF Init
  <1> QED
    BY <1>1, LimitAssumption DEF Init, TypeOK, RefilledPast, Outcomes

(* Every variable keeps its type, and no bucket was refilled in the future. *)
THEOREM TypeCorrect == Spec => [](TypeOK /\ RefilledPast)
  <1>1. TypeOK /\ RefilledPast /\ [Next]_vars => TypeOK' /\ RefilledPast'
    BY TypeStep
  <1> QED
    BY <1>1, InitType, PTL DEF Spec
-----------------------------------------------------------------------------
(* Agreement *)

(* The inductive strengthening of ReachedIsTrue: the vote of a provider     *)
(* that is not faulty is a value the balance had during the round.          *)
VoteInv ==
    /\ phase = "round" => balance \in seen
    /\ \A p \in Providers : step[p] # "done" => phase = "round"
    /\ \A p \in Providers \ Faulty : vote[p] \in Raw => ValueOf[vote[p]] \in seen
    /\ ReachedIsTrue

(* A quorum is too many to be faulty providers only.                        *)
LEMMA QuorumHasHonest ==
  ASSUME NEW P \in Pools, NEW S \in SUBSET P, Cardinality(S) >= QuorumOf(P)
  PROVE  \E p \in S : p \notin Faulty
  <1> SUFFICES ASSUME S \subseteq Faulty \cap P PROVE FALSE
    OBVIOUS
  <1>1. IsFiniteSet(Faulty \cap P)
    BY QuorumIsNat, FS_Subset
  <1>2. Cardinality(S) <= Cardinality(Faulty \cap P) /\ IsFiniteSet(S)
    BY <1>1, FS_Subset
  <1>3. Cardinality(S) \in Nat /\ Cardinality(Faulty \cap P) \in Nat
    BY <1>1, <1>2, FS_CardinalityType
  <1> QED
    BY <1>2, <1>3, QuorumIsNat, PoolAssumption

LEMMA VoteInit == Init => VoteInv
  <1> SUFFICES ASSUME Init PROVE VoteInv
    OBVIOUS
  <1>1. phase = "idle" /\ result.outcome = "none"
    BY DEF Init
  <1>2. \A p \in Providers : step[p] = "done" /\ vote[p] \notin Raw
    BY AnswerAssumption DEF Init, NoVote
  <1> QED
    BY <1>1, <1>2 DEF VoteInv, ReachedIsTrue

(* A provider's query touches nothing but what is kept of that provider.    *)
LEMMA QueryAside ==
  ASSUME NEW p \in Providers, Query(p)
  PROVE  UNCHANGED <<phase, balance, seen, result, pool>>
  BY DEF Query, SkipOpen, SkipRateLimited, Ask, WrongChain, FirstAttemptFails,
     SecondAttemptFails, Answer, world

LEMMA VoteStep == TypeOK /\ VoteInv /\ [Next]_vars => VoteInv'
  <1> SUFFICES ASSUME TypeOK, VoteInv, [Next]_vars PROVE VoteInv'
    OBVIOUS
  <1>1. CASE Tick \/ UNCHANGED vars
    <2>1. UNCHANGED <<phase, balance, seen, vote, result, step>>
      BY <1>1 DEF Tick, vars
    <2> QED
      BY <2>1 DEF VoteInv, ReachedIsTrue
  <1>2. CASE \E b \in Balances : BalanceChanges(b)
    BY <1>2 DEF BalanceChanges, VoteInv, ReachedIsTrue
  <1>3. CASE \E P \in Pools, b \in Balances : StartRound(P, b)
    <2>1. PICK P \in Pools, b \in Balances : StartRound(P, b)
      BY <1>3
    <2>2. \A p \in Providers : vote'[p] \notin Raw
      BY <2>1, AnswerAssumption DEF StartRound, NoVote
    <2>3. phase' = "round" /\ balance' \in seen' /\ result'.outcome = "none"
      BY <2>1 DEF StartRound
    <2> QED
      BY <2>2, <2>3 DEF VoteInv, ReachedIsTrue
  <1>4. ASSUME NEW p \in Providers, Query(p) PROVE VoteInv'
    <2>1. UNCHANGED <<phase, balance, seen, result>>
      BY <1>4, QueryAside
    <2>2. phase = "round"
      BY <1>4 DEF Query, SkipOpen, SkipRateLimited, Ask, WrongChain, FirstAttemptFails,
         SecondAttemptFails, Answer, Asking, VoteInv
    <2>3. CASE Asking(p) /\ \E r \in Raw : Answer(p, r)
      <3>1. PICK r \in Raw : Answer(p, r)
        BY <2>3
      <3>2. p \in Faulty \/ ValueOf[r] = balance
        BY <3>1 DEF Answer, MayAnswer
      <3>3. vote' = [vote EXCEPT ![p] = r]
        BY <3>1 DEF Answer, Returns
      <3> QED
        BY <2>2, <2>1, <3>2, <3>3 DEF VoteInv, ReachedIsTrue, TypeOK
    <2>4. CASE ~\E r \in Raw : Answer(p, r)
      <3>1. vote' = vote \/ vote' = [vote EXCEPT ![p] = NoVote]
        BY <1>4, <2>4 DEF Query, SkipOpen, SkipRateLimited, Ask, WrongChain,
           FirstAttemptFails, SecondAttemptFails, Returns
      <3> QED
        BY <2>2, <2>1, <3>1, AnswerAssumption DEF VoteInv, ReachedIsTrue, TypeOK, NoVote
    <2> QED
      BY <2>3, <2>4 DEF Answer
  <1>5. CASE NobodyAnswered
    <2>1. /\ UNCHANGED <<balance, vote, seen, step>> /\ phase' = "idle" /\ result' = Unreached
          /\ \A p \in Providers : step[p] = "done"
      BY <1>5 DEF NobodyAnswered, Conclude, Complete, world
    <2>2. Unreached.outcome = "unreached"
      BY DEF Unreached
    <2> QED
      BY <2>1, <2>2 DEF VoteInv, ReachedIsTrue
  <1>6. CASE CountVotes
    <2>1. PICK r \in Raw : Conclude(Tally(r))
      BY <1>6 DEF CountVotes
    <2>2. /\ UNCHANGED <<balance, vote, seen, step>> /\ phase' = "idle" /\ result' = Tally(r)
          /\ \A p \in Providers : step[p] = "done"
      BY <2>1 DEF Conclude, Complete, world
    <2>3. CASE ~Reached(r)
      <3>1. Tally(r).outcome = "unreached"
        BY <2>3 DEF Tally, Unreached
      <3> QED
        BY <2>2, <3>1 DEF VoteInv, ReachedIsTrue
    <2>4. CASE Reached(r)
      <3>1. PICK p \in Voters(r) : p \notin Faulty
        BY <2>4, QuorumHasHonest DEF Reached, Voters, TypeOK
      <3>2. p \in Providers \ Faulty /\ vote[p] = r
        BY <3>1, PoolAssumption DEF Voters, TypeOK
      <3>3. ValueOf[r] \in seen
        BY <3>2 DEF VoteInv
      <3>4. ValueOf[r] # NotANumber
        BY <3>3, AnswerAssumption DEF TypeOK
      <3>5. Tally(r).outcome = "reached" /\ Tally(r).value = ValueOf[r]
        BY <2>4, <3>4 DEF Tally
      <3> QED
        BY <2>2, <3>3, <3>5 DEF VoteInv, ReachedIsTrue
    <2> QED
      BY <2>3, <2>4
  <1> QED
    BY <1>1, <1>2, <1>3, <1>4, <1>5, <1>6 DEF Next

(* A balance believed is one the address had while it was being read.       *)
THEOREM ReachedIsTheBalance == Spec => []ReachedIsTrue
  <1>1. VoteInv => ReachedIsTrue
    BY DEF VoteInv
  <1> QED
    BY <1>1, VoteInit, VoteStep, TypeCorrect, PTL DEF Spec

(* The rounds of queries are reads of one register: whatever a query does   *)
(* is aside, and the count of votes ends the read with a value the register *)
(* held, because a quorum has a member that is not faulty.                  *)
THEOREM RoundsAreReads == Spec => ImplementsRead
  <1>1. Init => Read!Init
    BY DEF Init, Read!Init, Read!NoAnswer
  <1>2. /\ TypeOK /\ TypeOK' /\ VoteInv /\ VoteInv' /\ [Next]_vars
        => [Read!Next]_(Read!vars)
    <2> SUFFICES ASSUME TypeOK, TypeOK', VoteInv, VoteInv', [Next]_vars
                 PROVE  [Read!Next]_(Read!vars)
      OBVIOUS
    <2>1. CASE Tick \/ UNCHANGED vars
      BY <2>1 DEF Tick, vars, Read!vars
    <2>2. ASSUME NEW b \in Balances, BalanceChanges(b) PROVE Read!Change
      BY <2>2 DEF BalanceChanges, Read!Change
    <2>3. ASSUME NEW P \in Pools, NEW b \in Balances, StartRound(P, b) PROVE Read!Begin
      BY <2>3 DEF StartRound, Read!Begin, Read!NoAnswer
    <2>4. ASSUME NEW p \in Providers, Query(p) PROVE UNCHANGED Read!vars
      BY <2>4, QueryAside DEF Read!vars
    <2>5. CASE NobodyAnswered
      BY <2>5 DEF NobodyAnswered, Conclude, Complete, world, Unreached, Read!End,
         Read!Silence, Read!Next
    <2>6. CASE CountVotes
      <3>1. PICK r \in Raw : Conclude(Tally(r))
        BY <2>6 DEF CountVotes
      <3>2. /\ UNCHANGED <<balance, seen>> /\ phase = "round" /\ phase' = "idle"
            /\ result' = Tally(r)
        BY <3>1 DEF Conclude, Complete, world
      <3>3. /\ result'.outcome # "raised"
            /\ result'.outcome = "reached" => result'.value \in seen
        BY <3>2 DEF VoteInv, ReachedIsTrue
      <3>4. Tally(r) = Read!Silence \/ \E v \in seen : Tally(r) = Read!Value(v)
        BY <3>2, <3>3 DEF Tally, Unreached, Read!Silence, Read!Value
      <3> QED
        BY <3>2, <3>4 DEF Read!End, Read!Next
    <2> QED
      BY <2>1, <2>2, <2>3, <2>4, <2>5, <2>6 DEF Next, Read!Next
  <1> QED
    BY <1>1, <1>2, VoteInit, VoteStep, TypeCorrect, PTL DEF Spec, ImplementsRead, Read!Spec

(* A faulty minority cannot hide a balance that the others agree on: the    *)
(* answer with most votes has a quorum too, and is one int() can read.      *)
THEOREM MinorityCannotVeto == Spec => FaultyCannotVeto
  <1> DEFINE Heard ==
               /\ phase = "round" /\ phase' = "idle"
               /\ Cardinality(pool \ Faulty) >= QuorumOf(pool)
               /\ \E r \in Raw : pool \ Faulty \subseteq Voters(r)
               => result'.outcome = "reached"
  <1>1. TypeOK /\ VoteInv /\ VoteInv' /\ [Next]_vars => Heard
    <2> SUFFICES ASSUME TypeOK, VoteInv, VoteInv', [Next]_vars,
                        phase = "round", phase' = "idle",
                        Cardinality(pool \ Faulty) >= QuorumOf(pool),
                        NEW r \in Raw, pool \ Faulty \subseteq Voters(r)
                 PROVE  result'.outcome = "reached"
      OBVIOUS
    <2>1. IsFiniteSet(pool) /\ QuorumOf(pool) \in Nat
      BY QuorumIsNat DEF TypeOK
    <2>2. \A q \in Raw : IsFiniteSet(Voters(q)) /\ Cardinality(Voters(q)) \in Nat
      <3>1. \A q \in Raw : Voters(q) \subseteq pool
        BY DEF Voters
      <3> QED
        BY <2>1, <3>1, FS_Subset, FS_CardinalityType
    <2>3. Cardinality(pool \ Faulty) <= Cardinality(Voters(r)) /\ Cardinality(pool \ Faulty) \in Nat
      BY <2>1, <2>2, FS_Subset, FS_CardinalityType
    <2>4. Voters(r) # {}
      <3>1. PICK p \in pool \ Faulty : p \notin Faulty
        BY QuorumHasHonest DEF TypeOK
      <3> QED
        BY <3>1
    <2>5. CASE NobodyAnswered
      BY <2>4, <2>5 DEF NobodyAnswered, Voted
    <2>6. CASE CountVotes
      <3>1. PICK q \in Raw : Winning(q) /\ result' = Tally(q)
        BY <2>6 DEF CountVotes, Conclude
      <3>2. Cardinality(Voters(r)) <= Cardinality(Voters(q))
        BY <2>4, <3>1 DEF Winning, Voted
      <3>3. Reached(q)
        BY <2>1, <2>2, <2>3, <3>2 DEF Reached
      <3>4. Tally(q).outcome \in {"reached", "raised"}
        BY <3>3 DEF Tally
      <3> QED
        BY <3>1, <3>4 DEF VoteInv, ReachedIsTrue
    <2> QED
      BY <2>5, <2>6 DEF Next, Tick, BalanceChanges, StartRound, Query, SkipOpen, SkipRateLimited,
         Ask, WrongChain, FirstAttemptFails, SecondAttemptFails, Answer, vars
  <1>2. TypeOK /\ VoteInv /\ VoteInv' /\ [Next]_vars => [Heard]_vars
    BY <1>1
  <1> QED
    BY <1>2, VoteInit, VoteStep, TypeCorrect, PTL DEF Spec, FaultyCannotVeto

-----------------------------------------------------------------------------
(* Rate *)

(* The inductive strengthening of AskedWithinRate: queries already made and *)
(* tokens still there are paid for by the burst and the refills so far.     *)
RateInv ==
    \A p \in Providers : begun[p] + tokens[p] <= Burst + Rate * refilled[p]

(* Multiplication by the rate: it distributes over an interval and grows.   *)
LEMMA RateTimes ==
  ASSUME NEW s \in Nat, NEW t \in Nat, s <= t
  PROVE  /\ Rate * s \in Nat /\ Rate * t \in Nat
         /\ Rate * (t - s) = Rate * t - Rate * s
         /\ Rate * s <= Rate * t
  <1>1. Rate \in Nat /\ t - s \in Nat
    BY LimitAssumption
  <1>2. Rate * (t - s) \in Nat /\ Rate * s \in Nat /\ Rate * t \in Nat
    BY <1>1
  <1>3. Rate * (t - s) = Rate * t - Rate * s
    BY <1>1
  <1> QED
    BY <1>2, <1>3

(* No provider is asked more than one burst and the refill rate allow.      *)
THEOREM ProvidersAskedWithinRate == Spec => []AskedWithinRate
  <1>1. Init => RateInv
    BY LimitAssumption DEF Init, RateInv
  <1>2. TypeOK /\ RefilledPast /\ RateInv /\ [Next]_vars => RateInv'
    <2> SUFFICES ASSUME TypeOK, RefilledPast, RateInv, [Next]_vars PROVE RateInv'
      OBVIOUS
    <2>1. CASE UNCHANGED bucket
      BY <2>1 DEF bucket, RateInv
    <2>2. ASSUME NEW p \in Providers, SkipRateLimited(p) \/ Ask(p) PROVE RateInv'
      <3>1. /\ refilled' = [refilled EXCEPT ![p] = clock]
            /\ \/ tokens' = [tokens EXCEPT ![p] = Refill(p) - 0] /\ begun' = begun
               \/ tokens' = [tokens EXCEPT ![p] = Refill(p) - 1]
                  /\ begun' = [begun EXCEPT ![p] = @ + 1]
        BY <2>2 DEF SkipRateLimited, Ask, Take
      <3>2. /\ Refill(p) \in Nat
            /\ Refill(p) <= tokens[p] + Rate * (clock - refilled[p])
        BY RefillBounds DEF RefilledPast
      <3>3. /\ Rate * (clock - refilled[p]) = Rate * clock - Rate * refilled[p]
            /\ Rate * clock \in Nat /\ Rate * refilled[p] \in Nat
        BY RateTimes DEF TypeOK, RefilledPast
      <3>4. /\ begun[p] \in Nat /\ tokens[p] \in Nat /\ Burst \in Nat
            /\ begun[p] + tokens[p] <= Burst + Rate * refilled[p]
        BY LimitAssumption DEF TypeOK, RateInv
      <3>5. begun'[p] + tokens'[p] = begun[p] + Refill(p) /\ refilled'[p] = clock
        BY <3>1, <3>2, <3>4 DEF TypeOK
      <3>6. begun'[p] + tokens'[p] <= Burst + Rate * clock
        BY <3>2, <3>3, <3>4, <3>5
      <3>7. \A q \in Providers : q # p =>
               begun'[q] = begun[q] /\ tokens'[q] = tokens[q] /\ refilled'[q] = refilled[q]
        BY <3>1 DEF TypeOK
      <3> QED
        BY <3>5, <3>6, <3>7 DEF RateInv
    <2> QED
      BY <2>1, <2>2 DEF Next, Tick, BalanceChanges, StartRound, Query, SkipOpen, WrongChain,
         FirstAttemptFails, SecondAttemptFails, Answer, NobodyAnswered, CountVotes, Conclude,
         vars, bucket
  <1>3. TypeOK /\ RefilledPast /\ RateInv => AskedWithinRate
    <2> SUFFICES ASSUME TypeOK, RefilledPast, RateInv, NEW p \in Providers
                 PROVE  begun[p] <= Burst + Rate * clock
      BY DEF AskedWithinRate
    <2>1. Rate * refilled[p] <= Rate * clock /\ Rate * clock \in Nat /\ Rate * refilled[p] \in Nat
      BY RateTimes DEF TypeOK, RefilledPast
    <2>2. begun[p] + tokens[p] <= Burst + Rate * refilled[p] /\ begun[p] \in Nat
          /\ tokens[p] \in Nat /\ Burst \in Nat
      BY LimitAssumption DEF TypeOK, RateInv
    <2> QED
      BY <2>1, <2>2
  <1> QED
    BY <1>1, <1>2, <1>3, TypeCorrect, PTL DEF Spec
-----------------------------------------------------------------------------
(* Breakers *)

(* The inductive strengthening of DeadProviderRarelyAsked, for one provider *)
(* that never answered, given how often it failed and was asked, until when *)
(* its circuit is open, whether it is being asked now, and the time.        *)
Dead(f, n, u, asking, t) ==
    /\ n = f + (IF asking THEN 1 ELSE 0)
    /\ f >= Threshold => u >= Cooldown * (f - Threshold + 1)
    /\ n > Threshold => Cooldown * (n - Threshold) <= t

DeadInv ==
    \A p \in Providers :
        ~answered[p] => Dead(failures[p], begun[p], openUntil[p], Asking(p), clock)

(* Another query is only made once the circuit has closed.                  *)
LEMMA DeadAsked ==
  ASSUME NEW f \in Nat, NEW n \in Nat, NEW u \in Nat, NEW t \in Nat,
         Dead(f, n, u, FALSE, t), ~(t < u)
  PROVE  Dead(f, n + 1, u, TRUE, t)
  <1>1. n = f /\ Threshold \in Nat /\ Cooldown \in Nat
    BY LimitAssumption DEF Dead
  <1>2. CASE f >= Threshold
    <2>1. u >= Cooldown * (f - Threshold + 1) /\ f - Threshold + 1 \in Nat
      BY <1>1, <1>2 DEF Dead
    <2>2. n + 1 - Threshold = f - Threshold + 1
      BY <1>1
    <2>3. Cooldown * (n + 1 - Threshold) <= t
      <3>1. Cooldown * (f - Threshold + 1) \in Nat
        BY <1>1, <2>1
      <3> QED
        BY <2>1, <2>2, <3>1
    <2> QED
      BY <1>1, <2>1, <2>3 DEF Dead
  <1>3. CASE ~(f >= Threshold)
    BY <1>1, <1>3 DEF Dead
  <1> QED
    BY <1>2, <1>3

(* A query that fails opens the circuit for a cooldown.                     *)
LEMMA DeadFailed ==
  ASSUME NEW f \in Nat, NEW n \in Nat, NEW u \in Nat, NEW t \in Nat, NEW w \in Nat,
         Dead(f, n, u, TRUE, t), f + 1 >= Threshold => w = t + Cooldown
  PROVE  Dead(f + 1, n, w, FALSE, t)
  <1>1. n = f + 1 /\ Threshold \in Nat /\ Cooldown \in Nat
    BY LimitAssumption DEF Dead
  <1>2. ASSUME f + 1 >= Threshold PROVE w >= Cooldown * (f + 1 - Threshold + 1)
    <2> DEFINE k == f + 1 - Threshold
    <2>1. k \in Nat /\ w = t + Cooldown
      BY <1>1, <1>2
    <2>2. Cooldown * k <= t
      BY <1>1, <2>1 DEF Dead
    <2> HIDE DEF k
    <2>3. Cooldown * (k + 1) = Cooldown * k + Cooldown /\ Cooldown * k \in Nat
      BY <1>1, <2>1
    <2>4. w >= Cooldown * (k + 1)
      BY <1>1, <2>1, <2>2, <2>3
    <2> QED
      BY <2>4 DEF k
  <1> QED
    BY <1>1, <1>2 DEF Dead

(* A provider that never answers is asked Threshold times, and then at most *)
(* once per cooldown, whatever rounds of whichever chains are run.          *)
THEOREM DeadProvidersRest == Spec => []DeadProviderRarelyAsked
  <1>1. Init => DeadInv
    BY LimitAssumption DEF Init, DeadInv, Dead, Asking
  <1>2. TypeOK /\ VoteInv /\ DeadInv /\ [Next]_vars => DeadInv'
    <2> SUFFICES ASSUME TypeOK, VoteInv, DeadInv, [Next]_vars, NEW p \in Providers,
                        ~answered'[p]
                 PROVE  Dead(failures'[p], begun'[p], openUntil'[p], Asking(p)', clock')
      BY DEF DeadInv
    <2> DEFINE Same == /\ failures'[p] = failures[p] /\ begun'[p] = begun[p]
                       /\ openUntil'[p] = openUntil[p] /\ answered'[p] = answered[p]
    <2>1. failures[p] \in Nat /\ begun[p] \in Nat /\ openUntil[p] \in Nat /\ clock \in Nat
      BY DEF TypeOK
    <2>2. ASSUME Same, Asking(p)' <=> Asking(p), clock' \in Nat, clock' >= clock
          PROVE  Dead(failures'[p], begun'[p], openUntil'[p], Asking(p)', clock')
      <3>1. Dead(failures[p], begun[p], openUntil[p], Asking(p), clock)
        BY <2>2 DEF DeadInv
      <3>2. ASSUME begun[p] > Threshold PROVE Cooldown * (begun[p] - Threshold) <= clock'
        <4>1. Cooldown * (begun[p] - Threshold) \in Nat
          <5>1. begun[p] - Threshold \in Nat /\ Cooldown \in Nat
            BY <2>1, <3>2, LimitAssumption
          <5> QED
            BY <5>1
        <4> QED
          BY <2>1, <2>2, <3>1, <3>2, <4>1 DEF Dead
      <3> QED
        BY <2>2, <3>1, <3>2 DEF Dead
    <2>3. CASE Tick \/ UNCHANGED vars \/ \E b \in Balances : BalanceChanges(b)
      BY <2>1, <2>2, <2>3 DEF Tick, vars, BalanceChanges, breaker, bucket, world, Asking
    <2>4. CASE \E P \in Pools, b \in Balances : StartRound(P, b)
      <3>1. ~Asking(p)
        BY <2>4 DEF StartRound, VoteInv, Asking
      <3>2. ~Asking(p)'
        BY <2>4 DEF StartRound, Asking
      <3> QED
        BY <2>1, <2>2, <2>4, <3>1, <3>2 DEF StartRound, breaker, bucket
    <2>5. ASSUME NEW q \in Providers, q # p, Query(q)
          PROVE  Dead(failures'[p], begun'[p], openUntil'[p], Asking(p)', clock')
      <3>1. clock' = clock /\ step'[p] = step[p]
        BY <2>5 DEF Query, SkipOpen, SkipRateLimited, Ask, WrongChain, FirstAttemptFails,
           SecondAttemptFails, Answer, Returns, world, TypeOK
      <3>2. failures'[p] = failures[p] /\ openUntil'[p] = openUntil[p]
        BY <2>5 DEF Query, SkipOpen, SkipRateLimited, Ask, WrongChain, FirstAttemptFails,
           SecondAttemptFails, Answer, RecordFailure, RecordSuccess, breaker, TypeOK
      <3>3. begun'[p] = begun[p] /\ answered'[p] = answered[p]
        BY <2>5 DEF Query, SkipOpen, SkipRateLimited, Ask, WrongChain, FirstAttemptFails,
           SecondAttemptFails, Answer, bucket, TypeOK
      <3> QED
        BY <2>1, <2>2, <3>1, <3>2, <3>3 DEF Asking
    <2>6. CASE SkipOpen(p) \/ SkipRateLimited(p) \/ FirstAttemptFails(p)
      <3>1. Asking(p)' <=> Asking(p)
        BY <2>6 DEF SkipOpen, SkipRateLimited, FirstAttemptFails, Returns, Asking, TypeOK
      <3> QED
        BY <2>1, <2>2, <2>6, <3>1 DEF SkipOpen, SkipRateLimited, FirstAttemptFails,
           breaker, bucket, world
    <2>7. CASE Ask(p)
      <3>1. /\ step[p] = "ready" /\ ~(clock < openUntil[p]) /\ step'[p] = "first"
            /\ begun'[p] = begun[p] + 1
            /\ UNCHANGED <<failures, openUntil, answered, clock>>
        BY <2>7 DEF Ask, CircuitIsOpen, TypeOK, breaker, world
      <3>2. ~Asking(p) /\ Asking(p)'
        BY <3>1 DEF Asking
      <3>3. Dead(failures[p], begun[p], openUntil[p], FALSE, clock)
        BY <3>1, <3>2 DEF DeadInv, Dead
      <3>4. Dead(failures[p], begun[p] + 1, openUntil[p], TRUE, clock)
        BY <2>1, <3>1, <3>3, DeadAsked
      <3> QED
        BY <3>1, <3>2, <3>4 DEF Dead
    <2>8. CASE WrongChain(p) \/ SecondAttemptFails(p)
      <3>1. /\ Asking(p) /\ RecordFailure(p) /\ step' = [step EXCEPT ![p] = "done"]
            /\ UNCHANGED <<begun, answered, clock>>
        BY <2>8 DEF WrongChain, SecondAttemptFails, Asking, Returns, bucket, world
      <3>2. /\ failures'[p] = failures[p] + 1
            /\ failures[p] + 1 >= Threshold => openUntil'[p] = clock + Cooldown
            /\ openUntil'[p] \in Nat
        BY <2>1, <3>1, LimitAssumption DEF RecordFailure, Trips, TypeOK
      <3>3. ~Asking(p)'
        BY <3>1 DEF Asking, TypeOK
      <3>4. Dead(failures[p], begun[p], openUntil[p], TRUE, clock)
        BY <3>1 DEF DeadInv, Dead
      <3>5. Dead(failures[p] + 1, begun[p], openUntil'[p], FALSE, clock)
        BY <2>1, <3>2, <3>4, DeadFailed
      <3> QED
        BY <3>1, <3>2, <3>3, <3>5 DEF Dead
    <2>9. CASE \E r \in Raw : Answer(p, r)
      BY <2>9 DEF Answer, TypeOK
    <2>10. CASE NobodyAnswered \/ CountVotes
      BY <2>1, <2>2, <2>10 DEF NobodyAnswered, CountVotes, Conclude, breaker, bucket, world, Asking
    <2>11. ASSUME NEW q \in Providers, Query(q)
           PROVE  Dead(failures'[p], begun'[p], openUntil'[p], Asking(p)', clock')
      BY <2>5, <2>6, <2>7, <2>8, <2>9, <2>11 DEF Query
    <2> QED
      BY <2>3, <2>4, <2>10, <2>11 DEF Next
  <1>3. DeadInv => DeadProviderRarelyAsked
    BY DEF DeadInv, Dead, DeadProviderRarelyAsked
  <1> QED
    BY <1>1, <1>2, <1>3, VoteInit, VoteStep, TypeCorrect, PTL DEF Spec
=============================================================================
