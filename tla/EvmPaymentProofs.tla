--------------------------- MODULE EvmPaymentProofs --------------------------
(***************************************************************************)
(* Theorems about EvmPayment, for any chains, pools, tokens and prices.    *)
(* Every step of a check is a step of RpcConsensus or leaves its state     *)
(* alone, so what is proved of the rounds holds of the rounds of a check;  *)
(* the rest is an induction over the reads of one check.                   *)
(***************************************************************************)
EXTENDS EvmPayment, RpcConsensusProofs

LEMMA StepOfRounds == EvmTypeOK /\ [EvmNext]_evmVars => [Next]_vars
<1> SUFFICES ASSUME EvmTypeOK, [EvmNext]_evmVars PROVE [Next]_vars
  OBVIOUS
<1>1. ASSUME Call PROVE Next
  <2>1. PoolOf(ChainOf[at]) \in Pools BY ReadsAssumption DEF EvmTypeOK
  <2> QED BY <1>1, <2>1 DEF Call, Next
<1>2. ASSUME Round PROVE Next BY <1>2 DEF Round, Next
<1>3. ASSUME UNCHANGED evmVars PROVE UNCHANGED vars BY <1>3 DEF evmVars, vars
<1>4. ASSUME NEW price, Check(price) PROVE UNCHANGED vars BY <1>4 DEF Check
<1>5. ASSUME Found \/ Continue PROVE UNCHANGED vars BY <1>5 DEF Found, Continue
<1>6. ASSUME Tick \/ \E b \in Balances : BalanceChanges(b) PROVE Next BY <1>6 DEF Next
<1> QED BY <1>1, <1>2, <1>3, <1>4, <1>5, <1>6 DEF EvmNext

(* While a check runs it has found nothing yet, and each read it has done  *)
(* ended without a quorum or saw too little.                               *)
ReadMissed(i) ==
    \/ missed[i].outcome = "unreached"
    \/ \E b \in missed[i].seen : ~Covers(i, b)

Running ==
    stage # "idle" =>
        /\ match = NoMatch
        /\ Len(missed) = at - 1
        /\ \A i \in 1..(at - 1) : ReadMissed(i)

RoundAnswered ==
    stage = "wait" /\ phase = "idle" =>
        result.outcome = "raised" \/ result.outcome = "reached" \/ result.outcome = "unreached"

EvmInv == EvmTypeOK /\ Running /\ RoundAnswered /\ MatchIsTrue /\ PaidIsFound

LEMMA InitEvm == EvmInit => EvmInv
<1> SUFFICES ASSUME EvmInit PROVE EvmInv
  OBVIOUS
<1>1. TypeOK /\ RefilledPast BY InitType DEF EvmInit
<1>2. EvmTypeOK
  BY <1>1, ReadsAssumption DEF EvmInit, EvmTypeOK, NoMatch
<1> QED BY <1>2 DEF EvmInit, EvmInv, Running, RoundAnswered, MatchIsTrue, PaidIsFound

LEMMA SeenIsBalances == TypeOK => seen \in SUBSET Balances /\ result.outcome \in Outcomes
BY DEF TypeOK

(* Neither the passing of time nor a round under way disturbs what a check *)
(* has got so far.                                                         *)
LEMMA WorldStep ==
    ASSUME EvmInv, TypeOK', UNCHANGED check,
           Tick \/ (\E b \in Balances : BalanceChanges(b)) \/ Round
    PROVE  EvmInv'
<1> USE DEF check
<1>1. EvmTypeOK' BY DEF EvmInv, EvmTypeOK
<1>2. seen \subseteq seen'
  BY DEF Tick, BalanceChanges, Round, Query, SkipOpen, SkipRateLimited, Ask, WrongChain,
         FirstAttemptFails, SecondAttemptFails, Answer, NobodyAnswered, CountVotes, Conclude
<1>3. Running' BY DEF EvmInv, Running, ReadMissed, Covers, Unit
<1>4. MatchIsTrue' BY <1>2 DEF EvmInv, MatchIsTrue
<1>5. PaidIsFound' BY DEF EvmInv, PaidIsFound, Covers, Unit
<1>6. RoundAnswered'
  <2>1. CASE NobodyAnswered
    BY <2>1 DEF NobodyAnswered, Conclude, Unreached, RoundAnswered
  <2>2. CASE CountVotes
    <3>1. PICK r \in Raw : Conclude(Tally(r)) BY <2>2 DEF CountVotes
    <3>2. result' = Tally(r) BY <3>1 DEF Conclude
    <3> QED BY <3>2 DEF Tally, Unreached, RoundAnswered
  <2>3. CASE Tick \/ \E b \in Balances : BalanceChanges(b)
    BY <2>3 DEF Tick, BalanceChanges, EvmInv, RoundAnswered
  <2>4. CASE \E p \in Providers : Query(p)
    <3>1. UNCHANGED <<phase, result>>
      BY <2>4 DEF Query, SkipOpen, SkipRateLimited, Ask, WrongChain, FirstAttemptFails,
                  SecondAttemptFails, Answer
    <3> QED BY <3>1 DEF EvmInv, RoundAnswered
  <2> QED BY <2>1, <2>2, <2>3, <2>4 DEF Round
<1> QED BY <1>1, <1>3, <1>4, <1>5, <1>6 DEF EvmInv

LEMMA CheckStep ==
    ASSUME EvmInv, TypeOK', NEW price \in Prices, Check(price)
    PROVE  EvmInv'
<1>1. EvmTypeOK' BY ReadsAssumption DEF Check, EvmInv, EvmTypeOK, NoMatch
<1>2. Running' BY DEF Check, Running
<1>3. RoundAnswered' BY DEF Check, RoundAnswered
<1>4. MatchIsTrue' /\ PaidIsFound' BY DEF Check, MatchIsTrue, PaidIsFound
<1> QED BY <1>1, <1>2, <1>3, <1>4 DEF EvmInv

LEMMA CallStep ==
    ASSUME EvmInv, TypeOK', Call
    PROVE  EvmInv'
<1>1. stage = "call" /\ stage' = "wait" /\ UNCHANGED <<at, want, match, missed>> /\ phase' = "round"
  BY DEF Call, StartRound
<1>2. EvmTypeOK' BY <1>1 DEF EvmInv, EvmTypeOK
<1>3. Running' BY <1>1 DEF EvmInv, Running, ReadMissed, Covers, Unit
<1>4. RoundAnswered' BY <1>1 DEF RoundAnswered
<1>5. MatchIsTrue' /\ PaidIsFound' BY <1>1 DEF MatchIsTrue, PaidIsFound
<1> QED BY <1>2, <1>3, <1>4, <1>5 DEF EvmInv

LEMMA FoundStep ==
    ASSUME EvmInv, ReachedIsTrue, TypeOK', Found
    PROVE  EvmInv'
<1>1. /\ stage = "wait" /\ stage' = "idle" /\ result.outcome = "reached"
      /\ Covers(at, result.value)
      /\ match' = [read |-> at, value |-> result.value]
      /\ UNCHANGED <<at, want, missed, seen, result, phase>>
  BY DEF Found, Answered, Covered, vars
<1>2. result.value \in seen /\ result.value \in Nat /\ at \in 1..Reads /\ at \in Nat
  <2>1. result.value \in seen BY <1>1 DEF ReachedIsTrue
  <2>2. result.value \in Nat BY <2>1, AnswerAssumption DEF EvmInv, EvmTypeOK, TypeOK
  <2>3. at \in 1..Reads /\ Reads \in Nat BY ReadsAssumption DEF EvmInv, EvmTypeOK
  <2> QED BY <2>1, <2>2, <2>3
<1>3. match' \in [read : 0..Reads, value : Nat] /\ match'.read = at /\ match'.value = result.value
  BY <1>1, <1>2, ReadsAssumption
<1>4. EvmTypeOK' BY <1>1, <1>3 DEF EvmInv, EvmTypeOK
<1>5. Running' /\ RoundAnswered' BY <1>1 DEF Running, RoundAnswered
<1>6. MatchIsTrue' BY <1>1, <1>2, <1>3 DEF MatchIsTrue, Covers, Unit
<1>7. PaidIsFound'
  <2>1. match'.read # NoMatch.read BY <1>2, <1>3 DEF NoMatch
  <2> QED BY <2>1 DEF PaidIsFound, NoMatch
<1> QED BY <1>4, <1>5, <1>6, <1>7 DEF EvmInv

LEMMA ContinueStep ==
    ASSUME EvmInv, ReachedIsTrue, TypeOK', Continue
    PROVE  EvmInv'
<1> DEFINE miss == [outcome |-> result.outcome, seen |-> seen]
<1>1. /\ stage = "wait" /\ phase = "idle" /\ ~Covered /\ result.outcome # "raised"
      /\ missed' = Append(missed, miss)
      /\ IF at = Reads THEN stage' = "idle" /\ UNCHANGED at
                       ELSE stage' = "call" /\ at' = at + 1
      /\ UNCHANGED <<want, match, seen, result, phase>>
  BY DEF Continue, Answered, Last, vars
<1>2. /\ at \in 1..Reads /\ Reads \in Nat
      /\ missed \in Seq([outcome : Outcomes, seen : SUBSET Balances])
      /\ miss \in [outcome : Outcomes, seen : SUBSET Balances]
  BY ReadsAssumption, SeenIsBalances DEF EvmInv, EvmTypeOK
<1>3. match = NoMatch /\ Len(missed) = at - 1 /\ \A i \in 1..(at - 1) : ReadMissed(i)
  BY <1>1 DEF EvmInv, Running
<1>4. /\ missed' \in Seq([outcome : Outcomes, seen : SUBSET Balances])
      /\ Len(missed') = at
      /\ missed'[at] = miss
      /\ \A i \in 1..(at - 1) : missed'[i] = missed[i]
  BY <1>1, <1>2, <1>3
<1>5. miss.outcome = result.outcome /\ miss.seen = seen OBVIOUS
<1> HIDE DEF miss
<1>6. result.outcome = "reached" \/ result.outcome = "unreached"
  BY <1>1 DEF EvmInv, RoundAnswered
<1>7. \/ missed'[at].outcome = "unreached"
      \/ \E b \in missed'[at].seen : ~Covers(at, b)
  <2>1. CASE result.outcome = "unreached" BY <2>1, <1>4, <1>5
  <2>2. CASE result.outcome = "reached"
    <3>1. result.value \in seen BY <2>2 DEF ReachedIsTrue
    <3>2. ~Covers(at, result.value) BY <1>1, <2>2 DEF Covered
    <3> QED BY <1>4, <1>5, <3>1, <3>2
  <2> QED BY <1>6, <2>1, <2>2
<1>8. \A i, b : Covers(i, b)' <=> Covers(i, b) BY <1>1 DEF Covers, Unit
<1>9. \A i \in 1..at : ReadMissed(i)'
  <2> SUFFICES ASSUME NEW i \in 1..at PROVE ReadMissed(i)'
    OBVIOUS
  <2>1. CASE i = at BY <1>7, <1>8, <2>1 DEF ReadMissed
  <2>2. CASE i # at
    <3>1. i \in 1..(at - 1) BY <1>2, <2>2
    <3> QED BY <1>3, <1>4, <1>8, <3>1 DEF ReadMissed
  <2> QED BY <2>1, <2>2
<1>10. EvmTypeOK'
  <2>1. at' \in 1..Reads /\ stage' \in {"idle", "call", "wait"} BY <1>1, <1>2
  <2> QED BY <1>1, <1>4, <2>1 DEF EvmInv, EvmTypeOK
<1>11. Running' BY <1>1, <1>2, <1>3, <1>4, <1>9 DEF Running
<1>12. RoundAnswered' BY <1>1 DEF RoundAnswered
<1>13. MatchIsTrue' BY <1>1, <1>3 DEF MatchIsTrue, NoMatch
<1>14. PaidIsFound'
  <2> SUFFICES ASSUME stage' = "idle", NEW i \in 1..Reads
               PROVE  i \in DOMAIN missed' /\ ReadMissed(i)'
    BY DEF PaidIsFound, ReadMissed
  <2>1. at = Reads BY <1>1
  <2>2. DOMAIN missed' = 1..at BY <1>4
  <2> QED BY <1>9, <2>1, <2>2
<1> QED BY <1>10, <1>11, <1>12, <1>13, <1>14 DEF EvmInv

LEMMA NextEvm == EvmInv /\ ReachedIsTrue /\ TypeOK' /\ [EvmNext]_evmVars => EvmInv'
<1> SUFFICES ASSUME EvmInv, ReachedIsTrue, TypeOK', [EvmNext]_evmVars PROVE EvmInv'
  OBVIOUS
<1>1. CASE EvmNext
  BY <1>1, WorldStep, CheckStep, CallStep, FoundStep, ContinueStep DEF EvmNext
<1>2. CASE UNCHANGED evmVars
  BY <1>2 DEF evmVars, EvmInv, EvmTypeOK, TypeOK, Running, ReadMissed, RoundAnswered, MatchIsTrue,
              PaidIsFound, Covers, Unit
<1> QED BY <1>1, <1>2

-----------------------------------------------------------------------------

(* The invariant of the checks together with that of the rounds.           *)
LEMMA Inductive == EvmSpec => [](EvmInv /\ RefilledPast /\ VoteInv)
<1>1. EvmInit => EvmInv /\ RefilledPast /\ VoteInv
  BY InitEvm, InitType, VoteInit DEF EvmInit
<1>2. EvmInv /\ RefilledPast /\ VoteInv /\ [EvmNext]_evmVars
        => EvmInv' /\ RefilledPast' /\ VoteInv'
  <2> SUFFICES ASSUME EvmInv, RefilledPast, VoteInv, [EvmNext]_evmVars
               PROVE  EvmInv' /\ RefilledPast' /\ VoteInv'
    OBVIOUS
  <2>1. EvmTypeOK /\ TypeOK /\ ReachedIsTrue BY DEF EvmInv, EvmTypeOK, VoteInv
  <2>2. [Next]_vars BY <2>1, StepOfRounds
  <2>3. TypeOK' /\ RefilledPast' BY <2>1, <2>2, TypeStep
  <2>4. VoteInv' BY <2>1, <2>2, VoteStep
  <2> QED BY <2>1, <2>3, <2>4, NextEvm
<1> QED BY <1>1, <1>2, PTL DEF EvmSpec

(* Types, for any chains, pools, tokens, prices and bounds.                *)
THEOREM EvmTypeCorrect == EvmSpec => []EvmTypeOK
<1>1. EvmInv => EvmTypeOK BY DEF EvmInv
<1> QED BY <1>1, Inductive, PTL

(* The rounds of payment checks are rounds of RpcConsensus: whatever order *)
(* check_evm_payment reads the chains in, a balance reported as reached is *)
(* one the address had, each call is one read of a changing register, and  *)
(* a provider shared by several chains is asked within the rate of its one *)
(* bucket.                                                                 *)
THEOREM ChecksAreRounds ==
  EvmSpec => Spec /\ []ReachedIsTrue /\ ImplementsRead /\ []AskedWithinRate
<1>1. EvmInit => Init BY DEF EvmInit
<1>2. EvmTypeOK /\ [EvmNext]_evmVars => [Next]_vars BY StepOfRounds
<1>3. EvmSpec => Spec BY <1>1, <1>2, EvmTypeCorrect, PTL DEF EvmSpec, Spec
<1> QED BY <1>3, ReachedIsTheBalance, RoundsAreReads, ProvidersAskedWithinRate, PTL

(* No order is taken for paid on less than its address really had, in the  *)
(* units of the chain read.                                                *)
THEOREM MatchesAreTrue == EvmSpec => []MatchIsTrue
<1>1. EvmInv => MatchIsTrue BY DEF EvmInv
<1> QED BY <1>1, Inductive, PTL

(* A check that finds nothing has read every token of every chain, and     *)
(* each read either had no quorum or met too little.                       *)
THEOREM PaidOrdersAreFound == EvmSpec => []PaidIsFound
<1>1. EvmInv => PaidIsFound BY DEF EvmInv
<1> QED BY <1>1, Inductive, PTL

-----------------------------------------------------------------------------
(* A check ends *)

(* Only a check that waits has a round, and only a round has queries.       *)
OwnRound ==
    /\ phase = "round" => stage = "wait"
    /\ phase = "idle" => \A p \in Providers : step[p] = "done"

(* A query goes forward.                                                    *)
Forward(p) ==
    /\ \/ step[p] = "ready" /\ step'[p] \in {"first", "done"}
       \/ step[p] = "first" /\ step'[p] \in {"second", "done"}
       \/ step[p] = "second" /\ step'[p] = "done"
    /\ \A q \in Providers : q # p => step'[q] = step[q]
    /\ phase' = phase

(* Nothing a provider answers or fails to answer takes its query back.      *)
LEMMA QueryForward ==
    ASSUME TypeOK, NEW p \in Providers, Query(p)
    PROVE  Forward(p)
<1>1. CASE SkipOpen(p) \/ SkipRateLimited(p) \/ WrongChain(p) \/ SecondAttemptFails(p)
           \/ \E r \in Raw : Answer(p, r)
  <2>1. Asking(p) \/ step[p] = "ready"
    BY <1>1 DEF SkipOpen, SkipRateLimited, WrongChain, SecondAttemptFails, Answer, Asking
  <2>2. step' = [step EXCEPT ![p] = "done"] /\ phase' = phase
    BY <1>1 DEF SkipOpen, SkipRateLimited, WrongChain, SecondAttemptFails, Answer, Returns
  <2> QED BY <2>1, <2>2 DEF TypeOK, Asking, Forward
<1>2. CASE Ask(p)
  BY <1>2 DEF Ask, TypeOK, Forward
<1>3. CASE FirstAttemptFails(p)
  BY <1>3 DEF FirstAttemptFails, TypeOK, Forward
<1> QED BY <1>1, <1>2, <1>3 DEF Query

(* Only the caller's own steps begin a round, and only with queries done.   *)
LEMMA OwnRoundCorrect == EvmSpec => []OwnRound
<1>1. EvmInit => OwnRound BY DEF EvmInit, Init, OwnRound
<1>2. EvmTypeOK /\ OwnRound /\ [EvmNext]_evmVars => OwnRound'
  <2> SUFFICES ASSUME EvmTypeOK, OwnRound, [EvmNext]_evmVars PROVE OwnRound'
    OBVIOUS
  <2>1. ASSUME UNCHANGED <<stage, phase, step>> PROVE OwnRound' BY <2>1 DEF OwnRound
  <2>2. CASE UNCHANGED evmVars BY <2>1, <2>2 DEF evmVars
  <2>3. CASE (Tick \/ \E b \in Balances : BalanceChanges(b)) /\ UNCHANGED check
    BY <2>1, <2>3 DEF Tick, BalanceChanges, check
  <2>4. ASSUME NEW p \in Providers, Query(p), UNCHANGED check PROVE OwnRound'
    <3>1. Forward(p) BY <2>4, QueryForward DEF EvmTypeOK
    <3>2. phase # "idle" BY <3>1 DEF OwnRound, Forward
    <3> QED BY <2>4, <3>1, <3>2 DEF OwnRound, Forward, check
  <2>5. CASE (NobodyAnswered \/ CountVotes) /\ UNCHANGED check
    BY <2>5 DEF NobodyAnswered, CountVotes, Conclude, Complete, OwnRound, check
  <2>6. CASE Call
    BY <2>6 DEF Call, StartRound, OwnRound
  <2>7. CASE Found \/ Continue
    BY <2>7 DEF Found, Continue, Answered, vars, OwnRound, EvmTypeOK, TypeOK
  <2>8. ASSUME NEW price, Check(price) PROVE OwnRound'
    BY <2>8 DEF Check, vars, OwnRound
  <2> QED BY <2>2, <2>3, <2>4, <2>5, <2>6, <2>7, <2>8 DEF EvmNext, Round
<1> QED BY <1>1, <1>2, EvmTypeCorrect, PTL DEF EvmSpec

(* Providers are finitely many, before a step and after it.                 *)
LEMMA AtCount ==
    ASSUME NEW steps
    PROVE  /\ IsFiniteSet(At(steps))
           /\ Cardinality(Providers) \in Nat
           /\ Cardinality(At(steps)) \in 0..Cardinality(Providers)
           /\ Cardinality(At(steps)') \in 0..Cardinality(Providers)
<1>1. At(steps) \subseteq Providers /\ At(steps)' \subseteq Providers BY DEF At
<1>2. IsFiniteSet(Providers) BY PoolAssumption
<1>3. ASSUME NEW S, S \subseteq Providers
      PROVE  IsFiniteSet(S) /\ Cardinality(S) \in 0..Cardinality(Providers)
  BY <1>2, <1>3, FS_Subset, FS_CardinalityType
<1> QED BY <1>1, <1>2, <1>3, FS_CardinalityType

(* A provider that leaves a group makes it smaller by one; one that stays   *)
(* in it or stays out of it does not change it.                             *)
LEMMA AtStep ==
    ASSUME NEW p \in Providers, NEW steps,
           \A q \in Providers : q # p => step'[q] = step[q]
    PROVE  /\ step[p] \in steps /\ step'[p] \notin steps
                => Cardinality(At(steps)') = Cardinality(At(steps)) - 1
           /\ (step[p] \in steps <=> step'[p] \in steps)
                => Cardinality(At(steps)') = Cardinality(At(steps))
<1>1. ASSUME step[p] \in steps, step'[p] \notin steps
      PROVE  Cardinality(At(steps)') = Cardinality(At(steps)) - 1
  <2>1. At(steps)' = At(steps) \ {p} /\ p \in At(steps) BY <1>1 DEF At
  <2> QED BY <2>1, AtCount, FS_RemoveElement
<1>2. ASSUME step[p] \in steps <=> step'[p] \in steps
      PROVE  Cardinality(At(steps)') = Cardinality(At(steps))
  <2>1. At(steps)' = At(steps) BY <1>2 DEF At
  <2> QED BY <2>1
<1> QED BY <1>1, <1>2

(* What is left of a round is at most three steps for each provider, and    *)
(* every step of a query takes from it.                                     *)
LEMMA RoundLeft ==
    /\ QueriesLeft \in 0..(3 * Cardinality(Providers))
    /\ QueriesLeft' \in 0..(3 * Cardinality(Providers))
BY AtCount DEF QueriesLeft

LEMMA QueryShortens ==
    ASSUME NEW p \in Providers, Forward(p)
    PROVE  QueriesLeft' < QueriesLeft
<1> DEFINE a == Cardinality(At({"ready"}))
           b == Cardinality(At({"ready", "first"}))
           c == Cardinality(At({"ready", "first", "second"}))
<1>1. a \in Nat /\ b \in Nat /\ c \in Nat BY AtCount
<1>2. \A q \in Providers : q # p => step'[q] = step[q] BY DEF Forward
<1>3. CASE step[p] = "ready"
  <2>1. a' = a - 1 BY <1>2, <1>3, AtStep DEF Forward
  <2>2. b' = b - 1 \/ b' = b BY <1>2, <1>3, AtStep DEF Forward
  <2>3. c' = c - 1 \/ c' = c BY <1>2, <1>3, AtStep DEF Forward
  <2> QED BY <1>1, <2>1, <2>2, <2>3 DEF QueriesLeft
<1>4. CASE step[p] = "first"
  <2>1. a' = a BY <1>2, <1>4, AtStep DEF Forward
  <2>2. b' = b - 1 BY <1>2, <1>4, AtStep DEF Forward
  <2>3. c' = c - 1 \/ c' = c BY <1>2, <1>4, AtStep DEF Forward
  <2> QED BY <1>1, <2>1, <2>2, <2>3 DEF QueriesLeft
<1>5. CASE step[p] = "second"
  <2>1. a' = a BY <1>2, <1>5, AtStep DEF Forward
  <2>2. b' = b BY <1>2, <1>5, AtStep DEF Forward
  <2>3. c' = c - 1 BY <1>2, <1>5, AtStep DEF Forward
  <2> QED BY <1>1, <2>1, <2>2, <2>3 DEF QueriesLeft
<1> QED BY <1>3, <1>4, <1>5 DEF Forward

(* A check takes finitely many steps, whatever the providers answer: the    *)
(* part of CheckEnds that needs no fairness.                                *)
THEOREM ChecksMoveOn == EvmSpec => CheckMovesOn
<1> DEFINE moved == <<step, phase, check>>
           Fewer == moved' # moved /\ stage # "idle" => StepsOfCheck' < StepsOfCheck
<1>1. EvmTypeOK /\ OwnRound /\ [EvmNext]_evmVars => Fewer
  <2> SUFFICES ASSUME EvmTypeOK, OwnRound, [EvmNext]_evmVars, moved' # moved, stage # "idle"
               PROVE  StepsOfCheck' < StepsOfCheck
    OBVIOUS
  <2> DEFINE n == Cardinality(Providers)
  <2>1. n \in Nat /\ StepsOfRead = 3 * n + 3 BY AtCount DEF StepsOfRead
  <2>2. Reads \in Nat /\ at \in 1..Reads /\ Reads - at \in Nat
    BY ReadsAssumption DEF EvmTypeOK
  <2>3. QueriesLeft \in 0..(3 * n) /\ QueriesLeft' \in 0..(3 * n) BY RoundLeft
  <2> DEFINE rest == (Reads - at) * StepsOfRead
  <2>4. rest \in Nat /\ (Reads - at + 1) * StepsOfRead = rest + StepsOfRead
    <3>1. \A r, w \in Nat : r * w \in Nat /\ (r + 1) * w = r * w + w OBVIOUS
    <3>2. StepsOfRead \in Nat BY <2>1
    <3> QED BY <2>2, <3>1, <3>2
  <2>5. /\ stage = "call" => StepsOfCheck = rest + StepsOfRead
        /\ stage = "wait" /\ phase = "round" => StepsOfCheck = rest + (QueriesLeft + 2)
        /\ stage = "wait" /\ phase = "idle" => StepsOfCheck = rest + 1
    BY <2>4 DEF StepsOfCheck
  <2>6. ASSUME NEW p \in Providers, Query(p), UNCHANGED check
        PROVE  StepsOfCheck' < StepsOfCheck
    <3>1. Forward(p) BY <2>6, QueryForward DEF EvmTypeOK
    <3>2. phase = "round" /\ phase' = "round" /\ stage = "wait" /\ stage' = "wait" /\ at' = at
      BY <2>6, <3>1 DEF OwnRound, Forward, EvmTypeOK, TypeOK, check
    <3>3. StepsOfCheck' = rest + (QueriesLeft' + 2) BY <3>2 DEF StepsOfCheck
    <3>4. QueriesLeft' < QueriesLeft BY <3>1, QueryShortens
    <3> HIDE DEF rest
    <3>5. QueriesLeft \in Nat /\ QueriesLeft' \in Nat BY <2>1, <2>3
    <3>6. StepsOfCheck = rest + (QueriesLeft + 2) BY <2>5, <3>2
    <3>7. \A x, y \in Nat : y < x => rest + (y + 2) < rest + (x + 2) BY <2>4
    <3>8. rest + (QueriesLeft' + 2) < rest + (QueriesLeft + 2) BY <3>4, <3>5, <3>7
    <3> QED BY <3>3, <3>6, <3>8
  <2>7. CASE (NobodyAnswered \/ CountVotes) /\ UNCHANGED check
    <3>1. phase = "round" /\ phase' = "idle" /\ stage = "wait" /\ stage' = "wait" /\ at' = at
      BY <2>7 DEF NobodyAnswered, CountVotes, Conclude, Complete, OwnRound, check
    <3>2. StepsOfCheck' = rest + 1 BY <3>1 DEF StepsOfCheck
    <3> HIDE DEF rest
    <3> QED BY <2>3, <2>4, <2>5, <3>1, <3>2
  <2>8. CASE Call
    <3>1. stage = "call" /\ stage' = "wait" /\ phase' = "round" /\ at' = at
      BY <2>8 DEF Call, StartRound
    <3>2. StepsOfCheck' = rest + (QueriesLeft' + 2) BY <3>1 DEF StepsOfCheck
    <3> HIDE DEF rest
    <3> QED BY <2>1, <2>3, <2>4, <2>5, <3>1, <3>2
  <2>9. CASE Found \/ Continue
    <3>1. stage = "wait" /\ phase = "idle" BY <2>9 DEF Found, Continue, Answered
    <3>2. CASE stage' = "idle"
      <4>1. StepsOfCheck' = 0 BY <3>2 DEF StepsOfCheck
      <4> HIDE DEF rest
      <4> QED BY <2>4, <2>5, <3>1, <4>1
    <3>3. CASE stage' = "call" /\ at' = at + 1
      <4>1. StepsOfCheck' = (Reads - (at + 1) + 1) * StepsOfRead
        BY <3>3 DEF StepsOfCheck, StepsOfRead
      <4>2. Reads - (at + 1) + 1 = Reads - at BY <2>2
      <4>3. StepsOfCheck' = rest BY <4>1, <4>2
      <4> HIDE DEF rest
      <4> QED BY <2>4, <2>5, <3>1, <4>3
    <3> QED BY <2>9, <3>2, <3>3 DEF Found, Continue
  <2>10. ~(Tick \/ \E b \in Balances : BalanceChanges(b)) \/ ~UNCHANGED check
    BY DEF Tick, BalanceChanges
  <2>11. ~UNCHANGED evmVars BY DEF evmVars, check
  <2>12. \A price : ~Check(price) BY DEF Check
  <2> QED BY <2>6, <2>7, <2>8, <2>9, <2>10, <2>11, <2>12 DEF EvmNext, Round
<1>2. EvmTypeOK /\ OwnRound /\ [EvmNext]_evmVars => [Fewer]_evmVars BY <1>1
<1> QED BY <1>2, EvmTypeCorrect, OwnRoundCorrect, PTL DEF EvmSpec, CheckMovesOn
=============================================================================
