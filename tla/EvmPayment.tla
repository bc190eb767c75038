----------------------------- MODULE EvmPayment -----------------------------
(***************************************************************************)
(* check_evm_payment (payment_check.py): is an order's address paid on any *)
(* EVM chain?  The balances of the accepted tokens are read one after the  *)
(* other, chain by chain, each in a round of RpcConsensus over the pool of *)
(* its chain, until one covers the order.  Checks follow one another; the  *)
(* breakers and buckets of the providers outlive them and are shared by    *)
(* the chains.                                                             *)
(***************************************************************************)
EXTENDS RpcConsensus, Sequences

CONSTANTS
    Chains,         \* the keys of _EVM_RPCS
    Reads,          \* how many (chain, token) pairs there are
    ChainOf,        \* ChainOf[i]: the chain of the i-th pair
    Scale,          \* Scale[c]: token units to the dollar on chain c, 10 ^ decimals
    AlchemyKey,     \* whether ALCHEMY_API_KEY is configured
    QuickNode,      \* the chains a QuickNode URL is configured for
    Prices          \* amounts invoiced, in dollars

(* build_evm_providers_for_chain *)
PoolOf(c) ==
    {"publicnode", "ankr"}
        \cup (IF AlchemyKey THEN {"alchemy"} ELSE {})
        \cup (IF c \in QuickNode THEN {"quicknode"} ELSE {})

ASSUME ReadsAssumption ==
    /\ Reads \in Nat \ {0}
    /\ ChainOf \in [1..Reads -> Chains]
    /\ Scale \in [Chains -> Nat \ {0}]
    /\ Prices \subseteq Nat
    /\ AlchemyKey \in BOOLEAN
    /\ \A c \in Chains : PoolOf(c) \in Pools

NoMatch == [read |-> 0, value |-> 0]

VARIABLES
    stage,      \* where check_evm_payment is
    at,         \* the pair to be read, or being read
    want,       \* the amount asked for
    match,      \* what the last check returned, NoMatch for None
    missed      \* history: how each read of the check ended that did not cover

check == <<stage, at, want, match, missed>>
evmVars == <<clock, pool, balance, failures, openUntil, tokens, refilled, step, vote,
             phase, result, seen, begun, answered, rounds, stage, at, want, match, missed>>

EvmInit ==
    /\ Init
    /\ stage = "idle" /\ at = 1 /\ want = 0
    /\ match = NoMatch /\ missed = <<>>

-----------------------------------------------------------------------------

\* Variant: every chain counted in the units of the first one.
UnitOfFirst(i) == Scale[ChainOf[1]]

Unit(i) == Scale[ChainOf[i]]

(* The balance is not zero and at least _MIN_PAYMENT_FRACTION of what is asked. *)
Covers(i, v) == v # 0 /\ 100 * v >= 99 * want * Unit(i)

Check(price) ==
    /\ stage = "idle"
    /\ rounds + Reads <= MaxRounds
    /\ stage' = "call" /\ at' = 1 /\ want' = price
    /\ match' = NoMatch /\ missed' = <<>>
    /\ UNCHANGED vars

Call ==
    /\ stage = "call"
    /\ stage' = "wait"
    /\ \E b \in Balances : StartRound(PoolOf(ChainOf[at]), b)
    /\ UNCHANGED <<at, want, match, missed>>

Answered == stage = "wait" /\ phase = "idle"
Covered == result.outcome = "reached" /\ Covers(at, result.value)

Found ==
    /\ Answered
    /\ Covered
    /\ stage' = "idle"
    /\ match' = [read |-> at, value |-> result.value]
    /\ UNCHANGED <<vars, at, want, missed>>

\* Variant: a read without a quorum ends the check.
LastOrUnreached == at = Reads \/ result.outcome = "unreached"

Last == at = Reads

(* No quorum, nothing there or not enough: the next pair is read, if any.  *)
(* A count of votes that raises would end the whole pass (ReachedIsTrue).  *)
Continue ==
    /\ Answered
    /\ ~Covered /\ result.outcome # "raised"
    /\ missed' = Append(missed, [outcome |-> result.outcome, seen |-> seen])
    /\ IF Last THEN stage' = "idle" /\ UNCHANGED at
               ELSE stage' = "call" /\ at' = at + 1
    /\ UNCHANGED <<vars, want, match>>

Round ==
    \/ \E p \in Providers : Query(p)
    \/ NobodyAnswered
    \/ CountVotes

EvmNext ==
    \/ (Tick \/ \E b \in Balances : BalanceChanges(b)) /\ UNCHANGED check
    \/ Round /\ UNCHANGED check
    \/ \E price \in Prices : Check(price)
    \/ Call
    \/ Found
    \/ Continue

EvmSpec == EvmInit /\ [][EvmNext]_evmVars

(* The caller goes on when the round it awaits has ended. *)
EvmFairness == Fairness /\ WF_evmVars(Call) /\ WF_evmVars(Found \/ Continue)

EvmFairSpec == EvmSpec /\ EvmFairness

-----------------------------------------------------------------------------
(* What is promised *)

(* Types: every variable holds a value of its kind. *)
EvmTypeOK ==
    /\ TypeOK
    /\ stage \in {"idle", "call", "wait"}
    /\ at \in 1..Reads /\ want \in Nat
    /\ match \in [read : 0..Reads, value : Nat]
    /\ missed \in Seq([outcome : Outcomes, seen : SUBSET Balances])

(* An order is never taken for paid on less than a balance its address      *)
(* really had, on the chain and in the units of the token that was read,    *)
(* while that token was read: not on a faulty provider's word, nor on       *)
(* another chain's answer.                                                  *)
MatchIsTrue ==
    stage = "idle" /\ match # NoMatch =>
        /\ match.value \in seen
        /\ 100 * match.value >= 99 * want * Scale[ChainOf[match.read]]

(* When a check finds nothing, every token of every chain has been read,    *)
(* and each read failed to reach a quorum or met a moment when the address  *)
(* had too little: money that lies there all along is only missed for want  *)
(* of a quorum, never for a read skipped or an answer of another round.     *)
PaidIsFound ==
    stage = "idle" /\ match = NoMatch /\ missed # <<>> =>
        \A i \in 1..Reads :
            /\ i \in DOMAIN missed
            /\ \/ missed[i].outcome = "unreached"
               \/ \E b \in missed[i].seen : ~Covers(i, b)

(* At most how many more steps the queries of a round take: three for a    *)
(* provider not yet looked at, two for one asked, one for one asked again. *)
At(steps) == {p \in Providers : step[p] \in steps}

QueriesLeft ==
    Cardinality(At({"ready"})) + Cardinality(At({"ready", "first"}))
        + Cardinality(At({"ready", "first", "second"}))

\* A read: the call, the queries, the count of votes, going on.
StepsOfRead == 3 * Cardinality(Providers) + 3

StepsOfCheck ==
    CASE stage = "idle" -> 0
      [] stage = "call" -> (Reads - at + 1) * StepsOfRead
      [] stage = "wait" -> (Reads - at) * StepsOfRead
                               + (IF phase = "round" THEN QueriesLeft + 2 ELSE 1)

(* A check ends: each of its steps leaves it fewer steps to take, whatever *)
(* the providers answer or fail to, in whatever order and while time and   *)
(* balances change: a query is retried once, a round is not taken up       *)
(* again, and no pair is read twice.                                       *)
CheckMovesOn ==
    [][ <<step, phase, check>>' # <<step, phase, check>> /\ stage # "idle"
          => StepsOfCheck' < StepsOfCheck ]_evmVars

(* Every check returns, whatever the providers do: the pass that awaits it  *)
(* goes on.                                                                 *)
CheckEnds == stage # "idle" ~> stage = "idle"
=============================================================================
