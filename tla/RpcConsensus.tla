---------------------------- MODULE RpcConsensus ----------------------------
(***************************************************************************)
(* RpcConsensusValidator (rpc_consensus.py): the balance of one token at   *)
(* one EVM address, read from several RPC providers at once and believed   *)
(* only when a quorum of them returns the same answer.                     *)
(*                                                                         *)
(* A chain's pool of providers is a set of names.  Breakers and buckets    *)
(* are kept by name for the process, so chains whose pools share a name    *)
(* share them.                                                             *)
(*                                                                         *)
(* A round asks every provider concurrently; each one passes its circuit   *)
(* breaker and its token bucket, has two attempts, and ends with a vote or *)
(* without one.  Breakers and buckets outlive the round.  Rounds follow    *)
(* one another, each for a token, an address and a pool of the caller's,   *)
(* as the poller awaits each; the balance may change between the reads of  *)
(* two providers.                                                          *)
(***************************************************************************)
EXTENDS Integers, FiniteSets

CONSTANTS
    Providers,      \* names of providers
    Pools,          \* the pools a validator may be given, one per chain
    Faulty,         \* providers that may answer anything
    Raw,            \* result strings that _is_valid_hex_uint lets through
    ValueOf,        \* ValueOf[r]: what int(r, 16) is, or NotANumber
    NotANumber,     \* int() raises: "0x-5" passes the validation
    Balances,       \* values the real balance takes
    Threshold,      \* _FAILURE_THRESHOLD
    Cooldown,       \* _COOLDOWN_SECONDS, in clock units
    Rate,           \* _RATE_LIMIT_PER_SECOND, in tokens per clock unit
    Burst,          \* _RATE_LIMIT_BURST
    MaxClock,       \* bound: the last instant
    MaxRounds       \* bound: rounds started

(* The default quorum; no caller in the repository passes another. *)
QuorumOf(P) == Cardinality(P) \div 2 + 1

ASSUME PoolAssumption ==
    /\ IsFiniteSet(Providers) /\ Pools \subseteq SUBSET Providers
    /\ \A P \in Pools : Cardinality(P) >= 2 /\ Cardinality(Faulty \cap P) < QuorumOf(P)

ASSUME AnswerAssumption ==
    /\ NotANumber \notin Nat /\ Balances \subseteq Nat /\ Balances # {}
    /\ ValueOf \in [Raw -> Nat \cup {NotANumber}]
    /\ "no vote" \notin Raw

ASSUME LimitAssumption ==
    /\ Threshold \in Nat \ {0} /\ Cooldown \in Nat
    /\ Rate \in Nat /\ Burst \in Nat
    /\ MaxClock \in Nat /\ MaxRounds \in Nat

NoVote == "no vote"

VARIABLES
    clock,      \* time.monotonic()
    pool,       \* the pool of the round
    balance,    \* the real balance of the token at the address read
    failures,   \* consecutive_failures, by provider
    openUntil,  \* circuit_open_until
    tokens,     \* tokens left in the bucket
    refilled,   \* last_refill
    step,       \* where each provider's _query_one is
    vote,       \* what each provider's _query_one returned
    phase,      \* whether a round is under way
    result,     \* how the last round ended
    seen,       \* history: the values the balance had during the round
    begun,      \* history: queries that passed the bucket, by provider
    answered,   \* history: whether the provider ever gave a vote
    rounds      \* history: rounds started

breaker == <<failures, openUntil>>
bucket  == <<tokens, refilled, begun>>
world   == <<clock, pool, balance>>
vars == <<clock, pool, balance, failures, openUntil, tokens, refilled, step, vote,
          phase, result, seen, begun, answered, rounds>>

Outcomes == {"none", "unreached", "reached", "raised"}
Unreached == [outcome |-> "unreached", value |-> NotANumber]

Init ==
    /\ clock = 0
    /\ pool \in Pools /\ balance \in Balances
    /\ failures = [p \in Providers |-> 0]
    /\ openUntil = [p \in Providers |-> 0]
    /\ tokens = [p \in Providers |-> Burst]
    /\ refilled = [p \in Providers |-> 0]
    /\ step = [p \in Providers |-> "done"]
    /\ vote = [p \in Providers |-> NoVote]
    /\ phase = "idle"
    /\ result = [outcome |-> "none", value |-> NotANumber]
    /\ seen = {}
    /\ begun = [p \in Providers |-> 0]
    /\ answered = [p \in Providers |-> FALSE]
    /\ rounds = 0

-----------------------------------------------------------------------------
(* The world *)

Tick ==
    /\ clock < MaxClock
    /\ clock' = clock + 1
    /\ UNCHANGED <<pool, balance, breaker, bucket, step, vote, phase, result, seen, answered,
                   rounds>>

BalanceChanges(b) ==
    /\ b # balance
    /\ balance' = b
    /\ seen' = IF phase = "round" THEN seen \cup {b} ELSE seen
    /\ UNCHANGED <<clock, pool, breaker, bucket, step, vote, phase, result, answered, rounds>>

-----------------------------------------------------------------------------
(* _ProviderState *)

CircuitIsOpen(p) == clock < openUntil[p]

Refill(p) ==
    LET full == tokens[p] + Rate * (clock - refilled[p]) IN
    IF full > Burst THEN Burst ELSE full

RecordSuccess(p) ==
    /\ failures' = [failures EXCEPT ![p] = 0]
    /\ openUntil' = [openUntil EXCEPT ![p] = 0]

\* Variant: the circuit opens one failure late.
TripsLate(n) == n > Threshold

Trips(n) == n >= Threshold

RecordFailure(p) ==
    /\ failures' = [failures EXCEPT ![p] = @ + 1]
    /\ openUntil' = IF Trips(failures'[p])
                    THEN [openUntil EXCEPT ![p] = clock + Cooldown]
                    ELSE openUntil

\* Variants: a token is given from an empty bucket; a refill is not dated.
HasTokenOrNone(p) == Refill(p) >= 0
TakeUndated(p, n) == tokens' = [tokens EXCEPT ![p] = Refill(p) - n] /\ UNCHANGED refilled

(* try_consume_token: the bucket is refilled whether or not it then has a  *)
(* token to give.                                                          *)
HasToken(p) == Refill(p) >= 1

Take(p, n) ==
    /\ tokens' = [tokens EXCEPT ![p] = Refill(p) - n]
    /\ refilled' = [refilled EXCEPT ![p] = clock]

-----------------------------------------------------------------------------
(* _query_one, run for every provider at once by asyncio.gather *)

Asking(p) == step[p] \in {"first", "second"}

(* p's query ends with v, its vote or NoVote. *)
Returns(p, v) ==
    /\ step' = [step EXCEPT ![p] = "done"]
    /\ vote' = [vote EXCEPT ![p] = v]

SkipOpen(p) ==
    /\ step[p] = "ready"
    /\ CircuitIsOpen(p)
    /\ Returns(p, NoVote)
    /\ UNCHANGED <<world, breaker, bucket, phase, result, seen, answered, rounds>>

SkipRateLimited(p) ==
    /\ step[p] = "ready"
    /\ ~CircuitIsOpen(p)
    /\ ~HasToken(p)
    /\ Take(p, 0)
    /\ Returns(p, NoVote)
    /\ UNCHANGED <<world, breaker, phase, result, seen, begun, answered, rounds>>

Ask(p) ==
    /\ step[p] = "ready"
    /\ ~CircuitIsOpen(p)
    /\ HasToken(p)
    /\ Take(p, 1)
    /\ step' = [step EXCEPT ![p] = "first"]
    /\ begun' = [begun EXCEPT ![p] = @ + 1]
    /\ UNCHANGED <<world, breaker, vote, phase, result, seen, answered, rounds>>

(* The provider answers for another chain: no second attempt. *)
WrongChain(p) ==
    /\ Asking(p)
    /\ RecordFailure(p)
    /\ Returns(p, NoVote)
    /\ UNCHANGED <<world, bucket, phase, result, seen, answered, rounds>>

(* Timeout, network error, RPC error or malformed result. *)
FirstAttemptFails(p) ==
    /\ step[p] = "first"
    /\ step' = [step EXCEPT ![p] = "second"]
    /\ UNCHANGED <<world, breaker, bucket, vote, phase, result, seen, answered, rounds>>

\* Variant: retries without end.
RetriesForever(p) ==
    /\ step[p] = "second"
    /\ step' = [step EXCEPT ![p] = "first"]
    /\ UNCHANGED <<world, breaker, bucket, vote, phase, result, seen, answered, rounds>>

SecondAttemptFails(p) ==
    /\ step[p] = "second"
    /\ RecordFailure(p)
    /\ Returns(p, NoVote)
    /\ UNCHANGED <<world, bucket, phase, result, seen, answered, rounds>>

(* A provider that is not faulty returns some encoding of the balance. *)
MayAnswer(p, r) == p \in Faulty \/ ValueOf[r] = balance

Answer(p, r) ==
    /\ Asking(p)
    /\ MayAnswer(p, r)
    /\ RecordSuccess(p)
    /\ Returns(p, r)
    /\ answered' = [answered EXCEPT ![p] = TRUE]
    /\ UNCHANGED <<world, bucket, phase, result, seen, rounds>>

-----------------------------------------------------------------------------
(* eth_call_balance_of *)

(* P is the pool of the chain to be read, b what the address has of the    *)
(* token to be read.                                                       *)
StartRound(P, b) ==
    /\ phase = "idle"
    /\ rounds < MaxRounds
    /\ phase' = "round"
    /\ pool' = P /\ balance' = b
    /\ step' = [p \in Providers |-> IF p \in P THEN "ready" ELSE "done"]
    /\ vote' = [p \in Providers |-> NoVote]
    /\ seen' = {b}
    /\ result' = [outcome |-> "none", value |-> NotANumber]
    /\ rounds' = rounds + 1
    /\ UNCHANGED <<clock, breaker, bucket, answered>>

Voters(r) == {p \in pool : vote[p] = r}
Voted == {r \in Raw : Voters(r) # {}}

(* The answers with most votes; a tie goes to the one that came first. *)
Winning(r) == r \in Voted /\ \A q \in Voted : Cardinality(Voters(q)) <= Cardinality(Voters(r))

\* Variants: a vote is trusted when nobody dissents; all must give the same.
ReachedByResponders(r) == \A q \in Voted : q = r
ReachedByAll(r) == Voters(r) = pool

Reached(r) == Cardinality(Voters(r)) >= QuorumOf(pool)

Tally(r) ==
    IF ~Reached(r) THEN Unreached
    ELSE IF ValueOf[r] = NotANumber THEN [outcome |-> "raised", value |-> NotANumber]
    ELSE [outcome |-> "reached", value |-> ValueOf[r]]

Complete == phase = "round" /\ \A p \in Providers : step[p] = "done"

Conclude(res) ==
    /\ Complete
    /\ phase' = "idle"
    /\ result' = res
    /\ UNCHANGED <<world, breaker, bucket, step, vote, seen, answered, rounds>>

NobodyAnswered == Voted = {} /\ Conclude(Unreached)

CountVotes == \E r \in Raw : Winning(r) /\ Conclude(Tally(r))

-----------------------------------------------------------------------------

Query(p) ==
    \/ SkipOpen(p)
    \/ SkipRateLimited(p)
    \/ Ask(p)
    \/ WrongChain(p)
    \/ FirstAttemptFails(p)
    \/ SecondAttemptFails(p)
    \/ \E r \in Raw : Answer(p, r)

Next ==
    \/ Tick
    \/ \E b \in Balances : BalanceChanges(b)
    \/ \E P \in Pools, b \in Balances : StartRound(P, b)
    \/ \E p \in Providers : Query(p)
    \/ NobodyAnswered
    \/ CountVotes

Spec == Init /\ [][Next]_vars

(* A query whose provider is silent times out, and gather returns when all *)
(* have ended.  (The timeout is of each read, not of the call: a provider  *)
(* that sends a byte now and then for ever is left out.)                   *)
Fairness ==
    /\ \A p \in Providers : WF_vars(Query(p))
    /\ WF_vars(NobodyAnswered \/ CountVotes)

FairSpec == Spec /\ Fairness

-----------------------------------------------------------------------------
(* What is promised *)

(* Types: every variable holds a value of its kind. *)
TypeOK ==
    /\ clock \in Nat /\ pool \in Pools /\ balance \in Balances
    /\ failures \in [Providers -> Nat] /\ openUntil \in [Providers -> Nat]
    /\ tokens \in [Providers -> Nat] /\ refilled \in [Providers -> Nat]
    /\ step \in [Providers -> {"ready", "first", "second", "done"}]
    /\ vote \in [Providers -> Raw \cup {NoVote}]
    /\ phase \in {"idle", "round"}
    /\ result \in [outcome : Outcomes, value : Nat \cup {NotANumber}]
    /\ seen \subseteq Balances
    /\ begun \in [Providers -> Nat]
    /\ answered \in [Providers -> BOOLEAN]
    /\ rounds \in Nat

(* As long as fewer than a quorum of providers are faulty, a balance that   *)
(* eth_call_balance_of reports as reached is one the address really had     *)
(* during that very round, and no answer makes the count of votes raise.    *)
ReachedIsTrue ==
    /\ result.outcome # "raised"
    /\ result.outcome = "reached" => result.value \in seen

(* The token bucket bounds what a provider is asked since the process       *)
(* started, whatever the sequence of rounds, of whichever chains, of pauses *)
(* and of refused queries: one burst, and the refill rate from then on.     *)
AskedWithinRate ==
    \A p \in Providers : begun[p] <= Burst + Rate * clock

(* A provider that never answers is asked Threshold times and then once per *)
(* cooldown: the breaker opens again on every failed trial.                 *)
DeadProviderRarelyAsked ==
    \A p \in Providers :
        ~answered[p] /\ begun[p] > Threshold
            => Cooldown * (begun[p] - Threshold) <= clock

(* Faulty providers cannot hide a balance either: when the others are       *)
(* enough for a quorum and all gave the same answer, the round reaches it.  *)
FaultyCannotVeto ==
    [][ /\ phase = "round" /\ phase' = "idle"
        /\ Cardinality(pool \ Faulty) >= QuorumOf(pool)
        /\ \E r \in Raw : pool \ Faulty \subseteq Voters(r)
        => result'.outcome = "reached" ]_vars

Read == INSTANCE BalanceRead WITH reading <- phase = "round", held <- seen, answer <- result

(* The refinement: whatever the providers, breakers, buckets, retries and   *)
(* votes do between them, eth_call_balance_of is to its caller one read of  *)
(* a changing register, and no other step touches what it returned.         *)
ImplementsRead == Read!Spec
=============================================================================
