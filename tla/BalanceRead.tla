----------------------------- MODULE BalanceRead -----------------------------
(***************************************************************************)
(* What a read of a token balance promises the payment check, without      *)
(* providers, votes, breakers, buckets, retries or a clock: a register     *)
(* that may change while it is being read.  The read ends without a value  *)
(* or with one that the register held at some instant of that very read,   *)
(* and an answer stays as it was given until the next read begins.         *)
(***************************************************************************)
CONSTANTS Balances, NotANumber

VARIABLES
    balance,    \* what the address holds of the token
    reading,    \* whether a read is under way
    held,       \* history: what the balance was during the last read
    answer      \* what the last read returned

vars == <<balance, reading, held, answer>>

NoAnswer == [outcome |-> "none", value |-> NotANumber]
Silence == [outcome |-> "unreached", value |-> NotANumber]
Value(v) == [outcome |-> "reached", value |-> v]

Init ==
    /\ balance \in Balances
    /\ ~reading /\ held = {} /\ answer = NoAnswer

Change ==
    /\ balance' \in Balances
    /\ held' = IF reading THEN held \cup {balance'} ELSE held
    /\ UNCHANGED <<reading, answer>>

(* A read is of a token and an address of its own. *)
Begin ==
    /\ ~reading /\ reading'
    /\ balance' \in Balances /\ held' = {balance'}
    /\ answer' = NoAnswer

End ==
    /\ reading /\ ~reading'
    /\ answer' = Silence \/ \E v \in held : answer' = Value(v)
    /\ UNCHANGED <<balance, held>>

Next == Change \/ Begin \/ End

Spec == Init /\ [][Next]_vars
=============================================================================
