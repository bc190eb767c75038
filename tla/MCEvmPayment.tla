---------------------------- MODULE MCEvmPayment ----------------------------
(* A small instance of EvmPayment for TLC: two chains with one token each. *)
EXTENDS EvmPayment

\* One encoding of zero, one of ninety-nine, one int() cannot read.
Strings == {"0x", "0x63", "0x-5"}
Decoded == [r \in Strings |-> CASE r = "0x" -> 0 [] r = "0x63" -> 99 [] r = "0x-5" -> -1]
Unreadable == -1

\* The tokens of the two chains differ in their decimals.
TwoChains == <<"ethereum", "binance-smart-chain">>
Decimals == [c \in {"ethereum", "binance-smart-chain"} |->
                IF c = "ethereum" THEN 100 ELSE 1000]

TwoPools == {{"publicnode", "ankr", "quicknode"}, {"publicnode", "ankr"}}
=============================================================================
