---------------------------- MODULE MCDerivation ----------------------------
(* A small instance of Derivation for TLC: the curve y^2 = x^3 + 7 over the *)
(* field of 43 elements, whose 30 points and infinity form a group of prime *)
(* order like secp256k1's, and 43 % 4 = 3 as for secp256k1's prime.         *)
EXTENDS Derivation

InverseOf == [n \in 1..42 |-> CHOOSE m \in 1..42 : (n * m) % 43 = 1]

Slope(a, b) ==
    IF a[1] = b[1] THEN (3 * a[1] * a[1] * InverseOf[(2 * a[2]) % 43]) % 43
    ELSE ((b[2] - a[2]) * InverseOf[(b[1] - a[1]) % 43]) % 43

AffineSum(a, b) ==
    LET s == Slope(a, b)
        x == (s * s - a[1] - b[1]) % 43
    IN  <<x, (s * (a[1] - x) - a[2]) % 43>>

TinyPlus(a, b) ==
    IF a = Infinity THEN b
    ELSE IF b = Infinity THEN a
    ELSE IF a[1] = b[1] /\ (a[2] + b[2]) % 43 = 0 THEN Infinity
    ELSE AffineSum(a, b)

TinyTimes ==
    LET multiple[k \in 0..30] == IF k = 0 THEN Infinity ELSE TinyPlus(multiple[k - 1], <<2, 12>>)
    IN  [k \in 0..30 |-> multiple[k]]

\* No tweak, one below the order, one just below it, one above it.
TinyDigests ==
    {[il |-> 0, chain |-> "c"], [il |-> 1, chain |-> "d"],
     [il |-> 30, chain |-> "c"], [il |-> 40, chain |-> "d"]}

\* The account is 0', the first index hardened.
TinyPath == <<8>>

\* A key that is on no point of the curve, a damaged xpub and an xprv.
TinyForeign ==
    LET made(ok, v, x) == [intact |-> ok, version |-> v, key |-> [prefix |-> 2, x |-> x],
                           chain |-> "c"]
    IN  {made(TRUE, "xpub", 1), made(FALSE, "xpub", 2), made(TRUE, "xprv", 2)}
=============================================================================
