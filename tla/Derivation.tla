----------------------------- MODULE Derivation -----------------------------
(***************************************************************************)
(* Watch-only derivation (bip32_lite.py, wallet_derivation.py).  A wallet  *)
(* derives private keys from its seed and exports the extended public key  *)
(* of an account; the gateway, which has that xpub and no private key,     *)
(* derives the address of each order from it.  The two never meet again:   *)
(* the money of an order is only there to spend if the wallet, at the      *)
(* order's index, comes to the key of the very address the gateway gave.   *)
(*                                                                         *)
(* HMAC-SHA512 is a table filled in as it is asked: any digest for a new   *)
(* query, the same one ever after.  The curve is any curve; its arithmetic *)
(* is the ecdsa library's.  An address stands for the point it hashes.     *)
(***************************************************************************)
EXTENDS Integers, Sequences

CONSTANTS
    Prime,          \* _P
    Order,          \* _ORDER
    Times,          \* Times[k]: _GENERATOR * k, for k below the order
    Plus(_, _),     \* addition of points
    Digests,        \* what HMAC may give: [il, chain]
    Hardened,       \* _HARDENED_OFFSET
    AccountPath,    \* the indices from the seed to the account exported
    Indices,        \* indices asked for, the hardened ones included
    Foreign         \* xpubs from elsewhere

Infinity == <<-1, -1>>
NoXpub == [intact |-> FALSE, version |-> "none", key |-> [prefix |-> 0, x |-> 0], chain |-> "none"]
Unknown == [key |-> -1, chain |-> "none"]

YSquared(x) == (x * x * x + 7) % Prime

OnCurve(pt) == (pt[2] * pt[2]) % Prime = YSquared(pt[1])
Points == {pt \in (0..(Prime - 1)) \X (0..(Prime - 1)) : OnCurve(pt)}

(* pow(s, (p + 1) // 4, p) *)
Root(s) ==
    LET power[n \in Nat] == IF n = 0 THEN 1 ELSE (s * power[n - 1]) % Prime
    IN  power[(Prime + 1) \div 4]

ASSUME DigestAssumption ==
    /\ \A d \in Digests : d.il \in Nat /\ d.chain \notin {"Bitcoin seed", "none"}
    /\ Hardened \in Nat \ {0} /\ AccountPath \in Seq(Nat) /\ Indices \subseteq Nat
    /\ NoXpub \notin Foreign /\ \A x \in Foreign : x.key.x \in 0..(Prime - 1)

(* The group of the curve is generated by the generator. *)
ASSUME GroupAssumption ==
    /\ Order \in Nat \ {0}
    /\ Times \in [0..(Order - 1) -> Points \cup {Infinity}]
    /\ \A k \in 0..(Order - 1) : Times[k] = Infinity <=> k = 0
    /\ \A pt \in Points : \E k \in 0..(Order - 1) : pt = Times[k]
    /\ \A j, k \in 0..(Order - 1) : Plus(Times[j], Times[k]) = Times[(j + k) % Order]

(* The power is a square root of what has one, and the curve does not meet *)
(* the x-axis.                                                             *)
ASSUME RootAssumption ==
    /\ Prime \in Nat /\ Prime % 2 = 1
    /\ \A x \in 0..(Prime - 1) : Root(YSquared(x)) \in 1..(Prime - 1)
    /\ \A pt \in Points : Root(YSquared(pt[1])) \in {pt[2], Prime - pt[2]}

VARIABLES
    hmac,       \* the queries HMAC has answered
    walk,       \* the derivation the wallet is at: derive_priv_path
    nodes,      \* history: what the wallet derived last at each path
    exported,   \* xpubs the wallet has exported
    xpub,       \* payout_evm_xpub of the merchant
    order,      \* the derivation the gateway is at: derive_evm_address
    address,    \* history: the address given at each index, or Infinity
    refused     \* history: indices for which the derivation raised

vars == <<hmac, walk, nodes, exported, xpub, order, address, refused>>

SpendPath(i) == AccountPath \o <<0, i>>
Paths == {AccountPath} \cup {SpendPath(i) : i \in Indices}
Prefixes == UNION {{SubSeq(p, 1, n) : n \in 0..Len(p)} : p \in Paths}

NoWalk == [path |-> <<>>, at |-> -1, key |-> -1, chain |-> "none"]
NoOrder == [index |-> -1, key |-> [prefix |-> 0, x |-> 0], chain |-> "none"]

Init ==
    /\ hmac = << >>
    /\ walk = NoWalk /\ nodes = [p \in Prefixes |-> Unknown] /\ exported = {}
    /\ xpub = NoXpub /\ order = NoOrder
    /\ address = [i \in Indices |-> Infinity] /\ refused = {}

-----------------------------------------------------------------------------
(* bip32_lite *)

Compress(pt) == [prefix |-> IF pt[2] % 2 # 0 THEN 3 ELSE 2, x |-> pt[1]]

\* Variant: the root as it comes, whatever the prefix says.
DecompressUnsigned(key) == <<key.x, Root(YSquared(key.x))>>

Decompress(key) ==
    LET y == Root(YSquared(key.x)) IN
    IF (y % 2 = 0) # (key.prefix = 2) THEN <<key.x, Prime - y>> ELSE <<key.x, y>>

PublicPoint(k) == Times[k % Order]
PublicKey(k) == Compress(PublicPoint(k))

(* Compressing the point at infinity raises. *)
HasPublicKey(k) == PublicPoint(k) # Infinity

(* What HMAC is asked: 0x00 and the private key, or the public key; and the *)
(* index.  The master key comes of the wallet's one seed.                   *)
SecretData(k, i) == [prefix |-> 0, body |-> k, index |-> i]
PublicData(key, i) == [prefix |-> key.prefix, body |-> key.x, index |-> i]
Seed == [prefix |-> 0, body |-> 0, index |-> 0]

Hashes(chain, data, d) ==
    LET query == <<chain, data>> IN
    /\ query \in DOMAIN hmac => d = hmac[query]
    /\ hmac' = [q \in DOMAIN hmac \cup {query} |-> IF q = query THEN d ELSE hmac[q]]

(* ckd_priv *)
PrivData(k, i) == IF i >= Hardened THEN SecretData(k, i) ELSE PublicData(PublicKey(k), i)

\* Variant: not reduced by the order.
ChildKeyUnreduced(k, d) == d.il + k

ChildKey(k, d) == (d.il + k) % Order

(* ckd_pub: a parent off the curve and a child at infinity raise. *)
Undefined(i) == i >= Hardened

ChildPoint(key, d) == Plus(PublicPoint(d.il), Decompress(key))

\* Variants: any x will do; BIP32's test of I_L, on this side only.
RaisesOnInfinity(key, d) == ChildPoint(key, d) = Infinity
RaisesOnLargeDigest(key, d) ==
    ~OnCurve(Decompress(key)) \/ ChildPoint(key, d) = Infinity \/ d.il >= Order

Raises(key, d) == ~OnCurve(Decompress(key)) \/ ChildPoint(key, d) = Infinity

(* serialize_xpub; depth, fingerprint and child number are never read back. *)
Serialized(key, c) == [intact |-> TRUE, version |-> "xpub", key |-> key, chain |-> c]

(* parse_xpub: checksum and version are tested; whether the key is on the   *)
(* curve is not.                                                            *)
ChecksumHolds(x) == x.intact
Parses(x) == ChecksumHolds(x) /\ x.version = "xpub"

(* decompress_pubkey *)
AddressOf(key) == Decompress(key)

-----------------------------------------------------------------------------
(* The wallet: derive_priv_path *)

Here == SubSeq(walk.path, 1, walk.at)

StartWalk(p, d) ==
    /\ walk = NoWalk
    /\ Hashes("Bitcoin seed", Seed, d)
    /\ nodes' = [nodes EXCEPT ![<<>>] = [key |-> d.il, chain |-> d.chain]]
    /\ walk' = IF HasPublicKey(d.il)
               THEN [path |-> p, at |-> 0, key |-> d.il, chain |-> d.chain]
               ELSE NoWalk
    /\ UNCHANGED <<exported, xpub, order, address, refused>>

Descend(d) ==
    /\ walk # NoWalk /\ walk.at < Len(walk.path) /\ HasPublicKey(walk.key)
    /\ LET i == walk.path[walk.at + 1] IN
       /\ Hashes(walk.chain, PrivData(walk.key, i), d)
       /\ walk' = [walk EXCEPT !.at = @ + 1, !.key = ChildKey(walk.key, d), !.chain = d.chain]
       /\ nodes' = [nodes EXCEPT ![Append(Here, i)] =
                        [key |-> ChildKey(walk.key, d), chain |-> d.chain]]
    /\ UNCHANGED <<exported, xpub, order, address, refused>>

(* A key with no public key: the derivation raises, or so does the export. *)
WalkRaises ==
    /\ walk # NoWalk /\ ~HasPublicKey(walk.key)
    /\ walk' = NoWalk
    /\ UNCHANGED <<hmac, nodes, exported, xpub, order, address, refused>>

Export ==
    /\ walk # NoWalk /\ walk.path = AccountPath /\ walk.at = Len(walk.path)
    /\ HasPublicKey(walk.key)
    /\ exported' = exported \cup {Serialized(PublicKey(walk.key), walk.chain)}
    /\ walk' = NoWalk
    /\ UNCHANGED <<hmac, nodes, xpub, order, address, refused>>

KeyDerived ==
    /\ walk # NoWalk /\ walk.path # AccountPath /\ walk.at = Len(walk.path)
    /\ walk' = NoWalk
    /\ UNCHANGED <<hmac, nodes, exported, xpub, order, address, refused>>

-----------------------------------------------------------------------------
(* The gateway: validate_evm_xpub, derive_evm_address *)

SetXpub(x) ==
    /\ xpub = NoXpub
    /\ Parses(x)
    /\ xpub' = x
    /\ UNCHANGED <<hmac, walk, nodes, exported, order, address, refused>>

DeriveChange(i, d) ==
    /\ xpub # NoXpub /\ order = NoOrder
    /\ Hashes(xpub.chain, PublicData(xpub.key, 0), d)
    /\ IF Raises(xpub.key, d)
       THEN refused' = refused \cup {i} /\ UNCHANGED order
       ELSE /\ order' = [index |-> i, key |-> Compress(ChildPoint(xpub.key, d)),
                         chain |-> d.chain]
            /\ UNCHANGED refused
    /\ UNCHANGED <<walk, nodes, exported, xpub, address>>

RefuseHardened ==
    /\ order # NoOrder /\ Undefined(order.index)
    /\ refused' = refused \cup {order.index}
    /\ order' = NoOrder
    /\ UNCHANGED <<hmac, walk, nodes, exported, xpub, address>>

DeriveAddress(d) ==
    /\ order # NoOrder /\ ~Undefined(order.index)
    /\ Hashes(order.chain, PublicData(order.key, order.index), d)
    /\ IF Raises(order.key, d)
       THEN refused' = refused \cup {order.index} /\ UNCHANGED address
       ELSE /\ address' = [address EXCEPT ![order.index] =
                                AddressOf(Compress(ChildPoint(order.key, d)))]
            /\ UNCHANGED refused
    /\ order' = NoOrder
    /\ UNCHANGED <<walk, nodes, exported, xpub>>

Next ==
    \/ \E p \in Paths, d \in Digests : StartWalk(p, d)
    \/ \E d \in Digests : Descend(d)
    \/ WalkRaises
    \/ Export
    \/ KeyDerived
    \/ \E x \in exported \cup Foreign : SetXpub(x)
    \/ \E i \in Indices, d \in Digests : DeriveChange(i, d)
    \/ RefuseHardened
    \/ \E d \in Digests : DeriveAddress(d)

Spec == Init /\ [][Next]_vars

-----------------------------------------------------------------------------
(* What is promised *)

Chain == {d.chain : d \in Digests}
Node == [key : Nat, chain : Chain]

(* Types: every variable holds a value of its kind; below the seed a       *)
(* private key is a number below the order.                                *)
TypeOK ==
    /\ \A q \in DOMAIN hmac : hmac[q] \in Digests
    /\ walk \in {NoWalk} \cup [path : Paths, at : Nat, key : Nat, chain : Chain]
    /\ walk # NoWalk => walk.at <= Len(walk.path)
    /\ nodes \in [Prefixes -> Node \cup {Unknown}]
    /\ \A p \in Prefixes : p # <<>> => nodes[p].key < Order
    /\ \A x \in exported : x.key \in {Compress(pt) : pt \in Points} /\ x.chain \in Chain
    /\ xpub \in exported \cup Foreign \cup {NoXpub}
    /\ order.index \in Indices \cup {-1}
    /\ DOMAIN address = Indices
    /\ refused \subseteq Indices

(* Watch-only derivation is sound: an address the gateway gave for an order *)
(* from an xpub the wallet exported is the address of the private key that  *)
(* the wallet itself comes to at that index, whenever it derives it; the    *)
(* gateway never gives one that only a hardened key would open.             *)
AddressesAreSpendable ==
    \A i \in Indices :
        xpub \in exported /\ address[i] # Infinity /\ nodes[SpendPath(i)] # Unknown
            => address[i] = PublicPoint(nodes[SpendPath(i)].key)

(* And complete: with an exported xpub the gateway only refuses an index    *)
(* that is hardened, or at which the wallet has no usable key either.       *)
RefusedForCause ==
    \A i \in refused :
        xpub \in exported /\ i < Hardened /\ nodes[SpendPath(i)] # Unknown
            => ~HasPublicKey(nodes[SpendPath(i)].key)

(* Whatever xpub a merchant gives, a key off the curve that passes the      *)
(* validation included, no address is given that is not a point of the      *)
(* curve: nobody could spend from it.                                       *)
AddressesAreOnTheCurve ==
    \A i \in Indices : address[i] # Infinity => address[i] \in Points
=============================================================================
