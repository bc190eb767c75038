-------------------------- MODULE DerivationProofs --------------------------
(***************************************************************************)
(* Theorems about Derivation, for any curve whose group its generator      *)
(* generates, any HMAC, any account path and any foreign xpubs.  What each *)
(* side derives is tied to the table of HMAC's answers: both sides ask the *)
(* same queries on the way to an order's key, and the group's law does the *)
(* rest.                                                                   *)
(***************************************************************************)
EXTENDS Derivation, TLAPS, SequenceTheorems

-----------------------------------------------------------------------------
(* The group and its encoding *)

(* Division with remainder is unique.                                      *)
LEMMA RemainderIsUnique ==
    ASSUME NEW n \in Nat, NEW q \in Int, NEW r \in 0..(Order - 1), n = Order * q + r
    PROVE  n % Order = r
<1> DEFINE e == n \div Order
           s == n % Order
<1>1. Order \in Nat /\ Order > 0 BY GroupAssumption
<1>2. e \in Int /\ s \in 0..(Order - 1) /\ n = Order * e + s BY <1>1
<1> HIDE DEF e, s
<1>3. Order * (q - e) = s - r BY <1>1, <1>2
<1>4. CASE q = e
  <2>1. s = r BY <1>1, <1>2, <1>4
  <2> QED BY <2>1 DEF s
<1>5. CASE q > e
  <2>1. Order * (q - e) >= Order BY <1>1, <1>2, <1>5
  <2> QED BY <1>1, <1>2, <1>3, <2>1
<1>6. CASE q < e
  <2>1. Order * (e - q) >= Order BY <1>1, <1>2, <1>6
  <2>2. Order * (q - e) = -(Order * (e - q)) BY <1>1, <1>2
  <2> QED BY <1>1, <1>2, <1>3, <2>1, <2>2
<1> QED BY <1>2, <1>4, <1>5, <1>6

LEMMA SumOfRemainders ==
    ASSUME NEW j \in Nat, NEW k \in Nat
    PROVE  /\ j % Order \in 0..(Order - 1)
           /\ ((j % Order) + (k % Order)) % Order = (j + k) % Order
           /\ ((j + k) % Order) % Order = (j + k) % Order
<1> DEFINE a == j % Order
           b == k % Order
           t == (a + b) % Order
<1>1. Order \in Nat /\ Order > 0 BY GroupAssumption
<1>2. /\ a \in 0..(Order - 1) /\ j \div Order \in Int /\ j = Order * (j \div Order) + a
      /\ b \in 0..(Order - 1) /\ k \div Order \in Int /\ k = Order * (k \div Order) + b
  BY <1>1
<1>3. /\ t \in 0..(Order - 1) /\ (a + b) \div Order \in Int
      /\ a + b = Order * ((a + b) \div Order) + t
  BY <1>1, <1>2
<1> DEFINE q == (j \div Order) + (k \div Order) + ((a + b) \div Order)
<1> HIDE DEF a, b, t
<1>4. q \in Int /\ j + k = Order * q + t BY <1>1, <1>2, <1>3
<1>5. j + k \in Nat OBVIOUS
<1> HIDE DEF q
<1>6. (j + k) % Order = t BY <1>3, <1>4, <1>5, RemainderIsUnique
<1>7. t % Order = t
  <2>1. t \in Nat /\ t = Order * 0 + t BY <1>1, <1>3
  <2> QED BY <1>3, <2>1, RemainderIsUnique
<1> QED BY <1>2, <1>6, <1>7 DEF a, b, t

LEMMA PublicPoints ==
    ASSUME NEW k \in Nat
    PROVE  PublicPoint(k) \in Points \cup {Infinity}
<1>1. k % Order \in 0..(Order - 1) BY SumOfRemainders
<1> QED BY <1>1, GroupAssumption DEF PublicPoint

(* The generator's multiples add up as their factors do.                   *)
LEMMA GroupLaw ==
    ASSUME NEW j \in Nat, NEW k \in Nat
    PROVE  Plus(PublicPoint(j), PublicPoint(k)) = PublicPoint((j + k) % Order)
<1>1. /\ j % Order \in 0..(Order - 1) /\ k % Order \in 0..(Order - 1)
      /\ ((j % Order) + (k % Order)) % Order = (j + k) % Order
      /\ ((j + k) % Order) % Order = (j + k) % Order
  BY SumOfRemainders
<1> QED BY <1>1, GroupAssumption DEF PublicPoint

LEMMA PointsHaveCoordinates ==
    ASSUME NEW pt \in Points
    PROVE  pt[1] \in 0..(Prime - 1) /\ pt[2] \in 0..(Prime - 1) /\ pt = <<pt[1], pt[2]>> /\ pt # Infinity
<1>1. Prime \in Nat BY RootAssumption
<1> QED BY <1>1 DEF Points, Infinity

(* A compressed point decompresses to itself.                              *)
LEMMA RoundTrip ==
    ASSUME NEW pt \in Points
    PROVE  Decompress(Compress(pt)) = pt
<1> DEFINE x == pt[1]
           y == pt[2]
           r == Root(YSquared(x))
<1>1. /\ x \in 0..(Prime - 1) /\ y \in 0..(Prime - 1) /\ pt = <<x, y>>
      /\ Prime \in Nat /\ Prime % 2 = 1
  BY PointsHaveCoordinates, RootAssumption
<1>2. r \in 1..(Prime - 1) /\ (r = y \/ r = Prime - y) BY <1>1, RootAssumption
<1>3. Compress(pt).x = x /\ (Compress(pt).prefix = 2 <=> y % 2 = 0)
  BY <1>1 DEF Compress
<1>4. Decompress(Compress(pt)) = IF (r % 2 = 0) # (y % 2 = 0) THEN <<x, Prime - r>> ELSE <<x, r>>
  BY <1>3 DEF Decompress
<1> HIDE DEF r, x, y
<1>5. CASE r = y BY <1>1, <1>4, <1>5
<1>6. CASE r = Prime - y
  <2>1. (r % 2 = 0) # (y % 2 = 0) BY <1>1, <1>2, <1>6
  <2>2. Prime - r = y BY <1>1, <1>6
  <2> QED BY <1>1, <1>4, <2>1, <2>2
<1> QED BY <1>2, <1>5, <1>6

(* A key that is on the curve at all decompresses to a point of it.        *)
LEMMA DecompressedPoint ==
    ASSUME NEW key, key.x \in 0..(Prime - 1), OnCurve(Decompress(key))
    PROVE  Decompress(key) \in Points
<1> DEFINE r == Root(YSquared(key.x))
<1>1. r \in 1..(Prime - 1) /\ Prime \in Nat BY RootAssumption
<1>2. Decompress(key) = <<key.x, Prime - r>> \/ Decompress(key) = <<key.x, r>> BY DEF Decompress
<1>3. Prime - r \in 0..(Prime - 1) /\ r \in 0..(Prime - 1) BY <1>1
<1> QED BY <1>2, <1>3 DEF Points

(* What ckd_pub comes to is on the curve, or it raises.                    *)
LEMMA ChildOnCurve ==
    ASSUME NEW d \in Digests, NEW key, key.x \in 0..(Prime - 1), ~Raises(key, d)
    PROVE  ChildPoint(key, d) \in Points
<1>1. Decompress(key) \in Points BY DecompressedPoint DEF Raises
<1>2. PICK k \in 0..(Order - 1) : Decompress(key) = Times[k] BY <1>1, GroupAssumption
<1>3. PublicPoint(k) = Times[k]
  <2>1. k \in Nat /\ Order \in Nat BY GroupAssumption
  <2>2. k = Order * 0 + k BY <2>1
  <2>3. k % Order = k BY <2>1, <2>2, RemainderIsUnique
  <2> QED BY <2>3 DEF PublicPoint
<1>4. d.il \in Nat /\ k \in Nat
  <2>1. d.il \in Nat BY DigestAssumption
  <2>2. Order \in Nat BY GroupAssumption
  <2> QED BY <2>1, <2>2
<1>5. ChildPoint(key, d) = PublicPoint((d.il + k) % Order)
  BY <1>2, <1>3, <1>4, GroupLaw DEF ChildPoint
<1>6. (d.il + k) % Order \in Nat
  <2>1. d.il + k \in Nat BY <1>4
  <2>2. (d.il + k) % Order \in 0..(Order - 1) BY <2>1, SumOfRemainders
  <2>3. Order \in Nat BY GroupAssumption
  <2> QED BY <2>2, <2>3
<1> QED BY <1>5, <1>6, PublicPoints DEF Raises

(* The heart of the matter: the public child of a public key is the public *)
(* point of the private child.                                             *)
LEMMA ChildrenAgree ==
    ASSUME NEW d \in Digests, NEW k \in Nat, HasPublicKey(k)
    PROVE  /\ Decompress(PublicKey(k)) = PublicPoint(k)
           /\ ChildPoint(PublicKey(k), d) = PublicPoint(ChildKey(k, d))
           /\ Raises(PublicKey(k), d) <=> ~HasPublicKey(ChildKey(k, d))
<1>1. PublicPoint(k) \in Points BY PublicPoints DEF HasPublicKey
<1>2. Decompress(PublicKey(k)) = PublicPoint(k) BY <1>1, RoundTrip DEF PublicKey
<1>3. d.il \in Nat BY DigestAssumption
<1>4. ChildPoint(PublicKey(k), d) = PublicPoint(ChildKey(k, d))
  BY <1>2, <1>3, GroupLaw DEF ChildPoint, ChildKey
<1>5. OnCurve(Decompress(PublicKey(k))) BY <1>1, <1>2 DEF Points
<1> QED BY <1>2, <1>4, <1>5 DEF Raises, HasPublicKey

LEMMA ChildKeys ==
    ASSUME NEW d \in Digests, NEW k \in Nat
    PROVE  ChildKey(k, d) \in 0..(Order - 1)
<1>1. d.il \in Nat BY DigestAssumption
<1>2. d.il + k \in Nat BY <1>1
<1> QED BY <1>2, SumOfRemainders DEF ChildKey

-----------------------------------------------------------------------------
(* Paths *)

LEMMA PathsAreSequences ==
    /\ Paths \subseteq Seq(Nat) /\ Prefixes \subseteq Seq(Nat) /\ AccountPath \in Paths
    /\ \A i \in Indices : SpendPath(i) \in Paths
<1>1. AccountPath \in Seq(Nat) /\ Indices \subseteq Nat BY DigestAssumption
<1>2. \A i \in Indices : SpendPath(i) \in Seq(Nat)
  <2> TAKE i \in Indices
  <2>1. <<0, i>> \in Seq(Nat) BY <1>1
  <2> QED BY <1>1, <2>1, ConcatProperties DEF SpendPath
<1>3. Paths \subseteq Seq(Nat) BY <1>1, <1>2 DEF Paths
<1>4. ASSUME NEW p \in Paths, NEW n \in 0..Len(p) PROVE SubSeq(p, 1, n) \in Seq(Nat)
  <2>1. p \in Seq(Nat) /\ Len(p) \in Nat BY <1>3
  <2>2. \A i \in 1..n : p[i] \in Nat BY <2>1
  <2> QED BY <2>1, <2>2, SubSeqProperties
<1>5. Prefixes \subseteq Seq(Nat) BY <1>4 DEF Prefixes
<1> QED BY <1>3, <1>5 DEF Paths

LEMMA PrefixesOfPaths ==
    ASSUME NEW p \in Paths
    PROVE  /\ \A n \in 0..Len(p) : SubSeq(p, 1, n) \in Prefixes
           /\ SubSeq(p, 1, 0) = <<>> /\ SubSeq(p, 1, Len(p)) = p
           /\ \A n \in Nat : n < Len(p) =>
                 p[n + 1] \in Nat /\ SubSeq(p, 1, n + 1) = Append(SubSeq(p, 1, n), p[n + 1])
<1>1. p \in Seq(Nat) /\ Len(p) \in Nat BY PathsAreSequences
<1>2. \A n \in 0..Len(p) : SubSeq(p, 1, n) \in Prefixes BY DEF Prefixes
<1>3. SubSeq(p, 1, 0) = <<>> BY SubSeqEmpty
<1>4. SubSeq(p, 1, Len(p)) = p BY <1>1, SubSeqFull
<1>5. ASSUME NEW n \in Nat, n < Len(p)
      PROVE  p[n + 1] \in Nat /\ SubSeq(p, 1, n + 1) = Append(SubSeq(p, 1, n), p[n + 1])
  <2>1. n + 1 \in 1..Len(p) /\ p[n + 1] \in Nat BY <1>1, <1>5
  <2>2. SubSeq(p, 1, n + 1) = SubSeq(p, 1, n) \o <<p[n + 1]>>
    BY <1>1, <2>1, SubSeqRecursiveSecond
  <2>3. SubSeq(p, 1, n) \in Seq(Nat)
    <3>1. n \in 0..Len(p) BY <1>1, <1>5
    <3> QED BY <1>2, <3>1, PathsAreSequences
  <2> QED BY <2>1, <2>2, <2>3, AppendIsConcat
<1> QED BY <1>2, <1>3, <1>4, <1>5

LEMMA SpendPaths ==
    ASSUME NEW i \in Indices
    PROVE  /\ SpendPath(i) = Append(Append(AccountPath, 0), i)
           /\ AccountPath \in Prefixes /\ Append(AccountPath, 0) \in Prefixes
           /\ SpendPath(i) \in Prefixes /\ <<>> \in Prefixes
<1> DEFINE p == SpendPath(i)
           n == Len(AccountPath)
<1>1. AccountPath \in Seq(Nat) /\ i \in Nat /\ n \in Nat
  <2>1. AccountPath \in Seq(Nat) /\ i \in Nat BY DigestAssumption
  <2> QED BY <2>1
<1>2. <<0, i>> \in Seq(Nat) /\ Len(<<0, i>>) = 2 BY <1>1
<1>3. Len(p) = n + 2 /\ p \in Paths /\ p \in Seq(Nat)
  BY <1>1, <1>2, ConcatProperties, PathsAreSequences DEF SpendPath
<1>4. p[n + 1] = 0 /\ p[n + 2] = i BY <1>1, <1>2, ConcatProperties DEF SpendPath
<1>5. SubSeq(p, 1, n) = AccountPath
  <2>1. CASE n = 0
    <3>1. AccountPath = <<>> BY <1>1, <2>1
    <3> QED BY <1>3, <2>1, <3>1, PrefixesOfPaths
  <2>2. CASE n # 0
    <3>1. 1 \in 1..n /\ n \in 1..n BY <1>1, <2>2
    <3>2. SubSeq(p, 1, n) = SubSeq(AccountPath, 1, n)
      BY <1>1, <1>2, <3>1, SubSeqOfConcat1 DEF SpendPath
    <3> QED BY <1>1, <3>2, SubSeqFull
  <2> QED BY <2>1, <2>2
<1> HIDE DEF p, n
<1>6. SubSeq(p, 1, n + 1) = Append(AccountPath, 0)
  BY <1>1, <1>3, <1>4, <1>5, PrefixesOfPaths
<1>7. p = Append(Append(AccountPath, 0), i)
  <2>1. SubSeq(p, 1, n + 2) = Append(SubSeq(p, 1, n + 1), p[n + 2])
    <3>1. n + 1 \in Nat /\ n + 1 < Len(p) /\ (n + 1) + 1 = n + 2 BY <1>1, <1>3
    <3> QED BY <1>3, <3>1, PrefixesOfPaths
  <2>2. SubSeq(p, 1, n + 2) = p BY <1>3, PrefixesOfPaths
  <2> QED BY <1>4, <1>6, <2>1, <2>2
<1>8. n \in 0..Len(p) /\ n + 1 \in 0..Len(p) /\ n + 2 \in 0..Len(p) /\ 0 \in 0..Len(p)
  BY <1>1, <1>3
<1>9. <<>> \in Prefixes /\ AccountPath \in Prefixes /\ Append(AccountPath, 0) \in Prefixes
      /\ p \in Prefixes
  BY <1>3, <1>5, <1>6, <1>8, PrefixesOfPaths
<1> QED BY <1>7, <1>9 DEF p

-----------------------------------------------------------------------------
(* The invariant *)

Known(p) == nodes[p] # Unknown

(* Every node the wallet has come to follows from its parent by HMAC.      *)
SeedInv ==
    Known(<<>>) =>
        LET q == <<"Bitcoin seed", Seed>> IN
        q \in DOMAIN hmac /\ nodes[<<>>] = [key |-> hmac[q].il, chain |-> hmac[q].chain]

ChildInv(p, i) ==
    Known(Append(p, i)) =>
        LET q == <<nodes[p].chain, PrivData(nodes[p].key, i)>> IN
        /\ Known(p) /\ HasPublicKey(nodes[p].key)
        /\ q \in DOMAIN hmac
        /\ nodes[Append(p, i)] = [key |-> ChildKey(nodes[p].key, hmac[q]), chain |-> hmac[q].chain]

NodesInv ==
    /\ SeedInv
    /\ \A p \in Prefixes, i \in Nat : Append(p, i) \in Prefixes => ChildInv(p, i)

WalkInv ==
    walk # NoWalk =>
        /\ walk.path \in Paths /\ walk.at \in 0..Len(walk.path)
        /\ nodes[Here] = [key |-> walk.key, chain |-> walk.chain]

(* Every xpub exported is that of the wallet's one account.                *)
ExportInv ==
    \A x \in exported :
        /\ Known(AccountPath) /\ HasPublicKey(nodes[AccountPath].key)
        /\ x.key = PublicKey(nodes[AccountPath].key) /\ x.chain = nodes[AccountPath].chain

(* What the gateway has derived follows from the xpub by HMAC.             *)
ChangeQuery == <<xpub.chain, PublicData(xpub.key, 0)>>
ChangeKey == Compress(ChildPoint(xpub.key, hmac[ChangeQuery]))
AddressQuery(i) == <<hmac[ChangeQuery].chain, PublicData(ChangeKey, i)>>

ChangeDone == ChangeQuery \in DOMAIN hmac /\ ~Raises(xpub.key, hmac[ChangeQuery])

RightOrder(o) ==
    /\ xpub # NoXpub /\ ChangeDone
    /\ o.index \in Indices /\ o.key = ChangeKey /\ o.chain = hmac[ChangeQuery].chain

RightAddress(i, pt) ==
    /\ xpub # NoXpub /\ ChangeDone /\ i < Hardened
    /\ AddressQuery(i) \in DOMAIN hmac /\ ~Raises(ChangeKey, hmac[AddressQuery(i)])
    /\ pt = AddressOf(Compress(ChildPoint(ChangeKey, hmac[AddressQuery(i)])))

RightRefusal(i) ==
    i < Hardened =>
        /\ xpub # NoXpub /\ ChangeQuery \in DOMAIN hmac
        /\ \/ Raises(xpub.key, hmac[ChangeQuery])
           \/ /\ ~Raises(xpub.key, hmac[ChangeQuery])
              /\ AddressQuery(i) \in DOMAIN hmac /\ Raises(ChangeKey, hmac[AddressQuery(i)])

OrderInv == order # NoOrder => RightOrder(order)
AddressInv == \A i \in Indices : address[i] # Infinity => RightAddress(i, address[i])
RefusedInv == \A i \in refused : RightRefusal(i)

GatewayInv == OrderInv /\ AddressInv /\ RefusedInv

Inv == TypeOK /\ NodesInv /\ WalkInv /\ ExportInv /\ GatewayInv

-----------------------------------------------------------------------------
(* The table of HMAC's answers only grows. *)

Grows == \A q \in DOMAIN hmac : q \in DOMAIN hmac' /\ hmac'[q] = hmac[q]

LEMMA HashesGrow ==
    ASSUME NEW c, NEW data, NEW d \in Digests, Hashes(c, data, d), TypeOK
    PROVE  /\ Grows
           /\ <<c, data>> \in DOMAIN hmac' /\ hmac'[<<c, data>>] = d
           /\ \A q \in DOMAIN hmac' : hmac'[q] \in Digests
<1> DEFINE query == <<c, data>>
<1>1. /\ query \in DOMAIN hmac => d = hmac[query]
      /\ hmac' = [q \in DOMAIN hmac \cup {query} |-> IF q = query THEN d ELSE hmac[q]]
  BY DEF Hashes
<1> HIDE DEF query
<1>2. DOMAIN hmac' = DOMAIN hmac \cup {query} BY <1>1
<1>3. \A q \in DOMAIN hmac' : hmac'[q] = IF q = query THEN d ELSE hmac[q] BY <1>1
<1>4. Grows BY <1>1, <1>2, <1>3 DEF Grows
<1>5. query \in DOMAIN hmac' /\ hmac'[query] = d BY <1>2, <1>3
<1>6. \A q \in DOMAIN hmac' : hmac'[q] \in Digests BY <1>2, <1>3 DEF TypeOK
<1> QED BY <1>4, <1>5, <1>6 DEF query

(* What the gateway has derived stays right as the table grows.            *)
LEMMA RightKept ==
    ASSUME Grows, UNCHANGED xpub
    PROVE  /\ \A o : RightOrder(o) => RightOrder(o)'
           /\ \A i, pt : RightAddress(i, pt) => RightAddress(i, pt)'
           /\ \A i : RightRefusal(i) => RightRefusal(i)'
<1>1. ChangeQuery' = ChangeQuery BY DEF ChangeQuery
<1>2. ASSUME ChangeQuery \in DOMAIN hmac
      PROVE  /\ ChangeQuery' \in DOMAIN hmac' /\ hmac'[ChangeQuery'] = hmac[ChangeQuery]
             /\ ChangeKey' = ChangeKey /\ \A i : AddressQuery(i)' = AddressQuery(i)
             /\ ChangeDone' <=> ChangeDone
  BY <1>1, <1>2 DEF Grows, ChangeKey, AddressQuery, ChangeDone
<1>3. ASSUME NEW i, ChangeQuery \in DOMAIN hmac, AddressQuery(i) \in DOMAIN hmac
      PROVE  AddressQuery(i)' \in DOMAIN hmac' /\ hmac'[AddressQuery(i)'] = hmac[AddressQuery(i)]
  BY <1>2, <1>3 DEF Grows
<1>4. ASSUME NEW o, RightOrder(o) PROVE RightOrder(o)'
  BY <1>2, <1>4 DEF RightOrder, ChangeDone
<1>5. ASSUME NEW i, NEW pt, RightAddress(i, pt) PROVE RightAddress(i, pt)'
  BY <1>2, <1>3, <1>5 DEF RightAddress, ChangeDone
<1>6. ASSUME NEW i, RightRefusal(i) PROVE RightRefusal(i)'
  BY <1>2, <1>3, <1>6 DEF RightRefusal
<1> QED BY <1>4, <1>5, <1>6

LEMMA AddressesKept ==
    ASSUME AddressInv, Grows, UNCHANGED <<xpub, address>>
    PROVE  AddressInv'
<1> SUFFICES ASSUME NEW i \in Indices, address'[i] # Infinity PROVE RightAddress(i, address[i])'
  BY DEF AddressInv
<1>1. RightAddress(i, address[i]) BY DEF AddressInv
<1> QED BY <1>1, RightKept DEF RightAddress

LEMMA RefusalsKept ==
    ASSUME RefusedInv, Grows, UNCHANGED xpub
    PROVE  \A i \in refused : RightRefusal(i)'
BY RightKept DEF RefusedInv

LEMMA GatewayKept ==
    ASSUME GatewayInv, Grows, UNCHANGED <<xpub, order, address, refused>>
    PROVE  GatewayInv'
<1>1. AddressInv' BY AddressesKept DEF GatewayInv
<1>2. RefusedInv' BY RefusalsKept DEF GatewayInv, RefusedInv
<1>3. OrderInv' BY RightKept DEF GatewayInv, OrderInv, RightOrder
<1> QED BY <1>1, <1>2, <1>3 DEF GatewayInv

(* Nodes keep: those known are not changed, and HMAC only grows.           *)
LEMMA ChildKept ==
    ASSUME Grows, NEW p \in Prefixes, NEW i \in Nat, Append(p, i) \in Prefixes, ChildInv(p, i),
           nodes'[Append(p, i)] = nodes[Append(p, i)], Known(p) => nodes'[p] = nodes[p]
    PROVE  ChildInv(p, i)'
BY DEF ChildInv, Known, Grows

LEMMA WalletKept ==
    ASSUME NodesInv, WalkInv, ExportInv, Grows, UNCHANGED <<nodes, walk, exported>>
    PROVE  NodesInv' /\ WalkInv' /\ ExportInv'
<1>1. SeedInv' BY DEF NodesInv, SeedInv, Known, Grows
<1>2. \A p \in Prefixes, i \in Nat : Append(p, i) \in Prefixes => ChildInv(p, i)'
  BY ChildKept DEF NodesInv
<1>3. WalkInv' /\ ExportInv' BY DEF WalkInv, ExportInv, Here, Known
<1> QED BY <1>1, <1>2, <1>3 DEF NodesInv

-----------------------------------------------------------------------------
(* One step of the wallet *)

LEMMA RootPrefix == <<>> \in Prefixes /\ AccountPath \in Prefixes
<1>1. AccountPath \in Seq(Nat) BY DigestAssumption
<1>2. 0 \in 0..Len(AccountPath) /\ Len(AccountPath) \in 0..Len(AccountPath) BY <1>1
<1> QED BY <1>2, PrefixesOfPaths, PathsAreSequences

LEMMA AppendDiffers ==
    ASSUME NEW r \in Seq(Nat), NEW j \in Nat
    PROVE  /\ Append(r, j) # <<>>
           /\ \A t \in Seq(Nat), i \in Nat : Append(r, j) = Append(t, i) => r = t /\ j = i
BY AppendProperties, AppendInjective

LEMMA DigestNodes ==
    ASSUME NEW d \in Digests
    PROVE  d.il \in Nat /\ d.chain \in Chain /\ d.chain # "none"
BY DigestAssumption DEF Chain

LEMMA UnknownIsNoNode == \A n \in Node : n # Unknown
BY DEF Node, Unknown

LEMMA WalkTypes ==
    ASSUME TypeOK, walk # NoWalk
    PROVE  /\ walk \in [path : Paths, at : Nat, key : Nat, chain : Chain]
           /\ walk.at \in 0..Len(walk.path) /\ Here \in Prefixes
           /\ [key |-> walk.key, chain |-> walk.chain] \in Node
<1>1. walk \in [path : Paths, at : Nat, key : Nat, chain : Chain] /\ walk.at <= Len(walk.path)
  BY DEF TypeOK
<1>2. walk.path \in Seq(Nat) BY <1>1, PathsAreSequences
<1>3. walk.at \in 0..Len(walk.path) BY <1>1, <1>2
<1> QED BY <1>1, <1>3, PrefixesOfPaths DEF Here, Node

LEMMA StartWalkStep ==
    ASSUME Inv, NEW p \in Paths, NEW d \in Digests, StartWalk(p, d)
    PROVE  Inv'
<1> DEFINE q == <<"Bitcoin seed", Seed>>
           new == [key |-> d.il, chain |-> d.chain]
<1>1. /\ TypeOK /\ SeedInv /\ WalkInv /\ ExportInv /\ GatewayInv
      /\ \A r \in Prefixes, i \in Nat : Append(r, i) \in Prefixes => ChildInv(r, i)
  BY DEF Inv, NodesInv
<1>2. /\ Grows /\ q \in DOMAIN hmac' /\ hmac'[q] = d
      /\ \A r \in DOMAIN hmac' : hmac'[r] \in Digests
  BY <1>1, HashesGrow DEF StartWalk
<1>3. /\ nodes' = [nodes EXCEPT ![<<>>] = new]
      /\ walk' = IF HasPublicKey(d.il)
                 THEN [path |-> p, at |-> 0, key |-> d.il, chain |-> d.chain] ELSE NoWalk
      /\ UNCHANGED <<exported, xpub, order, address, refused>>
  BY DEF StartWalk
<1>4. new \in Node /\ new # Unknown BY DigestNodes, UnknownIsNoNode DEF Node
<1>5. nodes'[<<>>] = new /\ \A r \in Prefixes : r # <<>> => nodes'[r] = nodes[r]
  BY <1>1, <1>3, RootPrefix DEF TypeOK
<1>6. \A r \in Prefixes : Known(r) => nodes'[r] = nodes[r]
  <2>1. Known(<<>>) => nodes[<<>>] = new
    BY <1>1, <1>2 DEF SeedInv, Grows
  <2> QED BY <1>5, <2>1
<1> HIDE DEF new, q
<1>7. NodesInv'
  <2>1. SeedInv' BY <1>2, <1>5 DEF SeedInv, q, new
  <2>2. ASSUME NEW r \in Prefixes, NEW i \in Nat, Append(r, i) \in Prefixes
        PROVE  ChildInv(r, i)'
    <3>1. r \in Seq(Nat) BY PathsAreSequences
    <3>2. Append(r, i) # <<>> BY <3>1, AppendProperties
    <3>3. nodes'[Append(r, i)] = nodes[Append(r, i)] BY <1>5, <2>2, <3>2
    <3> QED BY <1>1, <1>2, <1>6, <2>2, <3>3, ChildKept
  <2> QED BY <2>1, <2>2 DEF NodesInv
<1>8. p \in Seq(Nat) /\ SubSeq(p, 1, 0) = <<>> /\ 0 \in 0..Len(p)
  <2>1. p \in Seq(Nat) BY PathsAreSequences
  <2> QED BY <2>1, PrefixesOfPaths
<1>9. WalkInv'
  BY <1>3, <1>5, <1>8 DEF WalkInv, Here, NoWalk, new
<1>10. ExportInv'
  BY <1>1, <1>3, <1>6, RootPrefix DEF ExportInv, Known
<1>11. GatewayInv' BY <1>1, <1>2, <1>3, GatewayKept
<1>12. TypeOK'
  <2>1. nodes' \in [Prefixes -> Node \cup {Unknown}]
    BY <1>1, <1>3, <1>4 DEF TypeOK
  <2>2. \A r \in Prefixes : r # <<>> => nodes'[r].key < Order BY <1>1, <1>5 DEF TypeOK
  <2>3. walk' \in {NoWalk} \cup [path : Paths, at : Nat, key : Nat, chain : Chain]
        /\ (walk' # NoWalk => walk'.at <= Len(walk'.path))
    BY <1>3, <1>8, DigestNodes
  <2> QED BY <1>1, <1>2, <1>3, <2>1, <2>2, <2>3 DEF TypeOK
<1> QED BY <1>7, <1>9, <1>10, <1>11, <1>12 DEF Inv

LEMMA DescendStep ==
    ASSUME Inv, NEW d \in Digests, Descend(d)
    PROVE  Inv'
<1> DEFINE i == walk.path[walk.at + 1]
           k == ChildKey(walk.key, d)
           new == [key |-> k, chain |-> d.chain]
           q == <<walk.chain, PrivData(walk.key, i)>>
           child == Append(Here, i)
<1>1. /\ TypeOK /\ SeedInv /\ WalkInv /\ ExportInv /\ GatewayInv
      /\ \A r \in Prefixes, j \in Nat : Append(r, j) \in Prefixes => ChildInv(r, j)
  BY DEF Inv, NodesInv
<1>2. /\ walk # NoWalk /\ walk.at < Len(walk.path) /\ HasPublicKey(walk.key)
      /\ walk' = [walk EXCEPT !.at = @ + 1, !.key = k, !.chain = d.chain]
      /\ nodes' = [nodes EXCEPT ![child] = new]
      /\ UNCHANGED <<exported, xpub, order, address, refused>>
  BY DEF Descend
<1>3. /\ Grows /\ q \in DOMAIN hmac' /\ hmac'[q] = d
      /\ \A r \in DOMAIN hmac' : hmac'[r] \in Digests
  <2>1. Hashes(walk.chain, PrivData(walk.key, i), d) BY DEF Descend
  <2> QED BY <1>1, <2>1, HashesGrow
<1>4. /\ walk \in [path : Paths, at : Nat, key : Nat, chain : Chain]
      /\ Here \in Prefixes /\ Here \in Seq(Nat) /\ [key |-> walk.key, chain |-> walk.chain] \in Node
  BY <1>1, <1>2, WalkTypes, PathsAreSequences
<1>5. /\ i \in Nat /\ child = SubSeq(walk.path, 1, walk.at + 1) /\ child \in Prefixes
      /\ walk.at + 1 \in 0..Len(walk.path) /\ child # <<>>
  <2>1. walk.path \in Paths /\ walk.at \in Nat BY <1>4
  <2>2. i \in Nat /\ child = SubSeq(walk.path, 1, walk.at + 1)
    BY <1>2, <2>1, PrefixesOfPaths DEF Here
  <2>3. walk.path \in Seq(Nat) /\ Len(walk.path) \in Nat BY <2>1, PathsAreSequences
  <2>4. walk.at + 1 \in 0..Len(walk.path) BY <1>2, <2>1, <2>3
  <2>5. child # <<>> BY <1>4, <2>2, AppendDiffers
  <2> QED BY <2>1, <2>2, <2>4, <2>5, PrefixesOfPaths
<1>6. k \in 0..(Order - 1) /\ k \in Nat
  <2>1. walk.key \in Nat BY <1>4
  <2>2. k \in 0..(Order - 1) BY <2>1, ChildKeys
  <2>3. Order \in Nat BY GroupAssumption
  <2> QED BY <2>2, <2>3
<1>7. new \in Node /\ new # Unknown BY <1>6, DigestNodes, UnknownIsNoNode DEF Node
<1>8. /\ nodes[Here].key = walk.key /\ nodes[Here].chain = walk.chain /\ Known(Here)
  BY <1>1, <1>2, <1>4, UnknownIsNoNode DEF WalkInv, Known
<1> HIDE DEF i, k, new, child
<1>9. nodes'[child] = new /\ \A r \in Prefixes : r # child => nodes'[r] = nodes[r]
  BY <1>1, <1>2, <1>5 DEF TypeOK
<1>10. \A r \in Prefixes : Known(r) => nodes'[r] = nodes[r]
  <2>1. ASSUME Known(child) PROVE nodes[child] = new
    <3>1. ChildInv(Here, i) BY <1>1, <1>4, <1>5 DEF child
    <3>2. /\ q \in DOMAIN hmac
          /\ nodes[child] = [key |-> ChildKey(walk.key, hmac[q]), chain |-> hmac[q].chain]
      BY <1>8, <2>1, <3>1 DEF ChildInv, child
    <3>3. hmac[q] = d BY <1>3, <3>2 DEF Grows
    <3> QED BY <3>2, <3>3 DEF new, k
  <2> QED BY <1>9, <2>1
<1>11. nodes'[Here] = nodes[Here] BY <1>4, <1>8, <1>10
<1>12. NodesInv'
  <2>1. SeedInv'
    <3>1. nodes'[<<>>] = nodes[<<>>] BY <1>5, <1>9, RootPrefix
    <3> QED BY <1>1, <1>3, <3>1 DEF SeedInv, Known, Grows
  <2>2. ASSUME NEW r \in Prefixes, NEW j \in Nat, Append(r, j) \in Prefixes
        PROVE  ChildInv(r, j)'
    <3>1. CASE Append(r, j) # child
      <4>1. nodes'[Append(r, j)] = nodes[Append(r, j)] BY <1>9, <2>2, <3>1
      <4> QED BY <1>1, <1>3, <1>10, <2>2, <4>1, ChildKept
    <3>2. CASE Append(r, j) = child
      <4>1. r = Here /\ j = i
        <5>1. r \in Seq(Nat) BY PathsAreSequences
        <5> QED BY <1>4, <1>5, <3>2, <5>1, AppendDiffers DEF child
      <4>2. nodes'[r].key = walk.key /\ nodes'[r].chain = walk.chain /\ nodes'[r] # Unknown
        BY <1>8, <1>11, <4>1 DEF Known
      <4>3. <<nodes'[r].chain, PrivData(nodes'[r].key, j)>> = q BY <4>1, <4>2
      <4> HIDE DEF q
      <4>4. nodes'[Append(r, j)] = [key |-> ChildKey(nodes'[r].key, hmac'[q]), chain |-> hmac'[q].chain]
        BY <1>3, <1>9, <3>2, <4>2 DEF new, k
      <4> QED BY <1>2, <1>3, <4>2, <4>3, <4>4 DEF ChildInv, Known
    <3> QED BY <3>1, <3>2
  <2> QED BY <2>1, <2>2 DEF NodesInv
<1>13. walk'.path = walk.path /\ walk'.at = walk.at + 1 /\ walk'.key = k /\ walk'.chain = d.chain
       /\ walk' \in [path : Paths, at : Nat, key : Nat, chain : Chain]
  <2>1. walk.at + 1 \in Nat BY <1>4
  <2>2. k \in Nat /\ d.chain \in Chain BY <1>6, DigestNodes
  <2> QED BY <1>2, <1>4, <2>1, <2>2
<1>14. WalkInv'
  <2>1. Here' = child BY <1>5, <1>13 DEF Here
  <2> QED BY <1>4, <1>5, <1>9, <1>13, <2>1 DEF WalkInv, new
<1>15. ExportInv' BY <1>1, <1>2, <1>10, RootPrefix DEF ExportInv, Known
<1>16. GatewayInv' BY <1>1, <1>2, <1>3, GatewayKept
<1>17. TypeOK'
  <2>1. nodes' \in [Prefixes -> Node \cup {Unknown}] BY <1>1, <1>2, <1>7 DEF TypeOK
  <2>2. \A r \in Prefixes : r # <<>> => nodes'[r].key < Order
    <3>1. new.key < Order
      <4>1. Order \in Nat BY GroupAssumption
      <4> QED BY <1>6, <4>1 DEF new
    <3> QED BY <1>1, <1>9, <3>1 DEF TypeOK
  <2>3. walk'.at <= Len(walk'.path) BY <1>5, <1>13
  <2> QED BY <1>1, <1>2, <1>3, <1>13, <2>1, <2>2, <2>3 DEF TypeOK
<1> QED BY <1>12, <1>14, <1>15, <1>16, <1>17 DEF Inv

LEMMA WalkEnds ==
    ASSUME Inv, WalkRaises \/ Export \/ KeyDerived
    PROVE  Inv'
<1>1. /\ TypeOK /\ NodesInv /\ WalkInv /\ ExportInv /\ GatewayInv BY DEF Inv
<1>2. /\ walk # NoWalk /\ walk' = NoWalk
      /\ UNCHANGED <<hmac, nodes, xpub, order, address, refused>>
      /\ exported \subseteq exported'
  BY DEF WalkRaises, Export, KeyDerived
<1>3. Grows BY <1>2 DEF Grows
<1>4. NodesInv'
  <2>1. SeedInv' BY <1>1, <1>2 DEF NodesInv, SeedInv, Known
  <2>2. \A r \in Prefixes, i \in Nat : Append(r, i) \in Prefixes => ChildInv(r, i)'
    BY <1>1, <1>2 DEF NodesInv, ChildInv, Known
  <2> QED BY <2>1, <2>2 DEF NodesInv
<1>5. WalkInv' BY <1>2 DEF WalkInv
<1>6. GatewayInv' BY <1>1, <1>2, <1>3, GatewayKept
<1>7. ASSUME NEW x \in exported', x \notin exported
      PROVE  /\ Known(AccountPath) /\ HasPublicKey(nodes[AccountPath].key)
             /\ x.key = PublicKey(nodes[AccountPath].key) /\ x.chain = nodes[AccountPath].chain
             /\ x.key \in {Compress(pt) : pt \in Points} /\ x.chain \in Chain
  <2>1. /\ walk.path = AccountPath /\ walk.at = Len(walk.path) /\ HasPublicKey(walk.key)
        /\ x = Serialized(PublicKey(walk.key), walk.chain)
    BY <1>7 DEF WalkRaises, Export, KeyDerived
  <2>2. /\ walk \in [path : Paths, at : Nat, key : Nat, chain : Chain]
        /\ [key |-> walk.key, chain |-> walk.chain] \in Node
    BY <1>1, <1>2, WalkTypes
  <2>3. Here = AccountPath
    BY <2>1, <2>2, PrefixesOfPaths, PathsAreSequences DEF Here
  <2>4. nodes[AccountPath] = [key |-> walk.key, chain |-> walk.chain]
    BY <1>1, <1>2, <2>3 DEF WalkInv
  <2>5. PublicPoint(walk.key) \in Points
    BY <2>1, <2>2, PublicPoints DEF HasPublicKey
  <2> QED BY <2>1, <2>2, <2>4, <2>5, UnknownIsNoNode DEF Serialized, Known, PublicKey
<1>8. ExportInv' BY <1>1, <1>2, <1>7 DEF ExportInv, Known
<1>9. TypeOK'
  <2>1. \A x \in exported' : x.key \in {Compress(pt) : pt \in Points} /\ x.chain \in Chain
    BY <1>1, <1>7 DEF TypeOK
  <2> QED BY <1>1, <1>2, <2>1 DEF TypeOK
<1> QED BY <1>4, <1>5, <1>6, <1>8, <1>9 DEF Inv

-----------------------------------------------------------------------------
(* One step of the gateway *)

LEMMA SetXpubStep ==
    ASSUME Inv, NEW x \in exported \cup Foreign, SetXpub(x)
    PROVE  Inv'
<1>1. /\ TypeOK /\ NodesInv /\ WalkInv /\ ExportInv /\ GatewayInv BY DEF Inv
<1>2. xpub = NoXpub /\ xpub' = x /\ UNCHANGED <<hmac, walk, nodes, exported, order, address, refused>>
  BY DEF SetXpub
<1>3. Grows BY <1>2 DEF Grows
<1>4. NodesInv' /\ WalkInv' /\ ExportInv' BY <1>1, <1>2, <1>3, WalletKept
<1>5. OrderInv' BY <1>1, <1>2 DEF GatewayInv, OrderInv, RightOrder
<1>6. AddressInv' BY <1>1, <1>2 DEF GatewayInv, AddressInv, RightAddress
<1>7. RefusedInv' BY <1>1, <1>2 DEF GatewayInv, RefusedInv, RightRefusal
<1>8. TypeOK' BY <1>1, <1>2 DEF TypeOK
<1> QED BY <1>4, <1>5, <1>6, <1>7, <1>8 DEF Inv, GatewayInv

LEMMA DeriveChangeStep ==
    ASSUME Inv, NEW i \in Indices, NEW d \in Digests, DeriveChange(i, d)
    PROVE  Inv'
<1>1. /\ TypeOK /\ NodesInv /\ WalkInv /\ ExportInv /\ GatewayInv BY DEF Inv
<1>2. /\ xpub # NoXpub /\ order = NoOrder
      /\ Hashes(xpub.chain, PublicData(xpub.key, 0), d)
      /\ IF Raises(xpub.key, d)
         THEN refused' = refused \cup {i} /\ UNCHANGED order
         ELSE /\ order' = [index |-> i, key |-> Compress(ChildPoint(xpub.key, d)),
                           chain |-> d.chain]
              /\ UNCHANGED refused
      /\ UNCHANGED <<walk, nodes, exported, xpub, address>>
  BY DEF DeriveChange
<1>3. /\ Grows /\ ChangeQuery' \in DOMAIN hmac' /\ hmac'[ChangeQuery'] = d
      /\ \A r \in DOMAIN hmac' : hmac'[r] \in Digests
  BY <1>1, <1>2, HashesGrow DEF ChangeQuery
<1>4. NodesInv' /\ WalkInv' /\ ExportInv' BY <1>1, <1>2, <1>3, WalletKept
<1>5. AddressInv' BY <1>1, <1>2, <1>3, AddressesKept DEF GatewayInv
<1>6. \A j \in refused : RightRefusal(j)' BY <1>1, <1>2, <1>3, RefusalsKept DEF GatewayInv
<1>7. CASE Raises(xpub.key, d)
  <2>1. refused' = refused \cup {i} /\ order' = NoOrder BY <1>2, <1>7
  <2>2. RightRefusal(i)' BY <1>2, <1>3, <1>7 DEF RightRefusal
  <2>3. GatewayInv' BY <1>5, <1>6, <2>1, <2>2 DEF GatewayInv, RefusedInv, OrderInv
  <2>4. TypeOK' BY <1>1, <1>2, <1>3, <2>1 DEF TypeOK
  <2> QED BY <1>4, <2>3, <2>4 DEF Inv
<1>8. CASE ~Raises(xpub.key, d)
  <2>1. /\ order' = [index |-> i, key |-> Compress(ChildPoint(xpub.key, d)), chain |-> d.chain]
        /\ refused' = refused
    BY <1>2, <1>8
  <2>2. OrderInv' BY <1>2, <1>3, <1>8, <2>1 DEF OrderInv, RightOrder, ChangeDone, ChangeKey
  <2>3. GatewayInv' BY <1>5, <1>6, <2>1, <2>2 DEF GatewayInv, RefusedInv
  <2>4. TypeOK' BY <1>1, <1>2, <1>3, <2>1 DEF TypeOK
  <2> QED BY <1>4, <2>3, <2>4 DEF Inv
<1> QED BY <1>7, <1>8

LEMMA RefuseHardenedStep ==
    ASSUME Inv, RefuseHardened
    PROVE  Inv'
<1>1. /\ TypeOK /\ NodesInv /\ WalkInv /\ ExportInv /\ GatewayInv BY DEF Inv
<1>2. /\ order # NoOrder /\ order.index >= Hardened
      /\ refused' = refused \cup {order.index} /\ order' = NoOrder
      /\ UNCHANGED <<hmac, walk, nodes, exported, xpub, address>>
  BY DEF RefuseHardened, Undefined
<1>3. Grows BY <1>2 DEF Grows
<1>4. NodesInv' /\ WalkInv' /\ ExportInv' BY <1>1, <1>2, <1>3, WalletKept
<1>5. AddressInv' BY <1>1, <1>2, <1>3, AddressesKept DEF GatewayInv
<1>6. \A j \in refused : RightRefusal(j)' BY <1>1, <1>2, <1>3, RefusalsKept DEF GatewayInv
<1>7. order.index \in Indices BY <1>1, <1>2 DEF GatewayInv, OrderInv, RightOrder
<1>8. ~(order.index < Hardened)
  <2>1. order.index \in Nat /\ Hardened \in Nat BY <1>7, DigestAssumption
  <2> QED BY <1>2, <2>1
<1> QED
  <2>1. RefusedInv' BY <1>2, <1>6, <1>8 DEF RefusedInv, RightRefusal
  <2>2. OrderInv' BY <1>2 DEF OrderInv
  <2>3. TypeOK' BY <1>1, <1>2, <1>7 DEF TypeOK, NoOrder
  <2> QED BY <1>4, <1>5, <2>1, <2>2, <2>3 DEF Inv, GatewayInv

LEMMA DeriveAddressStep ==
    ASSUME Inv, NEW d \in Digests, DeriveAddress(d)
    PROVE  Inv'
<1> DEFINE i == order.index
           q == AddressQuery(i)
<1>1. /\ TypeOK /\ NodesInv /\ WalkInv /\ ExportInv /\ GatewayInv BY DEF Inv
<1>2. /\ order # NoOrder /\ ~(i >= Hardened)
      /\ Hashes(order.chain, PublicData(order.key, i), d)
      /\ IF Raises(order.key, d)
         THEN refused' = refused \cup {i} /\ UNCHANGED address
         ELSE /\ address' = [address EXCEPT ![i] =
                                  AddressOf(Compress(ChildPoint(order.key, d)))]
              /\ UNCHANGED refused
      /\ order' = NoOrder
      /\ UNCHANGED <<walk, nodes, exported, xpub>>
  BY DEF DeriveAddress, Undefined
<1>3. /\ xpub # NoXpub /\ ChangeDone /\ i \in Indices
      /\ order.key = ChangeKey /\ order.chain = hmac[ChangeQuery].chain
  BY <1>1, <1>2 DEF GatewayInv, OrderInv, RightOrder
<1> HIDE DEF i
<1>4. q = <<order.chain, PublicData(order.key, i)>> BY <1>3 DEF AddressQuery
<1>5. /\ Grows /\ q \in DOMAIN hmac' /\ hmac'[q] = d
      /\ \A r \in DOMAIN hmac' : hmac'[r] \in Digests
  BY <1>1, <1>2, <1>4, HashesGrow
<1> HIDE DEF q
<1>6. /\ ChangeQuery' = ChangeQuery /\ ChangeQuery' \in DOMAIN hmac'
      /\ hmac'[ChangeQuery'] = hmac[ChangeQuery]
      /\ ChangeKey' = ChangeKey /\ ChangeDone'
  BY <1>2, <1>3, <1>5 DEF Grows, ChangeQuery, ChangeKey, ChangeDone
<1>7. \A j : AddressQuery(j)' = AddressQuery(j) BY <1>6 DEF AddressQuery
<1>8. NodesInv' /\ WalkInv' /\ ExportInv' BY <1>1, <1>2, <1>5, WalletKept
<1>9. OrderInv' BY <1>2 DEF OrderInv
<1>10. \A j \in refused : RightRefusal(j)' BY <1>1, <1>2, <1>5, RefusalsKept DEF GatewayInv
<1>11. i < Hardened
  <2>1. i \in Nat /\ Hardened \in Nat BY <1>3, DigestAssumption
  <2> QED BY <1>2, <2>1
<1>12. CASE Raises(order.key, d)
  <2>1. refused' = refused \cup {i} /\ address' = address BY <1>2, <1>12
  <2>2. AddressInv' BY <1>1, <1>2, <1>5, <2>1, AddressesKept DEF GatewayInv
  <2>3. ASSUME NEW j, j = i PROVE RightRefusal(j)'
    <3>1. AddressQuery(j)' = q BY <1>7, <2>3 DEF q
    <3>2. Raises(ChangeKey', hmac'[AddressQuery(j)']) BY <1>3, <1>5, <1>6, <1>12, <3>1
    <3>3. ~Raises(xpub'.key, hmac'[ChangeQuery']) BY <1>6 DEF ChangeDone
    <3> QED BY <1>2, <1>3, <1>5, <1>6, <3>1, <3>2, <3>3 DEF RightRefusal
  <2>4. RefusedInv' BY <1>10, <2>1, <2>3 DEF RefusedInv
  <2>5. TypeOK' BY <1>1, <1>2, <1>3, <1>5, <2>1 DEF TypeOK, NoOrder
  <2> QED BY <1>8, <1>9, <2>2, <2>4, <2>5 DEF Inv, GatewayInv
<1>13. CASE ~Raises(order.key, d)
  <2> DEFINE pt == AddressOf(Compress(ChildPoint(order.key, d)))
  <2>1. /\ address' = [address EXCEPT ![i] = pt] /\ refused' = refused BY <1>2, <1>13
  <2>2. DOMAIN address = Indices BY <1>1 DEF TypeOK
  <2>3. address'[i] = pt /\ \A j \in Indices : j # i => address'[j] = address[j]
    BY <1>3, <2>1, <2>2
  <2>4. ASSUME NEW j, j = i PROVE RightAddress(j, address[j])'
    <3>1. AddressQuery(j)' = q BY <1>7, <2>4 DEF q
    <3>2. ~Raises(ChangeKey', hmac'[AddressQuery(j)']) BY <1>3, <1>5, <1>6, <1>13, <3>1
    <3>3. address'[j] = AddressOf(Compress(ChildPoint(ChangeKey', hmac'[AddressQuery(j)'])))
      BY <1>3, <1>5, <1>6, <2>3, <2>4, <3>1
    <3> QED BY <1>2, <1>3, <1>5, <1>6, <1>11, <2>4, <3>1, <3>2, <3>3 DEF RightAddress
  <2>5. ASSUME NEW j \in Indices, address'[j] # Infinity PROVE RightAddress(j, address[j])'
    <3>1. CASE j = i BY <2>4, <3>1
    <3>2. CASE j # i
      <4>1. address'[j] = address[j] BY <2>3, <3>2
      <4>2. RightAddress(j, address[j]) BY <1>1, <2>5, <4>1 DEF GatewayInv, AddressInv
      <4> QED BY <1>2, <1>5, <4>1, <4>2, RightKept DEF RightAddress
    <3> QED BY <3>1, <3>2
  <2>8. AddressInv' BY <2>5 DEF AddressInv
  <2>6. RefusedInv' BY <1>10, <2>1 DEF RefusedInv
  <2>7. TypeOK' BY <1>1, <1>2, <1>5, <2>1, <2>2 DEF TypeOK, NoOrder
  <2> QED BY <1>8, <1>9, <2>6, <2>7, <2>8 DEF Inv, GatewayInv
<1> QED BY <1>12, <1>13

-----------------------------------------------------------------------------

LEMMA InitInv == Init => Inv
<1> SUFFICES ASSUME Init PROVE Inv
  OBVIOUS
<1>1. /\ hmac = << >> /\ walk = NoWalk /\ nodes = [p \in Prefixes |-> Unknown] /\ exported = {}
      /\ xpub = NoXpub /\ order = NoOrder /\ address = [i \in Indices |-> Infinity] /\ refused = {}
  BY DEF Init
<1>2. \A p \in Prefixes : ~Known(p) BY <1>1 DEF Known
<1>3. NodesInv BY <1>2, RootPrefix DEF NodesInv, SeedInv, ChildInv
<1>4. WalkInv /\ ExportInv BY <1>1 DEF WalkInv, ExportInv
<1>5. GatewayInv BY <1>1 DEF GatewayInv, OrderInv, AddressInv, RefusedInv
<1>6. TypeOK
  <2>1. DOMAIN hmac = {} BY <1>1
  <2>2. \A p \in Prefixes : nodes[p].key < Order
    <3>1. Order \in Nat BY GroupAssumption
    <3>2. \A p \in Prefixes : nodes[p].key = -1 BY <1>1 DEF Unknown
    <3> QED BY <3>1, <3>2
  <2> QED BY <1>1, <2>1, <2>2 DEF TypeOK, NoOrder
<1> QED BY <1>3, <1>4, <1>5, <1>6 DEF Inv

LEMMA NextInv == Inv /\ [Next]_vars => Inv'
<1> SUFFICES ASSUME Inv, [Next]_vars PROVE Inv'
  OBVIOUS
<1>1. CASE Next
  BY <1>1, StartWalkStep, DescendStep, WalkEnds, SetXpubStep, DeriveChangeStep,
     RefuseHardenedStep, DeriveAddressStep DEF Next
<1>2. CASE UNCHANGED vars
  <2>1. UNCHANGED <<hmac, walk, nodes, exported, xpub, order, address, refused>>
    BY <1>2 DEF vars
  <2>2. Grows BY <2>1 DEF Grows
  <2>3. NodesInv' /\ WalkInv' /\ ExportInv' BY <2>1, <2>2, WalletKept DEF Inv
  <2>4. GatewayInv' BY <2>1, <2>2, GatewayKept DEF Inv
  <2>5. TypeOK' BY <2>1 DEF Inv, TypeOK
  <2> QED BY <2>3, <2>4, <2>5 DEF Inv
<1> QED BY <1>1, <1>2

LEMMA Invariance == Spec => []Inv
BY InitInv, NextInv, PTL DEF Spec

(* Types; below the seed every private key is a number below the order.    *)
THEOREM TypeCorrect == Spec => []TypeOK
<1>1. Inv => TypeOK BY DEF Inv
<1> QED BY <1>1, Invariance, PTL

(* Both sides at an order's index: the wallet's node there and the keys    *)
(* the gateway passes through come of the same answers of HMAC.            *)
LEMMA SidesMeet ==
    ASSUME Inv, xpub \in exported, NEW i \in Indices, i < Hardened, Known(SpendPath(i))
    PROVE  LET k == nodes[Append(AccountPath, 0)].key IN
           /\ ChangeDone /\ ChangeKey = PublicKey(k) /\ k \in Nat /\ HasPublicKey(k)
           /\ AddressQuery(i) \in DOMAIN hmac
           /\ hmac[AddressQuery(i)] \in Digests
           /\ nodes[SpendPath(i)].key = ChildKey(k, hmac[AddressQuery(i)])
<1> DEFINE A == AccountPath
           C == Append(A, 0)
           a == nodes[A].key
           k == nodes[C].key
<1>1. /\ SpendPath(i) = Append(C, i) /\ A \in Prefixes /\ C \in Prefixes /\ Append(C, i) \in Prefixes
      /\ i \in Nat /\ 0 \in Nat /\ Hardened \in Nat /\ ~(i >= Hardened) /\ ~(0 >= Hardened)
  <2>1. i \in Nat /\ Hardened \in Nat /\ Hardened # 0 BY DigestAssumption
  <2>2. ~(i >= Hardened) /\ ~(0 >= Hardened) BY <2>1
  <2>3. /\ SpendPath(i) = Append(C, i) /\ A \in Prefixes /\ C \in Prefixes
        /\ Append(C, i) \in Prefixes
    BY SpendPaths
  <2> QED BY <2>1, <2>2, <2>3
<1>2. /\ ChildInv(C, i) /\ ChildInv(A, 0) BY <1>1 DEF Inv, NodesInv
<1>3. /\ Known(C) /\ HasPublicKey(k)
      /\ <<nodes[C].chain, PrivData(k, i)>> \in DOMAIN hmac
      /\ nodes[Append(C, i)].key = ChildKey(k, hmac[<<nodes[C].chain, PrivData(k, i)>>])
  BY <1>1, <1>2 DEF ChildInv
<1>4. /\ xpub.key = PublicKey(a) /\ xpub.chain = nodes[A].chain /\ HasPublicKey(a)
  BY DEF Inv, ExportInv
<1>5. PrivData(a, 0) = PublicData(PublicKey(a), 0) /\ PrivData(k, i) = PublicData(PublicKey(k), i)
  BY <1>1 DEF PrivData
<1>6. ChangeQuery = <<nodes[A].chain, PrivData(a, 0)>> BY <1>4, <1>5 DEF ChangeQuery
<1>7. /\ Known(A) /\ ChangeQuery \in DOMAIN hmac
      /\ k = ChildKey(a, hmac[ChangeQuery]) /\ nodes[C].chain = hmac[ChangeQuery].chain
  BY <1>2, <1>3, <1>6 DEF ChildInv
<1>8. a \in Nat /\ k \in Nat BY <1>1, <1>3, <1>7 DEF Inv, TypeOK, Node, Known
<1>9. hmac[ChangeQuery] \in Digests BY <1>7 DEF Inv, TypeOK
<1> HIDE DEF A, C, a, k
<1>10. /\ ChildPoint(PublicKey(a), hmac[ChangeQuery]) = PublicPoint(k)
       /\ ~Raises(PublicKey(a), hmac[ChangeQuery])
  BY <1>3, <1>4, <1>7, <1>8, <1>9, ChildrenAgree
<1>11. ChangeDone /\ ChangeKey = PublicKey(k)
  BY <1>4, <1>7, <1>10 DEF ChangeDone, ChangeKey, PublicKey
<1>12. AddressQuery(i) = <<nodes[C].chain, PrivData(k, i)>>
  BY <1>5, <1>7, <1>11 DEF AddressQuery
<1>13. AddressQuery(i) \in DOMAIN hmac /\ nodes[SpendPath(i)].key = ChildKey(k, hmac[AddressQuery(i)])
  BY <1>1, <1>3, <1>12
<1>14. hmac[AddressQuery(i)] \in Digests BY <1>13 DEF Inv, TypeOK
<1> QED BY <1>3, <1>8, <1>11, <1>13, <1>14 DEF k, C, A

(* The address of an order is that of the private key the wallet derives   *)
(* at the order's index.                                                   *)
THEOREM WatchOnlyIsSound == Spec => []AddressesAreSpendable
<1>1. Inv => AddressesAreSpendable
  <2> SUFFICES ASSUME Inv, NEW i \in Indices, xpub \in exported, address[i] # Infinity,
                      nodes[SpendPath(i)] # Unknown
               PROVE  address[i] = PublicPoint(nodes[SpendPath(i)].key)
    BY DEF AddressesAreSpendable
  <2> DEFINE k == nodes[Append(AccountPath, 0)].key
             d == hmac[AddressQuery(i)]
  <2>1. /\ i < Hardened /\ ~Raises(ChangeKey, d)
        /\ address[i] = AddressOf(Compress(ChildPoint(ChangeKey, d)))
    BY DEF Inv, GatewayInv, AddressInv, RightAddress
  <2>2. /\ ChangeKey = PublicKey(k) /\ k \in Nat /\ HasPublicKey(k) /\ d \in Digests
        /\ nodes[SpendPath(i)].key = ChildKey(k, d)
    BY <2>1, SidesMeet DEF Known
  <2> HIDE DEF k, d
  <2>3. /\ ChildPoint(ChangeKey, d) = PublicPoint(ChildKey(k, d))
        /\ HasPublicKey(ChildKey(k, d))
    BY <2>1, <2>2, ChildrenAgree
  <2>4. PublicPoint(ChildKey(k, d)) \in Points
    <3>1. ChildKey(k, d) \in Nat
      <4>1. ChildKey(k, d) \in 0..(Order - 1) /\ Order \in Nat BY <2>2, ChildKeys, GroupAssumption
      <4> QED BY <4>1
    <3> QED BY <2>3, <3>1, PublicPoints DEF HasPublicKey
  <2> QED BY <2>1, <2>2, <2>3, <2>4, RoundTrip DEF AddressOf
<1> QED BY <1>1, Invariance, PTL

(* The gateway refuses no index at which the wallet has a usable key.      *)
THEOREM WatchOnlyIsComplete == Spec => []RefusedForCause
<1>1. Inv => RefusedForCause
  <2> SUFFICES ASSUME Inv, NEW i \in refused, xpub \in exported, i < Hardened,
                      nodes[SpendPath(i)] # Unknown
               PROVE  ~HasPublicKey(nodes[SpendPath(i)].key)
    BY DEF RefusedForCause
  <2> DEFINE k == nodes[Append(AccountPath, 0)].key
             d == hmac[AddressQuery(i)]
  <2>1. i \in Indices BY DEF Inv, TypeOK
  <2>2. /\ ChangeDone /\ ChangeKey = PublicKey(k) /\ k \in Nat /\ HasPublicKey(k) /\ d \in Digests
        /\ nodes[SpendPath(i)].key = ChildKey(k, d)
    BY <2>1, SidesMeet DEF Known
  <2>3. Raises(ChangeKey, d)
    BY <2>2 DEF Inv, GatewayInv, RefusedInv, RightRefusal, ChangeDone
  <2> HIDE DEF k, d
  <2> QED BY <2>2, <2>3, ChildrenAgree
<1> QED BY <1>1, Invariance, PTL

(* No address off the curve, whatever xpub was accepted.                   *)
THEOREM NoAddressOffTheCurve == Spec => []AddressesAreOnTheCurve
<1>1. Inv => AddressesAreOnTheCurve
  <2> SUFFICES ASSUME Inv, NEW i \in Indices, address[i] # Infinity
               PROVE  address[i] \in Points
    BY DEF AddressesAreOnTheCurve
  <2> DEFINE c == hmac[ChangeQuery]
             d == hmac[AddressQuery(i)]
  <2>1. /\ xpub # NoXpub /\ ChangeQuery \in DOMAIN hmac /\ ~Raises(xpub.key, c)
        /\ AddressQuery(i) \in DOMAIN hmac /\ ~Raises(ChangeKey, d)
        /\ address[i] = AddressOf(Compress(ChildPoint(ChangeKey, d)))
    BY DEF Inv, GatewayInv, AddressInv, RightAddress, ChangeDone
  <2>2. c \in Digests /\ d \in Digests BY <2>1 DEF Inv, TypeOK
  <2>3. xpub.key.x \in 0..(Prime - 1)
    <3>1. CASE xpub \in Foreign BY <3>1, DigestAssumption
    <3>2. CASE xpub \in exported
      <4>1. PICK pt \in Points : xpub.key = Compress(pt) BY <3>2 DEF Inv, TypeOK
      <4> QED BY <4>1, PointsHaveCoordinates DEF Compress
    <3> QED BY <2>1, <3>1, <3>2 DEF Inv, TypeOK
  <2>4. ChildPoint(xpub.key, c) \in Points BY <2>1, <2>2, <2>3, ChildOnCurve
  <2>5. ChangeKey.x \in 0..(Prime - 1)
    BY <2>4, PointsHaveCoordinates DEF ChangeKey, Compress
  <2>6. ChildPoint(ChangeKey, d) \in Points BY <2>1, <2>2, <2>5, ChildOnCurve
  <2> QED BY <2>1, <2>6, RoundTrip DEF AddressOf
<1> QED BY <1>1, Invariance, PTL
=============================================================================
