------------------------ MODULE MerchantAccountProofs -----------------------
(***************************************************************************)
(* Theorems about MerchantAccount, for any number of request sessions and  *)
(* any bounds: derivation indices are unique and the secret in force is    *)
(* the last one whatever overlaps; the volume is exact unless a crowded    *)
(* session begins a cycle; the count, the quota and the mode are right as  *)
(* long as nothing overlaps.                                               *)
(***************************************************************************)
EXTENDS MerchantAccount, TLAPS

-----------------------------------------------------------------------------
(* What the handlers do to a row *)

LEMMA WrittenFacts ==
    ASSUME NEW old \in RowType, NEW new \in RowType, NEW r \in RowType
    PROVE  /\ Written(old, new, r) \in RowType
           /\ Written(old, new, r).index = IF new.index = old.index THEN r.index ELSE new.index
           /\ Written(old, new, r).count = IF new.count = old.count THEN r.count ELSE new.count
           /\ Written(old, new, r).resetAt =
                  IF new.resetAt = old.resetAt THEN r.resetAt ELSE new.resetAt
           /\ Written(old, new, r).secret = IF new.secret = old.secret THEN r.secret ELSE new.secret
           /\ Written(old, new, r).volume = IF new.volume = old.volume THEN r.volume ELSE new.volume
           /\ Written(old, new, r).mode = IF new.mode = old.mode THEN r.mode ELSE new.mode
           /\ Written(old, new, r).plan = IF new.plan = old.plan THEN r.plan ELSE new.plan
<1> DEFINE i == IF new.index = old.index THEN r.index ELSE new.index
           c == IF new.count = old.count THEN r.count ELSE new.count
           m == IF new.mode = old.mode THEN r.mode ELSE new.mode
           p == IF new.pending = old.pending THEN r.pending ELSE new.pending
           t == IF new.resetAt = old.resetAt THEN r.resetAt ELSE new.resetAt
           v == IF new.volume = old.volume THEN r.volume ELSE new.volume
           l == IF new.plan = old.plan THEN r.plan ELSE new.plan
           k == IF new.secret = old.secret THEN r.secret ELSE new.secret
<1>1. /\ i \in Nat /\ c \in Nat /\ m \in Modes /\ p \in Modes \cup {"none"}
      /\ t \in Nat /\ v \in Nat /\ l \in {"free", "pro"} /\ k \in Nat
  BY DEF RowType
<1>2. Written(old, new, r) = [r EXCEPT !.index = i, !.count = c, !.mode = m, !.pending = p,
                                       !.resetAt = t, !.volume = v, !.plan = l, !.secret = k]
  BY DEF Written
<1> HIDE DEF i, c, m, p, t, v, l, k
<1>3. /\ Written(old, new, r) \in RowType
      /\ Written(old, new, r).index = i
      /\ Written(old, new, r).count = c
      /\ Written(old, new, r).resetAt = t
      /\ Written(old, new, r).secret = k
      /\ Written(old, new, r).volume = v
      /\ Written(old, new, r).mode = m
      /\ Written(old, new, r).plan = l
  BY <1>1, <1>2 DEF RowType
<1> QED BY <1>3 DEF i, c, m, t, v, l, k

LEMMA RolledOverFacts ==
    ASSUME NEW r \in RowType, clock \in Nat
    PROVE  /\ RolledOver(r) \in RowType
           /\ RolledOver(r).index = r.index
           /\ RolledOver(r).count = 0
           /\ RolledOver(r).resetAt = clock + CycleLength
           /\ RolledOver(r).secret = r.secret
<1> DEFINE m == IF r.pending = "none" THEN r.mode ELSE r.pending
           p == "none"
           c == 0
           v == 0
           t == clock + CycleLength
<1>1. m \in Modes /\ p \in Modes \cup {"none"} /\ c \in Nat /\ v \in Nat /\ t \in Nat
  BY BillingAssumption DEF RowType
<1>2. RolledOver(r) = [r EXCEPT !.mode = m, !.pending = p, !.count = c, !.volume = v,
                                !.resetAt = t]
  BY Zenon DEF RolledOver
<1> HIDE DEF m, p, c, v, t
<1>3. /\ RolledOver(r) \in RowType
      /\ RolledOver(r).index = r.index
      /\ RolledOver(r).count = c
      /\ RolledOver(r).resetAt = t
      /\ RolledOver(r).secret = r.secret
  BY <1>1, <1>2 DEF RowType
<1> QED BY <1>3 DEF c, t

LEMMA LapsedFacts ==
    ASSUME NEW r \in RowType
    PROVE  /\ Lapsed(r) \in RowType
           /\ Lapsed(r).index = r.index
           /\ Lapsed(r).count = r.count
           /\ Lapsed(r).resetAt = r.resetAt
           /\ Lapsed(r).secret = r.secret
           /\ Lapsed(r).mode = r.mode
BY DEF Lapsed, RowType

(* Bringing the cycle up to date either leaves the count and the reset      *)
(* instant alone, or zeroes the one and moves the other on.                 *)
LEMMA CurrentFacts ==
    ASSUME NEW r \in RowType, clock \in Nat
    PROVE  /\ Current(r) \in RowType
           /\ Current(r).index = r.index
           /\ Current(r).secret = r.secret
           /\ \/ /\ Current(r).count = r.count /\ Current(r).resetAt = r.resetAt
                 /\ Current(r).mode = r.mode
              \/ Current(r).count = 0 /\ Current(r).resetAt > r.resetAt
<1>1. CASE CycleOver(r)
  <2>1. r.resetAt \in Nat BY DEF RowType
  <2>2. clock + CycleLength > r.resetAt
    BY <1>1, <2>1, BillingAssumption DEF CycleOver
  <2>3. Current(r) = Lapsed(RolledOver(r)) BY <1>1 DEF Current
  <2> QED BY <2>2, <2>3, RolledOverFacts, LapsedFacts
<1>2. CASE ~CycleOver(r)
  <2>1. Current(r) = Lapsed(r) BY <1>2 DEF Current
  <2> QED BY <2>1, LapsedFacts
<1> QED BY <1>1, <1>2

LEMMA WithModeFacts ==
    ASSUME NEW r \in RowType, NEW mode \in Modes
    PROVE  /\ WithMode(r, mode) \in RowType
           /\ WithMode(r, mode).index = r.index
           /\ WithMode(r, mode).count = r.count
           /\ WithMode(r, mode).resetAt = r.resetAt
           /\ WithMode(r, mode).secret = r.secret
BY DEF WithMode, RowType, Modes

LEMMA WithSecretFacts ==
    ASSUME NEW r \in RowType, NEW n \in Nat
    PROVE  /\ WithSecret(r, n) \in RowType
           /\ WithSecret(r, n).index = r.index
           /\ WithSecret(r, n).count = r.count
           /\ WithSecret(r, n).resetAt = r.resetAt
           /\ WithSecret(r, n).secret = n
BY DEF WithSecret, RowType

LEMMA FreshType ==
    ASSUME NEW p \in {"free", "pro"}, NEW e \in Nat
    PROVE  Fresh(p, e) \in RowType
BY DEF Fresh, RowType, Modes

LEMMA ClosedType == Closed \in RowType
BY FreshType DEF Closed

LEMMA LatestType ==
    ASSUME TypeOK, NEW s \in Sessions
    PROVE  Latest(s) \in RowType
BY DEF TypeOK, Latest

-----------------------------------------------------------------------------
(* The inductive invariant behind unique indices.  Only the holder of the  *)
(* row's lock has an index that is not committed, it is above every index  *)
(* committed, and no other session would write an index at all.            *)

IndexSpent == \A o \in orders : o.index < row.index

LockAhead == holder # Nobody => work.index >= row.index

ReservedIsOurs ==
    \A s \in Sessions : pc[s] = "reserved" =>
        /\ holder = s
        /\ work.index = cur[s].index
        /\ cur[s].index > row.index

IndexUntouched == \A s \in Sessions : base[s].index = cur[s].index

PollerOnlyLoads == pc[Poller] \in {"closed", "loaded"}

Indexed == IndexSpent /\ LockAhead /\ ReservedIsOurs /\ IndexUntouched /\ PollerOnlyLoads

-----------------------------------------------------------------------------
(* Types *)

LEMMA InitType == Init => TypeOK
<1> SUFFICES ASSUME Init PROVE TypeOK
  OBVIOUS
<1>1. row \in RowType
  BY FreshType, BillingAssumption DEF Init
<1> QED BY <1>1, ClosedType DEF Init, TypeOK

LEMMA CommittedType ==
    ASSUME TypeOK, NEW s \in Sessions, NEW r \in RowType, NEW created \in Nat,
           Committed(s, r, created)
    PROVE  row' \in RowType /\ made' \in Nat /\ billed' \in Nat /\ credited' \in Nat
           /\ staleRoll' \in BOOLEAN
<1>1. row' \in RowType BY DEF Committed
<1>2. made' \in Nat /\ billed' \in Nat /\ credited' \in Nat
  BY DEF Committed, TypeOK
<1>3. staleRoll' \in BOOLEAN
  BY Zenon DEF Committed, TypeOK
<1> QED BY <1>1, <1>2, <1>3

LEMMA CloseType ==
    ASSUME TypeOK, NEW s \in Sessions, Close(s)
    PROVE  /\ holder' \in Sessions \cup {Nobody} /\ work' \in RowType
           /\ pc' \in [Sessions -> {"closed", "loaded", "reserving", "reserved"}]
           /\ base' \in [Sessions -> RowType] /\ cur' \in [Sessions -> RowType]
           /\ crowded' \subseteq Sessions
BY ClosedType DEF Close, ReleaseLock, TypeOK

LEMMA NextType == TypeOK /\ Indexed /\ [Next]_vars => TypeOK'
<1> SUFFICES ASSUME TypeOK, Indexed, [Next]_vars PROVE TypeOK'
  OBVIOUS
<1>1. CASE Tick
  BY <1>1 DEF Tick, TypeOK, history
<1>2. ASSUME NEW s \in Sessions, Load(s) PROVE TypeOK'
  <2>1. overlapped' \in BOOLEAN BY <1>2, Zenon DEF Load, TypeOK
  <2>2. crowded' \subseteq Sessions BY <1>2 DEF Load, TypeOK, OpenBeside
  <2> QED BY <1>2, <2>1, <2>2 DEF Load, TypeOK
<1>3. ASSUME NEW s \in Sessions, Abort(s) PROVE TypeOK'
  <2>1. Close(s) BY <1>3 DEF Abort
  <2>2. credited' \in Nat BY <1>3 DEF Abort, TypeOK
  <2>3. UNCHANGED <<clock, row, orders, placed, made, credits, billed, overlapped, staleRoll, rotations>>
    BY <1>3 DEF Abort
  <2> QED BY <2>1, <2>2, <2>3, CloseType DEF TypeOK
<1>4. ASSUME NEW s \in Sessions, Refuse(s) PROVE TypeOK'
  <2>1. Close(s) BY <1>4 DEF Refuse
  <2>2. UNCHANGED <<clock, row, orders, placed, made, credits, credited, billed, overlapped,
                    staleRoll, rotations>>
    BY <1>4 DEF Refuse
  <2> QED BY <2>1, <2>2, CloseType DEF TypeOK
<1>5. ASSUME NEW s \in Sessions, Accept(s) PROVE TypeOK'
  <2>1. Current(cur[s]) \in RowType BY CurrentFacts DEF TypeOK
  <2> QED BY <1>5, <2>1 DEF Accept, TypeOK, history
<1>6. ASSUME NEW s \in Sessions, Reserve(s) PROVE TypeOK'
  <2> DEFINE next == Latest(s).index + 1
             mine == [cur[s] EXCEPT !.index = next]
  <2>1. next \in Nat BY LatestType DEF RowType
  <2>2. mine \in RowType
    <3>1. cur[s] \in RowType BY DEF TypeOK
    <3> QED BY <2>1, <3>1 DEF RowType
  <2>3. [Written(base[s], cur[s], Latest(s)) EXCEPT !.index = next] \in RowType
    <3>1. Written(base[s], cur[s], Latest(s)) \in RowType
      BY WrittenFacts, LatestType DEF TypeOK
    <3> QED BY <2>1, <3>1 DEF RowType
  <2>4. /\ holder' = s
        /\ work' = [Written(base[s], cur[s], Latest(s)) EXCEPT !.index = next]
        /\ base' = [base EXCEPT ![s] = mine] /\ cur' = [cur EXCEPT ![s] = mine]
        /\ pc' = [pc EXCEPT ![s] = "reserved"]
        /\ UNCHANGED <<clock, row, orders, placed, history>>
    BY <1>6 DEF Reserve, NextIndex
  <2> HIDE DEF next, mine
  <2> QED BY <2>2, <2>3, <2>4 DEF TypeOK, history
<1>7. ASSUME NEW s \in Sessions, CommitOrder(s) PROVE TypeOK'
  <2> DEFINE counted == [cur[s] EXCEPT !.count = @ + 1]
             r == Written(base[s], counted, work)
  <2>1. counted \in RowType
    <3>1. cur[s] \in RowType BY DEF TypeOK
    <3> QED BY <3>1 DEF RowType
  <2>2. r \in RowType BY <2>1, WrittenFacts DEF TypeOK
  <2>3. Committed(s, r, 1) BY <1>7 DEF CommitOrder, Counted
  <2>4. placed + 1 \in Nat /\ cur[s].index \in Nat BY DEF TypeOK, RowType
  <2>5. Close(s) /\ UNCHANGED <<clock, credits, overlapped, rotations>> BY <1>7 DEF CommitOrder, Counted
  <2>6. placed' \in Nat BY <1>7, <2>4 DEF CommitOrder, Counted
  <2>7. cur[s].index - 1 \in Nat
    <3>1. pc[s] = "reserved" BY <1>7 DEF CommitOrder, Counted
    <3>2. cur[s].index > row.index BY <3>1 DEF Indexed, ReservedIsOurs
    <3>3. row.index \in Nat BY DEF TypeOK, RowType
    <3> QED BY <2>4, <3>2, <3>3
  <2>8. orders' \subseteq [id : Nat, index : Nat]
    BY <1>7, <2>4, <2>7 DEF CommitOrder, Counted, TypeOK
  <2> HIDE DEF counted, r
  <2> QED BY <2>2, <2>3, <2>5, <2>6, <2>8, CommittedType, CloseType DEF TypeOK
<1>8. ASSUME NEW s \in Sessions, NEW q \in RowType, Rewrite(s, q), rotations' \in Nat
      PROVE  TypeOK'
  <2> DEFINE r == Written(base[s], q, row)
  <2>1. r \in RowType BY WrittenFacts DEF TypeOK
  <2>2. Committed(s, r, 0) /\ Close(s) BY <1>8 DEF Rewrite
  <2>3. UNCHANGED <<clock, orders, placed, credits, overlapped>> BY <1>8 DEF Rewrite
  <2> HIDE DEF r
  <2> QED BY <1>8, <2>1, <2>2, <2>3, CommittedType, CloseType DEF TypeOK
<1>14. ASSUME NEW s \in Sessions, NEW mode \in Modes, SetMode(s, mode) PROVE TypeOK'
  <2>1. WithMode(cur[s], mode) \in RowType BY WithModeFacts DEF TypeOK
  <2> QED BY <1>8, <1>14, <2>1 DEF SetMode, TypeOK
<1>15. ASSUME NEW s \in Sessions, RotateSecret(s) PROVE TypeOK'
  <2>1. rotations' \in Nat BY <1>15 DEF RotateSecret, TypeOK
  <2>2. WithSecret(cur[s], rotations') \in RowType BY <2>1, WithSecretFacts DEF TypeOK
  <2> QED BY <1>8, <1>15, <2>1, <2>2 DEF RotateSecret
<1>9. ASSUME NEW a \in Amounts, Credit(a) PROVE TypeOK'
  <2>1. a \in Nat BY BillingAssumption
  <2>2. Poller \in Sessions BY DEF Sessions
  <2>3. Current(cur[Poller]) \in RowType BY <2>2, CurrentFacts DEF TypeOK
  <2>4. [Current(cur[Poller]) EXCEPT !.volume = @ + a] \in RowType
    BY <2>1, <2>3 DEF RowType
  <2>5. cur' = [cur EXCEPT ![Poller] = [Current(cur[Poller]) EXCEPT !.volume = @ + a]]
    BY <1>9 DEF Credit
  <2>6. cur' \in [Sessions -> RowType]
    BY <2>2, <2>4, <2>5, Zenon DEF TypeOK
  <2>7. credits' \in Nat /\ credited' \in Nat
    BY <1>9, <2>1 DEF Credit, TypeOK
  <2> QED BY <1>9, <2>6, <2>7 DEF Credit, TypeOK
<1>10. CASE AutoFlush
  <2>1. Poller \in Sessions BY DEF Sessions
  <2>2. Written(base[Poller], cur[Poller], Latest(Poller)) \in RowType
    BY <2>1, WrittenFacts, LatestType DEF TypeOK
  <2> QED BY <1>10, <2>1, <2>2 DEF AutoFlush, TypeOK, history
<1>11. CASE PruneCommits
  <2>1. Poller \in Sessions /\ work \in RowType BY DEF Sessions, TypeOK
  <2>2. Committed(Poller, work, 0) /\ ReleaseLock(Poller)
    BY <1>11 DEF PruneCommits
  <2>3. holder' \in Sessions \cup {Nobody} /\ work' \in RowType
    BY <2>2, ClosedType DEF ReleaseLock, TypeOK
  <2>4. UNCHANGED <<clock, pc, base, cur, orders, placed, credits, crowded, overlapped, rotations>>
    BY <1>11 DEF PruneCommits
  <2> QED BY <2>1, <2>2, <2>3, <2>4, CommittedType DEF TypeOK
<1>12. CASE EndPass
  <2> DEFINE r == Written(base[Poller], cur[Poller], Latest(Poller))
  <2>1. Poller \in Sessions BY DEF Sessions
  <2>2. r \in RowType BY <2>1, WrittenFacts, LatestType DEF TypeOK
  <2>3. Committed(Poller, r, 0) /\ Close(Poller) BY <1>12 DEF EndPass
  <2>4. UNCHANGED <<clock, orders, placed, credits, overlapped, rotations>> BY <1>12 DEF EndPass
  <2> HIDE DEF r
  <2> QED BY <2>1, <2>2, <2>3, <2>4, CommittedType, CloseType DEF TypeOK
<1>13. CASE UNCHANGED vars
  BY <1>13 DEF vars, TypeOK
<1> QED
  BY <1>1, <1>2, <1>3, <1>4, <1>5, <1>6, <1>7, <1>9, <1>10, <1>11, <1>12, <1>13,
     <1>14, <1>15
     DEF Next, Request, Pass, Sessions

-----------------------------------------------------------------------------
(* Indices *)

LEMMA InitIndexed == Init => Indexed /\ UniqueIndex
BY DEF Init, Indexed, IndexSpent, LockAhead, ReservedIsOurs, IndexUntouched, PollerOnlyLoads,
       UniqueIndex, Sessions

(* Ending a session never disturbs what the others hold.                    *)
LEMMA CloseIndexed ==
    ASSUME TypeOK, Indexed, NEW s \in Sessions, Close(s), UNCHANGED row
    PROVE  LockAhead' /\ ReservedIsOurs' /\ IndexUntouched' /\ PollerOnlyLoads'
<1> USE DEF Indexed, TypeOK, Close, ReleaseLock
<1>1. LockAhead' BY DEF LockAhead
<1>2. ReservedIsOurs' BY DEF ReservedIsOurs
<1>3. IndexUntouched' BY DEF IndexUntouched
<1>4. PollerOnlyLoads' BY DEF PollerOnlyLoads, Sessions
<1> QED BY <1>1, <1>2, <1>3, <1>4

(* Whoever is granted the lock, nobody else has an index reserved.          *)
LEMMA NobodyElseReserved ==
    ASSUME Indexed, NEW s \in Sessions, LockFree(s), NEW t \in Sessions, t # s
    PROVE  pc[t] # "reserved"
BY SessionAssumption DEF Indexed, ReservedIsOurs, LockFree

(* A commit by a session that may write the row leaves the others nothing   *)
(* reserved; its own row is at or above what was committed.                 *)
LEMMA CommitIndexed ==
    ASSUME TypeOK, Indexed, NEW s \in Sessions, LockFree(s), Close(s),
           row'.index \in Nat
    PROVE  LockAhead' /\ ReservedIsOurs' /\ IndexUntouched' /\ PollerOnlyLoads'
<1>1. \A t \in Sessions : pc'[t] # "reserved"
  BY NobodyElseReserved DEF Close, TypeOK
<1>2. holder' = Nobody BY DEF LockFree, Close, ReleaseLock
<1>3. LockAhead' BY <1>2 DEF LockAhead
<1>4. ReservedIsOurs' BY <1>1 DEF ReservedIsOurs
<1>5. IndexUntouched' BY DEF Indexed, IndexUntouched, Close, TypeOK
<1>6. PollerOnlyLoads' BY DEF Indexed, PollerOnlyLoads, Close, TypeOK, Sessions
<1> QED BY <1>3, <1>4, <1>5, <1>6

(* The row a session would write on is never behind the committed one.      *)
LEMMA LatestAhead ==
    ASSUME TypeOK, Indexed, NEW s \in Sessions
    PROVE  Latest(s) \in RowType /\ Latest(s).index >= row.index
<1>1. row \in RowType /\ work \in RowType /\ row.index \in Nat BY DEF TypeOK, RowType
<1>2. holder = s => work.index >= row.index
  BY SessionAssumption DEF Indexed, LockAhead
<1> QED BY <1>1, <1>2 DEF Latest

LEMMA NextIndexed ==
    TypeOK /\ TypeOK' /\ Indexed /\ UniqueIndex /\ [Next]_vars => Indexed' /\ UniqueIndex'
<1> SUFFICES ASSUME TypeOK, TypeOK', Indexed, UniqueIndex, [Next]_vars
             PROVE  Indexed' /\ UniqueIndex'
  OBVIOUS
<1>0. /\ row.index \in Nat /\ row'.index \in Nat /\ work.index \in Nat
      /\ \A o \in orders : o.index \in Nat
      /\ \A s \in Sessions : cur[s] \in RowType /\ base[s] \in RowType /\ cur[s].index \in Nat
  BY DEF TypeOK, RowType
<1>a. Poller \in Sessions BY DEF Sessions
<1>1. CASE Tick \/ UNCHANGED vars
  BY <1>1 DEF Tick, history, vars, Indexed, IndexSpent, LockAhead, ReservedIsOurs,
              IndexUntouched, PollerOnlyLoads, UniqueIndex
<1>2. ASSUME NEW s \in Sessions, Load(s) PROVE Indexed' /\ UniqueIndex'
  <2> USE <1>2 DEF Load, Indexed
  <2>1. IndexSpent' /\ LockAhead' /\ UniqueIndex' BY DEF IndexSpent, LockAhead, UniqueIndex
  <2>2. ReservedIsOurs' BY DEF ReservedIsOurs, TypeOK
  <2>3. IndexUntouched' BY DEF IndexUntouched, TypeOK
  <2>4. PollerOnlyLoads' BY <1>a DEF PollerOnlyLoads, TypeOK
  <2> QED BY <2>1, <2>2, <2>3, <2>4
<1>3. ASSUME NEW s \in Sessions, Abort(s) \/ Refuse(s) PROVE Indexed' /\ UniqueIndex'
  <2>1. Close(s) /\ UNCHANGED <<row, orders>> BY <1>3 DEF Abort, Refuse
  <2>2. IndexSpent' /\ UniqueIndex' BY <2>1 DEF Indexed, IndexSpent, UniqueIndex
  <2> QED BY <2>1, <2>2, CloseIndexed DEF Indexed
<1>4. ASSUME NEW s \in Requests, Accept(s) PROVE Indexed' /\ UniqueIndex'
  <2>0. s \in Sessions /\ s # Poller BY SessionAssumption DEF Sessions
  <2>1. Current(cur[s]).index = cur[s].index
    BY <1>0, <2>0, CurrentFacts DEF TypeOK
  <2> USE <1>4 DEF Accept, Indexed, history
  <2>2. IndexSpent' /\ LockAhead' /\ UniqueIndex' BY DEF IndexSpent, LockAhead, UniqueIndex
  <2>3. ReservedIsOurs' BY <2>0 DEF ReservedIsOurs, TypeOK
  <2>4. IndexUntouched' BY <2>0, <2>1 DEF IndexUntouched, TypeOK
  <2>5. PollerOnlyLoads' BY <2>0, <1>a DEF PollerOnlyLoads, TypeOK
  <2> QED BY <2>2, <2>3, <2>4, <2>5
<1>5. ASSUME NEW s \in Requests, Reserve(s) PROVE Indexed' /\ UniqueIndex'
  <2> DEFINE next == Latest(s).index + 1
             w == Written(base[s], cur[s], Latest(s))
             mine == [cur[s] EXCEPT !.index = next]
  <2>0. s \in Sessions /\ s # Poller /\ s # Nobody BY SessionAssumption DEF Sessions
  <2>1. Latest(s) \in RowType /\ Latest(s).index >= row.index BY <2>0, LatestAhead
  <2>2. next \in Nat /\ next > row.index BY <1>0, <2>1 DEF RowType
  <2>3. w \in RowType BY <1>0, <2>0, <2>1, WrittenFacts
  <2>4. mine.index = next /\ [w EXCEPT !.index = next].index = next
    BY <1>0, <2>0, <2>2, <2>3 DEF RowType
  <2>5. /\ LockFree(s) /\ holder' = s
        /\ work' = [w EXCEPT !.index = next]
        /\ base' = [base EXCEPT ![s] = mine] /\ cur' = [cur EXCEPT ![s] = mine]
        /\ pc' = [pc EXCEPT ![s] = "reserved"]
        /\ UNCHANGED <<row, orders>>
    BY <1>5 DEF Reserve, NextIndex
  <2> HIDE DEF next, w, mine
  <2>6. work'.index = next BY <2>4, <2>5
  <2>7. \A t \in Sessions \ {s} : pc'[t] # "reserved" /\ pc'[t] = pc[t]
    BY <2>0, <2>5, NobodyElseReserved DEF TypeOK
  <2>8. cur'[s].index = next BY <2>0, <2>4, <2>5 DEF TypeOK
  <2>9. IndexSpent' /\ UniqueIndex' BY <2>5 DEF Indexed, IndexSpent, UniqueIndex
  <2>10. LockAhead' BY <1>0, <2>2, <2>5, <2>6 DEF LockAhead
  <2>11. ReservedIsOurs' BY <2>2, <2>5, <2>6, <2>7, <2>8 DEF ReservedIsOurs
  <2>12. IndexUntouched' BY <2>0, <2>5 DEF Indexed, IndexUntouched, TypeOK
  <2>13. PollerOnlyLoads' BY <1>a, <2>0, <2>7 DEF Indexed, PollerOnlyLoads
  <2> QED BY <2>9, <2>10, <2>11, <2>12, <2>13 DEF Indexed
<1>6. ASSUME NEW s \in Requests, CommitOrder(s) PROVE Indexed' /\ UniqueIndex'
  <2> DEFINE counted == [cur[s] EXCEPT !.count = @ + 1]
             r == Written(base[s], counted, work)
             new == [id |-> placed + 1, index |-> cur[s].index - 1]
  <2>0. s \in Sessions BY DEF Sessions
  <2>1. counted \in RowType /\ counted.index = cur[s].index
    <3>1. cur[s] \in RowType BY <1>0, <2>0
    <3> QED BY <3>1 DEF RowType
  <2>2. /\ pc[s] = "reserved" /\ Committed(s, r, 1) /\ Close(s)
        /\ orders' = orders \cup {new}
    BY <1>6 DEF CommitOrder, Counted
  <2>3. /\ holder = s /\ work.index = cur[s].index /\ cur[s].index > row.index
        /\ base[s].index = cur[s].index
    BY <2>0, <2>2 DEF Indexed, ReservedIsOurs, IndexUntouched
  <2>4. r.index = cur[s].index
    <3>1. base[s] \in RowType /\ work \in RowType BY <1>0, <2>0 DEF TypeOK
    <3> HIDE DEF counted
    <3>2. Written(base[s], counted, work).index = work.index
      BY <2>1, <2>3, <3>1, WrittenFacts
    <3> QED BY <2>3, <3>2
  <2>5. row' = r BY <2>2 DEF Committed
  <2>6. new.index = cur[s].index - 1 OBVIOUS
  <2> HIDE DEF counted, r, new
  <2>7. new.index >= row.index /\ new.index < row'.index
    BY <1>0, <2>0, <2>3, <2>4, <2>5, <2>6
  <2>8. \A o \in orders : o.index < new.index /\ o.index < row'.index
    BY <1>0, <2>0, <2>6, <2>7 DEF Indexed, IndexSpent
  <2>9. IndexSpent' BY <2>2, <2>7, <2>8 DEF IndexSpent
  <2>10. UniqueIndex'
    <3> SUFFICES ASSUME NEW o \in orders', NEW p \in orders', o.index = p.index
                 PROVE  o = p
      BY DEF UniqueIndex
    <3>1. CASE o \in orders /\ p \in orders BY <3>1 DEF UniqueIndex
    <3>2. CASE o = new /\ p = new BY <3>2
    <3>3. CASE o = new /\ p \in orders
      BY <1>0, <2>0, <2>6, <2>8, <3>3
    <3>4. CASE p = new /\ o \in orders
      BY <1>0, <2>0, <2>6, <2>8, <3>4
    <3> QED BY <2>2, <3>1, <3>2, <3>3, <3>4
  <2>11. LockFree(s) BY <2>3 DEF LockFree
  <2> QED BY <1>0, <2>0, <2>2, <2>9, <2>10, <2>11, CommitIndexed DEF Indexed
<1>14. ASSUME NEW s \in Sessions, NEW q \in RowType, q.index = cur[s].index, Rewrite(s, q)
       PROVE  Indexed' /\ UniqueIndex'
  <2>1. /\ LockFree(s) /\ Close(s) /\ orders' = orders
        /\ row' = Written(base[s], q, row)
    BY <1>14 DEF Rewrite, Committed
  <2>2. row'.index = row.index
    BY <1>0, <1>14, <2>1, WrittenFacts DEF Indexed, IndexUntouched, TypeOK
  <2>3. IndexSpent' /\ UniqueIndex'
    BY <2>1, <2>2 DEF Indexed, IndexSpent, UniqueIndex
  <2> QED BY <1>0, <2>1, <2>3, CommitIndexed DEF Indexed
<1>7. ASSUME NEW s \in Sessions, NEW mode \in Modes, SetMode(s, mode)
      PROVE  Indexed' /\ UniqueIndex'
  BY <1>0, <1>7, <1>14, WithModeFacts DEF SetMode
<1>15. ASSUME NEW s \in Sessions, RotateSecret(s) PROVE Indexed' /\ UniqueIndex'
  <2>1. rotations' \in Nat BY DEF TypeOK
  <2> QED BY <1>0, <1>14, <1>15, <2>1, WithSecretFacts DEF RotateSecret
<1>8. ASSUME NEW a \in Amounts, Credit(a) PROVE Indexed' /\ UniqueIndex'
  <2>1. /\ Current(cur[Poller]) \in RowType
        /\ Current(cur[Poller]).index = cur[Poller].index
    BY <1>0, <1>a, CurrentFacts DEF TypeOK
  <2>2. cur' = [cur EXCEPT ![Poller] = [Current(cur[Poller]) EXCEPT !.volume = @ + a]]
    BY <1>8 DEF Credit
  <2>3. [Current(cur[Poller]) EXCEPT !.volume = @ + a].index = cur[Poller].index
    BY <2>1 DEF RowType
  <2>4. \A s \in Sessions : cur'[s].index = cur[s].index
    BY <1>a, <2>2, <2>3, Zenon DEF TypeOK
  <2>5. UNCHANGED <<row, holder, work, pc, base, orders>> BY <1>8 DEF Credit
  <2> QED BY <2>4, <2>5 DEF Indexed, IndexSpent, LockAhead, ReservedIsOurs, IndexUntouched,
                            PollerOnlyLoads, UniqueIndex
<1>9. CASE AutoFlush
  <2> DEFINE w == Written(base[Poller], cur[Poller], Latest(Poller))
  <2>1. Latest(Poller) \in RowType /\ Latest(Poller).index >= row.index
    BY <1>a, LatestAhead
  <2>2. w.index = Latest(Poller).index
    BY <1>0, <1>a, <2>1, WrittenFacts DEF Indexed, IndexUntouched
  <2>3. /\ LockFree(Poller) /\ holder' = Poller /\ work' = w
        /\ base' = [base EXCEPT ![Poller] = cur[Poller]]
        /\ UNCHANGED <<row, pc, cur, orders>>
    BY <1>9 DEF AutoFlush
  <2> HIDE DEF w
  <2>4. \A t \in Sessions : pc[t] # "reserved"
    BY <1>a, <2>3, NobodyElseReserved DEF Indexed, PollerOnlyLoads
  <2>5. LockAhead' BY <2>1, <2>2, <2>3 DEF LockAhead
  <2>6. ReservedIsOurs' BY <2>3, <2>4 DEF ReservedIsOurs
  <2>7. IndexUntouched' BY <1>a, <2>3 DEF Indexed, IndexUntouched, TypeOK
  <2> QED BY <2>3, <2>5, <2>6, <2>7 DEF Indexed, IndexSpent, PollerOnlyLoads, UniqueIndex
<1>10. CASE PruneCommits
  <2>1. /\ holder = Poller /\ row' = work /\ holder' = Nobody
        /\ UNCHANGED <<pc, base, cur, orders>>
    BY <1>10 DEF PruneCommits, Committed, ReleaseLock
  <2>2. row'.index >= row.index
    BY <1>a, <2>1, SessionAssumption DEF Indexed, LockAhead
  <2>3. LockFree(Poller) BY <2>1 DEF LockFree
  <2>4. \A t \in Sessions : pc[t] # "reserved"
    BY <1>a, <2>3, NobodyElseReserved DEF Indexed, PollerOnlyLoads
  <2>5. IndexSpent' BY <1>0, <2>1, <2>2 DEF Indexed, IndexSpent
  <2>6. LockAhead' /\ ReservedIsOurs' BY <2>1, <2>4 DEF LockAhead, ReservedIsOurs
  <2> QED BY <2>1, <2>5, <2>6 DEF Indexed, IndexUntouched, PollerOnlyLoads, UniqueIndex
<1>11. CASE EndPass
  <2>1. Latest(Poller) \in RowType /\ Latest(Poller).index >= row.index
    BY <1>a, LatestAhead
  <2>2. /\ LockFree(Poller) /\ Close(Poller) /\ orders' = orders
        /\ row' = Written(base[Poller], cur[Poller], Latest(Poller))
    BY <1>11 DEF EndPass, Committed
  <2>3. row'.index = Latest(Poller).index
    BY <1>0, <1>a, <2>1, <2>2, WrittenFacts DEF Indexed, IndexUntouched
  <2>4. IndexSpent' BY <1>0, <2>1, <2>2, <2>3 DEF Indexed, IndexSpent
  <2>5. UniqueIndex' BY <2>2 DEF UniqueIndex
  <2> QED BY <1>0, <1>a, <2>2, <2>4, <2>5, CommitIndexed DEF Indexed
<1>12. ASSUME NEW s \in Requests, Request(s) PROVE Indexed' /\ UniqueIndex'
  <2>1. s \in Sessions BY DEF Sessions
  <2> QED BY <1>2, <1>3, <1>4, <1>5, <1>6, <1>7, <1>12, <1>15, <2>1 DEF Request
<1>13. CASE Pass
  BY <1>2, <1>3, <1>8, <1>9, <1>10, <1>11, <1>13, <1>a DEF Pass
<1> QED BY <1>1, <1>12, <1>13 DEF Next

(* Types hold in every reachable state, for any number of sessions.         *)
THEOREM TypeCorrect == Spec => [](TypeOK /\ Indexed)
<1>1. Init => TypeOK /\ Indexed /\ UniqueIndex BY InitType, InitIndexed
<1>2. TypeOK /\ Indexed /\ UniqueIndex /\ [Next]_vars => (TypeOK /\ Indexed /\ UniqueIndex)'
  BY NextType, NextIndexed
<1> QED BY <1>1, <1>2, PTL DEF Spec

(* No two committed orders of a merchant have the same derivation index,    *)
(* whatever requests, mode changes and poller passes overlap and whichever  *)
(* of them are lost (_reserve_next_evm_index).                              *)
THEOREM IndicesAreUnique == Spec => []UniqueIndex
<1>1. Init => TypeOK /\ Indexed /\ UniqueIndex BY InitType, InitIndexed
<1>2. TypeOK /\ Indexed /\ UniqueIndex /\ [Next]_vars => (TypeOK /\ Indexed /\ UniqueIndex)'
  BY NextType, NextIndexed
<1> QED BY <1>1, <1>2, PTL DEF Spec

-----------------------------------------------------------------------------
(* The count.  While no two sessions have been open together, the one that *)
(* is open knows the row it will write on, and has either left the cycle   *)
(* alone, count and mode included, or begun a later one with no count.     *)

Sole == \A s, t \in Sessions : Open(s) /\ Open(t) => s = t

HolderOpen == holder # Nobody => Open(holder)

SameCycle(r, q) == r.count = q.count /\ r.resetAt = q.resetAt /\ r.mode = q.mode

Known(r, q) == SameCycle(r, q) /\ r.plan = q.plan

BaseIsLatest ==
    \A s \in Sessions : Open(s) => Known(base[s], Latest(s))

LaterCycle(r, q) == r.count = 0 /\ r.resetAt > q.resetAt

CycleKnown ==
    \A s \in Sessions : Open(s) => SameCycle(cur[s], row) \/ LaterCycle(cur[s], row)

LoadedIsRow ==
    \A s \in Requests : pc[s] = "loaded" => SameCycle(cur[s], row) /\ Known(base[s], row)

Alone ==
    ~overlapped => Sole /\ HolderOpen /\ BaseIsLatest /\ CycleKnown /\ LoadedIsRow

(* When the only session closes, none is left open.                         *)
LEMMA CloseAlone ==
    ASSUME TypeOK, Alone, NEW s \in Sessions, Open(s), Close(s), ~overlapped
    PROVE  Alone'
<1>1. Sole /\ HolderOpen BY DEF Alone
<1>2. \A t \in Sessions : ~Open(t)'
  BY <1>1 DEF Sole, Open, Close, TypeOK
<1>3. holder' = Nobody
  BY <1>1, SessionAssumption DEF HolderOpen, Sole, Close, ReleaseLock, TypeOK
<1>4. Sole' /\ HolderOpen' /\ BaseIsLatest' /\ CycleKnown' BY <1>2, <1>3 DEF Sole, HolderOpen, BaseIsLatest, CycleKnown
<1>5. LoadedIsRow' BY <1>2 DEF LoadedIsRow, Open, Sessions
<1> QED BY <1>4, <1>5 DEF Alone

(* Written on the row it was loaded from, a copy keeps its own count and    *)
(* reset instant.                                                           *)
LEMMA WrittenOnBase ==
    ASSUME NEW old \in RowType, NEW new \in RowType, NEW r \in RowType, Known(old, r)
    PROVE  Known(Written(old, new, r), new)
BY WrittenFacts DEF Known, SameCycle

(* A commit of the row as cycle arithmetic wants it keeps the count true.   *)
LEMMA CommitKeepsCount ==
    ASSUME TypeOK, row.count = made, NEW s \in Sessions, NEW created \in Nat, NEW r \in RowType,
           NEW q \in RowType, SameCycle(q, row) \/ LaterCycle(q, row),
           r.count = q.count + created, r.resetAt = q.resetAt,
           Committed(s, r, created)
    PROVE  row'.count = made'
<1>1. /\ row.resetAt \in Nat /\ q.resetAt \in Nat /\ row.count \in Nat /\ q.count \in Nat
  BY DEF TypeOK, RowType
<1>2. row' = r /\ made' = IF r.resetAt # row.resetAt THEN created ELSE made + created
  BY DEF Committed, BeginsCycle
<1>3. CASE SameCycle(q, row) BY <1>1, <1>2, <1>3 DEF SameCycle
<1>4. CASE LaterCycle(q, row) BY <1>1, <1>2, <1>4 DEF LaterCycle
<1> QED BY <1>3, <1>4

(* Bringing the cycle up to date keeps a copy's relation to the row.        *)
LEMMA CurrentCycle ==
    ASSUME clock \in Nat, NEW r \in RowType, NEW q \in RowType,
           SameCycle(r, q) \/ LaterCycle(r, q)
    PROVE  SameCycle(Current(r), q) \/ LaterCycle(Current(r), q)
<1>1. r.resetAt \in Nat /\ q.resetAt \in Nat /\ Current(r) \in RowType
  BY CurrentFacts DEF RowType
<1>2. Current(r).resetAt \in Nat BY <1>1 DEF RowType
<1>3. \/ /\ Current(r).count = r.count /\ Current(r).resetAt = r.resetAt
         /\ Current(r).mode = r.mode
      \/ Current(r).count = 0 /\ Current(r).resetAt > r.resetAt
  BY CurrentFacts
<1> QED BY <1>1, <1>2, <1>3 DEF SameCycle, LaterCycle

LEMMA NextAlone ==
    TypeOK /\ TypeOK' /\ Indexed /\ Alone /\ CountIsTrueAlone /\ [Next]_vars
        => Alone' /\ CountIsTrueAlone'
<1> SUFFICES ASSUME TypeOK, TypeOK', Indexed, Alone, CountIsTrueAlone, [Next]_vars, ~overlapped'
             PROVE  Alone' /\ CountIsTrueAlone'
  BY DEF Alone, CountIsTrueAlone
<1>0. /\ row \in RowType /\ work \in RowType /\ clock \in Nat
      /\ \A s \in Sessions : cur[s] \in RowType /\ base[s] \in RowType
  BY DEF TypeOK
<1>a. Poller \in Sessions BY DEF Sessions
<1>b. ASSUME ~overlapped
      PROVE  /\ Sole /\ HolderOpen /\ BaseIsLatest /\ CycleKnown /\ LoadedIsRow
             /\ row.count = made
  BY <1>b DEF Alone, CountIsTrueAlone
<1>1. CASE Tick \/ UNCHANGED vars
  <2>1. UNCHANGED <<row, holder, work, pc, base, cur, made, overlapped>>
    BY <1>1 DEF Tick, vars, history
  <2>2. ~overlapped BY <2>1
  <2> QED BY <1>b, <2>1, <2>2 DEF Alone, CountIsTrueAlone, Sole, HolderOpen, BaseIsLatest,
                                  CycleKnown, LoadedIsRow, Open, Latest
<1>2. ASSUME NEW s \in Sessions, Load(s) PROVE Alone' /\ CountIsTrueAlone'
  <2>1. /\ pc[s] = "closed" /\ pc' = [pc EXCEPT ![s] = "loaded"]
        /\ base' = [base EXCEPT ![s] = row] /\ cur' = [cur EXCEPT ![s] = row]
        /\ UNCHANGED <<row, holder, work, made>>
        /\ ~overlapped /\ OpenBeside(s) = {}
    BY <1>2, Zenon DEF Load
  <2>2. \A t \in Sessions : t # s => ~Open(t)' BY <2>1 DEF OpenBeside, Open, TypeOK
  <2>3. holder = Nobody
    BY <1>b, <2>1, SessionAssumption DEF HolderOpen, OpenBeside, Open, TypeOK
  <2>4. base'[s] = row /\ cur'[s] = row /\ Latest(s)' = row
    BY <2>1, <2>3, SessionAssumption DEF TypeOK, Latest
  <2>5. Sole' /\ HolderOpen' BY <2>1, <2>2, <2>3 DEF Sole, HolderOpen
  <2>6. BaseIsLatest' BY <2>2, <2>4 DEF BaseIsLatest, Known, SameCycle
  <2>7. CycleKnown' BY <2>1, <2>2, <2>4 DEF CycleKnown, SameCycle
  <2>8. LoadedIsRow'
    BY <2>1, <2>2, <2>4 DEF LoadedIsRow, Known, SameCycle, Open, Sessions
  <2>9. CountIsTrueAlone' BY <1>b, <2>1 DEF CountIsTrueAlone
  <2> QED BY <2>5, <2>6, <2>7, <2>8, <2>9 DEF Alone
<1>3. ASSUME NEW s \in Sessions, Abort(s) \/ Refuse(s) PROVE Alone' /\ CountIsTrueAlone'
  <2>1. Open(s) /\ Close(s) /\ UNCHANGED <<row, made, overlapped>>
    BY <1>3 DEF Abort, Refuse, Open
  <2>2. ~overlapped BY <2>1
  <2> QED BY <1>b, <2>1, <2>2, CloseAlone DEF CountIsTrueAlone
<1>4. ASSUME NEW s \in Requests, Accept(s) PROVE Alone' /\ CountIsTrueAlone'
  <2>0. s \in Sessions BY DEF Sessions
  <2>1. /\ pc[s] = "loaded" /\ pc' = [pc EXCEPT ![s] = "reserving"]
        /\ cur' = [cur EXCEPT ![s] = Current(cur[s])]
        /\ UNCHANGED <<row, holder, work, base, made, overlapped>>
    BY <1>4 DEF Accept, history
  <2>2. ~overlapped BY <2>1
  <2>3. \A t \in Sessions : Open(t)' = Open(t) BY <2>0, <2>1 DEF Open, TypeOK
  <2>4. SameCycle(cur[s], row) \/ LaterCycle(cur[s], row)
    BY <1>b, <2>0, <2>1, <2>2 DEF CycleKnown, Open
  <2>5. SameCycle(Current(cur[s]), row) \/ LaterCycle(Current(cur[s]), row)
    BY <1>0, <2>0, <2>4, CurrentCycle
  <2>6. \A t \in Sessions : cur'[t] = IF t = s THEN Current(cur[s]) ELSE cur[t]
    BY <2>1 DEF TypeOK
  <2>7. CycleKnown' BY <1>b, <2>1, <2>2, <2>3, <2>5, <2>6 DEF CycleKnown, SameCycle, LaterCycle
  <2>8. Sole' /\ HolderOpen' /\ BaseIsLatest'
    BY <1>b, <2>1, <2>2, <2>3 DEF Sole, HolderOpen, BaseIsLatest, Latest, TypeOK, Open
  <2>9. LoadedIsRow'
    BY <1>b, <2>0, <2>1, <2>2, <2>6 DEF LoadedIsRow, SameCycle, TypeOK, Sessions
  <2>10. CountIsTrueAlone' BY <1>b, <2>1, <2>2 DEF CountIsTrueAlone
  <2> QED BY <2>7, <2>8, <2>9, <2>10 DEF Alone
<1>5. ASSUME NEW s \in Requests, Reserve(s) PROVE Alone' /\ CountIsTrueAlone'
  <2> DEFINE next == Latest(s).index + 1
             w == Written(base[s], cur[s], Latest(s))
             mine == [cur[s] EXCEPT !.index = next]
  <2>0. s \in Sessions BY DEF Sessions
  <2>1. /\ pc[s] = "reserving" /\ holder' = s
        /\ work' = [w EXCEPT !.index = next]
        /\ base' = [base EXCEPT ![s] = mine] /\ cur' = [cur EXCEPT ![s] = mine]
        /\ pc' = [pc EXCEPT ![s] = "reserved"]
        /\ UNCHANGED <<row, made, overlapped>>
    BY <1>5 DEF Reserve, NextIndex, history
  <2>2. ~overlapped /\ Open(s) BY <2>1 DEF Open
  <2>3. Latest(s) \in RowType BY <2>0, LatestType
  <2>4. Known(base[s], Latest(s)) BY <1>b, <2>0, <2>2 DEF BaseIsLatest
  <2>5. w \in RowType /\ Known(w, cur[s])
    BY <1>0, <2>0, <2>3, <2>4, WrittenOnBase, WrittenFacts
  <2>6. next \in Nat BY <2>3 DEF RowType
  <2> HIDE DEF next, w
  <2>7. Known([w EXCEPT !.index = next], w) /\ Known(mine, cur[s])
    BY <1>0, <2>0, <2>5, <2>6 DEF RowType, Known, SameCycle
  <2> HIDE DEF mine
  <2>8. /\ cur'[s] = mine /\ base'[s] = mine /\ Latest(s)' = work'
        /\ \A t \in Sessions \ {s} : cur'[t] = cur[t] /\ base'[t] = base[t] /\ pc'[t] = pc[t]
    BY <2>0, <2>1 DEF TypeOK, Latest
  <2>9. \A t \in Sessions : Open(t)' <=> t = s
    BY <1>b, <2>0, <2>1, <2>2, <2>8 DEF Sole, Open, TypeOK
  <2>10. Sole' /\ HolderOpen' BY <2>0, <2>1, <2>9 DEF Sole, HolderOpen
  <2>11. BaseIsLatest'
    <3>1. Known(mine, work') BY <2>1, <2>5, <2>7 DEF Known, SameCycle
    <3> QED BY <2>8, <2>9, <3>1 DEF BaseIsLatest, Known, SameCycle
  <2>12. CycleKnown'
    <3>1. SameCycle(cur[s], row) \/ LaterCycle(cur[s], row)
      BY <1>b, <2>0, <2>2 DEF CycleKnown
    <3> QED BY <3>1, <2>1, <2>7, <2>8, <2>9 DEF CycleKnown, Known, SameCycle, LaterCycle
  <2>13. LoadedIsRow'
    BY <2>0, <2>1, <2>8, <2>9 DEF LoadedIsRow, Open, TypeOK, Sessions
  <2>14. CountIsTrueAlone' BY <1>b, <2>1, <2>2 DEF CountIsTrueAlone
  <2> QED BY <2>10, <2>11, <2>12, <2>13, <2>14 DEF Alone
<1>6. ASSUME NEW s \in Requests, CommitOrder(s) PROVE Alone' /\ CountIsTrueAlone'
  <2> DEFINE counted == [cur[s] EXCEPT !.count = @ + 1]
             r == Written(base[s], counted, work)
  <2>0. s \in Sessions BY DEF Sessions
  <2>1. /\ pc[s] = "reserved" /\ Committed(s, r, 1) /\ Close(s) /\ overlapped' = overlapped
    BY <1>6 DEF CommitOrder, Counted
  <2>2. Open(s) /\ ~overlapped BY <2>1 DEF Open
  <2>3. counted \in RowType /\ counted.count = cur[s].count + 1
        /\ counted.resetAt = cur[s].resetAt
    <3>1. cur[s] \in RowType BY <1>0, <2>0
    <3> QED BY <3>1 DEF RowType
  <2>4. Latest(s) = work BY <2>0, <2>1 DEF Indexed, ReservedIsOurs, Latest
  <2>5. Known(base[s], work) BY <1>b, <2>0, <2>2, <2>4 DEF BaseIsLatest
  <2> HIDE DEF counted
  <2>6. r \in RowType /\ Known(r, counted)
    BY <1>0, <2>0, <2>3, <2>5, WrittenFacts, WrittenOnBase
  <2> HIDE DEF r
  <2>7. r.count = cur[s].count + 1 /\ r.resetAt = cur[s].resetAt
    BY <2>3, <2>6 DEF Known, SameCycle
  <2>8. SameCycle(cur[s], row) \/ LaterCycle(cur[s], row)
    BY <1>b, <2>0, <2>2 DEF CycleKnown
  <2>9. row'.count = made'
    BY <1>0, <1>b, <2>0, <2>1, <2>2, <2>6, <2>7, <2>8, CommitKeepsCount
  <2> QED BY <2>0, <2>1, <2>2, <2>9, CloseAlone DEF CountIsTrueAlone
<1>14. ASSUME NEW s \in Requests, NEW q \in RowType, Rewrite(s, q),
              q.count = cur[s].count, q.resetAt = cur[s].resetAt
       PROVE  Alone' /\ CountIsTrueAlone'
  <2> DEFINE r == Written(base[s], q, row)
  <2>0. s \in Sessions BY DEF Sessions
  <2>1. /\ pc[s] = "loaded" /\ Committed(s, r, 0) /\ Close(s) /\ overlapped' = overlapped
    BY <1>14 DEF Rewrite
  <2>2. Open(s) /\ ~overlapped BY <2>1 DEF Open
  <2>3. SameCycle(cur[s], row) /\ Known(base[s], row)
    BY <1>b, <2>1, <2>2 DEF LoadedIsRow
  <2>4. r \in RowType /\ Known(r, q)
    BY <1>0, <2>0, <2>3, WrittenFacts, WrittenOnBase
  <2> HIDE DEF r
  <2>5. r.count = cur[s].count + 0 /\ r.resetAt = cur[s].resetAt
    <3>1. cur[s].count \in Nat BY <1>0, <2>0 DEF RowType
    <3> QED BY <1>14, <2>4, <3>1 DEF Known, SameCycle
  <2>6. row'.count = made'
    BY <1>0, <1>b, <2>0, <2>1, <2>2, <2>3, <2>4, <2>5, CommitKeepsCount
  <2> QED BY <2>0, <2>1, <2>2, <2>6, CloseAlone DEF CountIsTrueAlone
<1>7. ASSUME NEW s \in Requests, NEW mode \in Modes, SetMode(s, mode)
      PROVE  Alone' /\ CountIsTrueAlone'
  <2>1. cur[s] \in RowType BY <1>0 DEF Sessions
  <2> QED BY <1>7, <1>14, <2>1, WithModeFacts DEF SetMode
<1>15. ASSUME NEW s \in Requests, RotateSecret(s) PROVE Alone' /\ CountIsTrueAlone'
  <2>1. cur[s] \in RowType /\ rotations' \in Nat BY <1>0 DEF Sessions, TypeOK
  <2> QED BY <1>14, <1>15, <2>1, WithSecretFacts DEF RotateSecret
<1>8. ASSUME NEW a \in Amounts, Credit(a) PROVE Alone' /\ CountIsTrueAlone'
  <2> DEFINE mine == [Current(cur[Poller]) EXCEPT !.volume = @ + a]
  <2>1. cur' = [cur EXCEPT ![Poller] = mine] /\ pc[Poller] = "loaded"
        /\ UNCHANGED <<row, holder, work, pc, base, made, overlapped>>
    BY <1>8 DEF Credit
  <2>2. ~overlapped /\ Open(Poller) BY <2>1 DEF Open
  <2>3. SameCycle(cur[Poller], row) \/ LaterCycle(cur[Poller], row)
    BY <1>b, <1>a, <2>2 DEF CycleKnown
  <2>4. SameCycle(Current(cur[Poller]), row) \/ LaterCycle(Current(cur[Poller]), row)
    BY <1>0, <1>a, <2>3, CurrentCycle
  <2>5. SameCycle(mine, Current(cur[Poller]))
    <3>1. Current(cur[Poller]) \in RowType BY <1>0, <1>a, CurrentFacts
    <3> QED BY <3>1 DEF RowType, SameCycle
  <2> HIDE DEF mine
  <2>6. SameCycle(mine, row) \/ LaterCycle(mine, row)
    BY <2>4, <2>5 DEF SameCycle, LaterCycle
  <2>7. \A t \in Sessions : cur'[t] = IF t = Poller THEN mine ELSE cur[t]
    BY <2>1 DEF TypeOK
  <2>8. CycleKnown'
    BY <1>b, <2>1, <2>2, <2>6, <2>7 DEF CycleKnown, SameCycle, LaterCycle, Open
  <2>9. LoadedIsRow'
    BY <1>b, <2>1, <2>2, <2>7, SessionAssumption DEF LoadedIsRow, SameCycle, Sessions
  <2>10. Sole' /\ HolderOpen' /\ BaseIsLatest' /\ CountIsTrueAlone'
    BY <1>b, <2>1, <2>2 DEF Sole, HolderOpen, BaseIsLatest, Latest, Open, CountIsTrueAlone
  <2> QED BY <2>8, <2>9, <2>10 DEF Alone
<1>9. CASE AutoFlush
  <2> DEFINE w == Written(base[Poller], cur[Poller], Latest(Poller))
  <2>1. /\ pc[Poller] = "loaded" /\ holder' = Poller /\ work' = w
        /\ base' = [base EXCEPT ![Poller] = cur[Poller]]
        /\ UNCHANGED <<row, pc, cur, made, overlapped>>
    BY <1>9 DEF AutoFlush, history
  <2>2. ~overlapped /\ Open(Poller) BY <2>1 DEF Open
  <2>3. Latest(Poller) \in RowType BY <1>a, LatestType
  <2>4. Known(base[Poller], Latest(Poller)) BY <1>a, <1>b, <2>2 DEF BaseIsLatest
  <2>5. Known(w, cur[Poller]) BY <1>0, <1>a, <2>3, <2>4, WrittenOnBase
  <2> HIDE DEF w
  <2>6. base'[Poller] = cur[Poller] /\ Latest(Poller)' = w
    BY <1>a, <2>1 DEF TypeOK, Latest
  <2>7. \A t \in Sessions : Open(t)' <=> t = Poller
    BY <1>a, <1>b, <2>1, <2>2 DEF Sole, Open
  <2>8. Sole' /\ HolderOpen' BY <1>a, <2>1, <2>7 DEF Sole, HolderOpen
  <2>9. BaseIsLatest' BY <2>1, <2>5, <2>6, <2>7 DEF BaseIsLatest, Known, SameCycle
  <2>10. CycleKnown' BY <1>b, <2>1, <2>2 DEF CycleKnown, SameCycle, LaterCycle, Open
  <2>11. LoadedIsRow'
    BY <1>b, <2>1, <2>2, <2>7, SessionAssumption DEF LoadedIsRow, SameCycle, Open, Sessions, TypeOK
  <2>12. CountIsTrueAlone' BY <1>b, <2>1, <2>2 DEF CountIsTrueAlone
  <2> QED BY <2>8, <2>9, <2>10, <2>11, <2>12 DEF Alone
<1>10. CASE PruneCommits
  <2>1. /\ pc[Poller] = "loaded" /\ holder = Poller /\ cur[Poller] = base[Poller]
        /\ Committed(Poller, work, 0) /\ row' = work /\ holder' = Nobody
        /\ UNCHANGED <<pc, base, cur, overlapped>>
    BY <1>10 DEF PruneCommits, Committed, ReleaseLock
  <2>2. ~overlapped /\ Open(Poller) /\ Latest(Poller) = work BY <2>1 DEF Open, Latest
  <2>3. Known(cur[Poller], work) BY <1>a, <1>b, <2>1, <2>2 DEF BaseIsLatest
  <2>4. SameCycle(cur[Poller], row) \/ LaterCycle(cur[Poller], row)
    BY <1>a, <1>b, <2>2 DEF CycleKnown
  <2>5. work.count = work.count + 0 BY <1>0 DEF RowType
  <2>6. SameCycle(work, row) \/ LaterCycle(work, row)
    BY <2>3, <2>4 DEF Known, SameCycle, LaterCycle
  <2>7. row'.count = made'
    BY <1>0, <1>a, <1>b, <2>1, <2>2, <2>5, <2>6, CommitKeepsCount
  <2>8. \A t \in Sessions : Open(t)' <=> t = Poller
    BY <1>a, <1>b, <2>1, <2>2 DEF Sole, Open
  <2>9. Sole' /\ HolderOpen' BY <2>1, <2>8 DEF Sole, HolderOpen
  <2>10. Latest(Poller)' = work BY <1>a, <2>1, SessionAssumption DEF Latest
  <2>11. BaseIsLatest' BY <2>1, <2>3, <2>8, <2>10 DEF BaseIsLatest, Known, SameCycle
  <2>12. CycleKnown' BY <2>1, <2>3, <2>8 DEF CycleKnown, Known, SameCycle
  <2>13. LoadedIsRow' BY <2>1, <2>8, SessionAssumption DEF LoadedIsRow, Open, Sessions
  <2> QED BY <2>7, <2>9, <2>11, <2>12, <2>13 DEF Alone, CountIsTrueAlone
<1>11. CASE EndPass
  <2> DEFINE r == Written(base[Poller], cur[Poller], Latest(Poller))
  <2>1. /\ pc[Poller] = "loaded" /\ Committed(Poller, r, 0) /\ Close(Poller)
        /\ overlapped' = overlapped
    BY <1>11 DEF EndPass
  <2>2. Open(Poller) /\ ~overlapped BY <2>1 DEF Open
  <2>3. Latest(Poller) \in RowType BY <1>a, LatestType
  <2>4. Known(base[Poller], Latest(Poller)) BY <1>a, <1>b, <2>2 DEF BaseIsLatest
  <2>5. r \in RowType /\ Known(r, cur[Poller])
    BY <1>0, <1>a, <2>3, <2>4, WrittenFacts, WrittenOnBase
  <2> HIDE DEF r
  <2>6. r.count = cur[Poller].count + 0 /\ r.resetAt = cur[Poller].resetAt
    <3>1. cur[Poller].count \in Nat BY <1>0, <1>a DEF RowType
    <3> QED BY <2>5, <3>1 DEF Known, SameCycle
  <2>7. SameCycle(cur[Poller], row) \/ LaterCycle(cur[Poller], row)
    BY <1>a, <1>b, <2>2 DEF CycleKnown
  <2>8. row'.count = made'
    BY <1>0, <1>a, <1>b, <2>1, <2>2, <2>5, <2>6, <2>7, CommitKeepsCount
  <2> QED BY <1>a, <2>1, <2>2, <2>8, CloseAlone DEF CountIsTrueAlone
<1>12. ASSUME NEW s \in Requests, Request(s) PROVE Alone' /\ CountIsTrueAlone'
  <2>1. s \in Sessions BY DEF Sessions
  <2> QED BY <1>2, <1>3, <1>4, <1>5, <1>6, <1>7, <1>12, <1>15, <2>1 DEF Request
<1>13. CASE Pass
  BY <1>2, <1>3, <1>8, <1>9, <1>10, <1>11, <1>13, <1>a DEF Pass
<1> QED BY <1>1, <1>12, <1>13 DEF Next

(* What a session that is alone may commit.                                *)
LEMMA AloneCommits ==
    ASSUME TypeOK, Indexed, Alone, ~overlapped, NEW s \in Sessions, Open(s),
           NEW new \in RowType
    PROVE  Written(base[s], new, Latest(s)) \in RowType
           /\ Known(Written(base[s], new, Latest(s)), new)
<1>1. Latest(s) \in RowType /\ base[s] \in RowType BY LatestType DEF TypeOK
<1>2. Known(base[s], Latest(s)) BY DEF Alone, BaseIsLatest
<1> QED BY <1>1, <1>2, WrittenFacts, WrittenOnBase

(* A mode that changes has changed with the cycle, or before the first one. *)
ModeKept == row'.mode # row.mode => row.resetAt = 0 \/ row'.resetAt # row.resetAt

LEMMA NextMode ==
    TypeOK /\ Indexed /\ Alone /\ [Next]_vars /\ ~overlapped' => ModeKept
<1> SUFFICES ASSUME TypeOK, Indexed, Alone, [Next]_vars, ~overlapped', row'.mode # row.mode
             PROVE  row.resetAt = 0 \/ row'.resetAt # row.resetAt
  BY DEF ModeKept
<1>0. /\ row \in RowType /\ row.resetAt \in Nat
      /\ \A s \in Sessions : cur[s] \in RowType /\ cur[s].resetAt \in Nat
  BY DEF TypeOK, RowType
<1>1. ASSUME NEW s \in Sessions, Open(s), ~overlapped,
             row'.mode = cur[s].mode, row'.resetAt = cur[s].resetAt
      PROVE  row'.resetAt # row.resetAt
  <2>1. SameCycle(cur[s], row) \/ LaterCycle(cur[s], row) BY <1>1 DEF Alone, CycleKnown
  <2> QED BY <1>0, <1>1, <2>1 DEF SameCycle, LaterCycle
<1>2. ASSUME NEW s \in Requests, CommitOrder(s) PROVE row'.resetAt # row.resetAt
  <2> DEFINE counted == [cur[s] EXCEPT !.count = @ + 1]
  <2>1. s \in Sessions /\ cur[s] \in RowType BY <1>0 DEF Sessions
  <2>2. /\ pc[s] = "reserved" /\ row' = Written(base[s], counted, work) /\ ~overlapped
    BY <1>2 DEF CommitOrder, Committed, Counted
  <2>3. Open(s) /\ Latest(s) = work BY <2>1, <2>2 DEF Open, Indexed, ReservedIsOurs, Latest
  <2>4. counted \in RowType /\ counted.mode = cur[s].mode /\ counted.resetAt = cur[s].resetAt
    BY <2>1 DEF RowType
  <2> HIDE DEF counted
  <2>5. Known(row', counted) BY <2>1, <2>2, <2>3, <2>4, AloneCommits
  <2> QED BY <1>1, <2>1, <2>2, <2>3, <2>4, <2>5 DEF Known, SameCycle
<1>3. ASSUME NEW s \in Requests, NEW q \in RowType, Rewrite(s, q), q.resetAt = cur[s].resetAt,
             q.mode = cur[s].mode \/ cur[s].resetAt = 0
      PROVE  row.resetAt = 0 \/ row'.resetAt # row.resetAt
  <2>1. s \in Sessions BY DEF Sessions
  <2>2. /\ pc[s] = "loaded" /\ LockFree(s) /\ row' = Written(base[s], q, row)
        /\ overlapped' = overlapped /\ Open(s)
    BY <1>3 DEF Rewrite, Committed, Close, Open
  <2>3. ~overlapped BY <1>3, <2>2 DEF Rewrite
  <2>4. SameCycle(cur[s], row) /\ Known(base[s], row) BY <2>2, <2>3 DEF Alone, LoadedIsRow
  <2>5. Known(row', q) BY <1>0, <2>1, <2>2, <2>4, WrittenOnBase DEF TypeOK
  <2> QED BY <1>3, <2>4, <2>5 DEF Known, SameCycle
<1>4. ASSUME NEW s \in Requests, NEW mode \in Modes, SetMode(s, mode)
      PROVE  row.resetAt = 0 \/ row'.resetAt # row.resetAt
  <2>1. cur[s] \in RowType BY <1>0 DEF Sessions
  <2>2. WithMode(cur[s], mode).mode = cur[s].mode \/ cur[s].resetAt = 0
    BY <2>1 DEF WithMode, RowType
  <2> QED BY <1>3, <1>4, <2>1, <2>2, WithModeFacts DEF SetMode
<1>5. ASSUME NEW s \in Requests, RotateSecret(s)
      PROVE  row.resetAt = 0 \/ row'.resetAt # row.resetAt
  <2>1. cur[s] \in RowType /\ rotations' \in Nat BY <1>0, <1>5 DEF Sessions, TypeOK, RotateSecret
  <2>2. WithSecret(cur[s], rotations').mode = cur[s].mode BY <2>1 DEF WithSecret, RowType
  <2> QED BY <1>3, <1>5, <2>1, <2>2, WithSecretFacts DEF RotateSecret
<1>6. ASSUME PruneCommits \/ EndPass PROVE row'.resetAt # row.resetAt
  <2>1. Poller \in Sessions /\ Open(Poller) /\ ~overlapped
    BY <1>6 DEF PruneCommits, EndPass, Open, Sessions
  <2>2. Known(row', cur[Poller])
    <3>1. CASE PruneCommits
      <4>1. row' = work /\ Latest(Poller) = work /\ cur[Poller] = base[Poller]
        BY <3>1 DEF PruneCommits, Committed, Latest
      <4>2. Known(base[Poller], Latest(Poller)) BY <2>1 DEF Alone, BaseIsLatest
      <4> QED BY <4>1, <4>2 DEF Known, SameCycle
    <3>2. CASE EndPass
      <4>1. row' = Written(base[Poller], cur[Poller], Latest(Poller))
        BY <3>2 DEF EndPass, Committed
      <4> QED BY <1>0, <2>1, <4>1, AloneCommits
    <3> QED BY <1>6, <3>1, <3>2
  <2> QED BY <1>1, <2>1, <2>2 DEF Known, SameCycle
<1>7. row' # row OBVIOUS
<1> QED
  BY <1>2, <1>4, <1>5, <1>6, <1>7
     DEF Next, Tick, Request, Pass, Load, Refuse, Accept, Reserve, Credit, AutoFlush, Abort, vars

-----------------------------------------------------------------------------
(* The cap *)

(* A checkout goes on only with a copy that leaves it room.                 *)
Admitted == \A s \in Requests : pc[s] \in {"reserving", "reserved"} => ~OutOfQuota(cur[s])

LEMMA NextAdmitted ==
    TypeOK /\ Admitted /\ [Next]_vars => Admitted'
<1> SUFFICES ASSUME TypeOK, Admitted, [Next]_vars, NEW t \in Requests,
                    pc'[t] \in {"reserving", "reserved"}
             PROVE  ~OutOfQuota(cur'[t])
  BY DEF Admitted, OutOfQuota
<1> USE DEF Admitted
<1>0. /\ t \in Sessions /\ t # Poller /\ cur[t] \in RowType
      /\ \A s \in Requests : s \in Sessions
  BY SessionAssumption DEF Sessions, TypeOK
<1>1. CASE UNCHANGED <<pc, cur>>
  BY <1>1
<1>2. ASSUME NEW s \in Sessions, Load(s) \/ Close(s) PROVE ~OutOfQuota(cur'[t])
  <2>1. s # t BY <1>0, <1>2 DEF Load, Close, TypeOK
  <2> QED BY <1>0, <1>2, <2>1 DEF Load, Close, TypeOK
<1>3. ASSUME NEW s \in Requests, Accept(s) PROVE ~OutOfQuota(cur'[t])
  BY <1>0, <1>3 DEF Accept, TypeOK
<1>4. ASSUME NEW s \in Requests, Reserve(s) PROVE ~OutOfQuota(cur'[t])
  <2>1. CASE s # t
    BY <1>0, <1>4, <2>1 DEF Reserve, TypeOK
  <2>2. CASE s = t
    <3> DEFINE mine == [cur[t] EXCEPT !.index = NextIndex(t)]
    <3>1. cur'[t] = mine BY <1>0, <1>4, <2>2 DEF Reserve, TypeOK
    <3>2. mine.mode = cur[t].mode /\ mine.plan = cur[t].plan /\ mine.count = cur[t].count
      BY <1>0 DEF RowType
    <3>3. ~OutOfQuota(cur[t]) BY <1>4, <2>2 DEF Reserve
    <3> QED BY <3>1, <3>2, <3>3 DEF OutOfQuota
  <2> QED BY <2>1, <2>2
<1>5. CASE \E a \in Amounts : Credit(a)
  BY <1>0, <1>5 DEF Credit, TypeOK
<1> QED
  BY <1>0, <1>1, <1>2, <1>3, <1>4, <1>5
     DEF Next, Tick, Request, Pass, Refuse, CommitOrder, SetMode, RotateSecret, Rewrite,
         AutoFlush, PruneCommits, EndPass, Abort, vars, Sessions

(* An order committed leaves a free flat merchant within the cap.           *)
QuotaStep ==
    orders' # orders => Uncapped(row') \/ row'.count <= Cap

LEMMA NextQuota ==
    TypeOK /\ Indexed /\ Alone /\ Admitted /\ [Next]_vars /\ ~overlapped' => QuotaStep
<1> SUFFICES ASSUME TypeOK, Indexed, Alone, Admitted, [Next]_vars, ~overlapped', orders' # orders
             PROVE  Uncapped(row') \/ row'.count <= Cap
  BY DEF QuotaStep
<1>1. PICK s \in Requests : CommitOrder(s)
  BY DEF Next, Tick, Request, Pass, Load, Refuse, Accept, Reserve, SetMode, RotateSecret, Rewrite,
         Credit, AutoFlush, PruneCommits, EndPass, Abort, vars
<1> DEFINE counted == [cur[s] EXCEPT !.count = @ + 1]
<1>2. s \in Sessions /\ cur[s] \in RowType BY DEF Sessions, TypeOK
<1>3. pc[s] = "reserved" /\ row' = Written(base[s], counted, work) /\ ~overlapped
  BY <1>1 DEF CommitOrder, Committed, Counted
<1>4. Open(s) /\ Latest(s) = work BY <1>2, <1>3 DEF Open, Indexed, ReservedIsOurs, Latest
<1>5. /\ counted \in RowType /\ counted.mode = cur[s].mode /\ counted.plan = cur[s].plan
      /\ counted.count = cur[s].count + 1
  BY <1>2 DEF RowType
<1> HIDE DEF counted
<1>6. Known(row', counted) BY <1>2, <1>3, <1>4, <1>5, AloneCommits
<1>7. ~OutOfQuota(cur[s]) BY <1>3 DEF Admitted
<1> QED
  BY <1>2, <1>5, <1>6, <1>7, BillingAssumption
     DEF OutOfQuota, Uncapped, Known, SameCycle, RowType, Modes

LEMMA AloneCorrect == Spec => [](Alone /\ CountIsTrueAlone)
<1>1. Init => Alone /\ CountIsTrueAlone
  BY DEF Init, Alone, Sole, HolderOpen, BaseIsLatest, CycleKnown, LoadedIsRow, Open, Sessions,
         CountIsTrueAlone, Fresh
<1>2. TypeOK /\ TypeOK' /\ Indexed /\ Alone /\ CountIsTrueAlone /\ [Next]_vars
        => Alone' /\ CountIsTrueAlone'
  BY NextAlone
<1> QED BY <1>1, <1>2, TypeCorrect, PTL DEF Spec

(* As long as no two sessions on the merchant's row have been open          *)
(* together, monthly_order_count is exactly the number of orders committed  *)
(* in the billing cycle, through rollovers, refusals, aborted requests and  *)
(* the pass's own commits.                                                  *)
THEOREM CountIsExactAlone == Spec => []CountIsTrueAlone
<1> QED BY AloneCorrect, PTL

(* Alone, no request changes the billing mode of a cycle under way          *)
(* (set_billing_mode, _ensure_billing_cycle_current).                       *)
THEOREM ModeIsKeptAlone == Spec => ModeGovernsCycleAlone
<1> DEFINE Kept == row'.mode # row.mode /\ ~overlapped'
                      => row.resetAt = 0 \/ row'.resetAt # row.resetAt
<1>1. TypeOK /\ Indexed /\ Alone /\ [Next]_vars => [Kept]_vars
  BY NextMode DEF ModeKept
<1> QED BY <1>1, AloneCorrect, TypeCorrect, PTL DEF Spec, ModeGovernsCycleAlone

(* Alone, a merchant on the free plan and the flat mode never gets more     *)
(* orders in a cycle than FREE_MONTHLY_ORDER_CAP (create_order).            *)
THEOREM QuotaIsKeptAlone == Spec => QuotaKeptAlone
<1> DEFINE Kept == orders' # orders /\ ~overlapped' => Uncapped(row') \/ made' <= Cap
<1>1. TypeOK /\ Indexed /\ Alone /\ Admitted /\ CountIsTrueAlone' /\ [Next]_vars => [Kept]_vars
  BY NextQuota DEF QuotaStep, CountIsTrueAlone
<1>2. Init => Admitted BY DEF Init, Admitted, Sessions
<1>3. TypeOK /\ Admitted /\ [Next]_vars => Admitted' BY NextAdmitted
<1> QED BY <1>1, <1>2, <1>3, AloneCorrect, TypeCorrect, PTL DEF Spec, QuotaKeptAlone

-----------------------------------------------------------------------------
(* The webhook secret.  Only a rotation changes it in a copy of the row, so *)
(* no other session's commit writes the column, and a rotation commits at   *)
(* once: the lock's holder has never touched it.                            *)

SecretUntouched ==
    /\ \A s \in Sessions : base[s].secret = cur[s].secret /\ base[s].secret <= rotations
    /\ holder # Nobody => work.secret = row.secret

SecretInv == SecretUntouched /\ SecretIsLastIssued

LEMMA LatestSecret ==
    ASSUME SecretInv, NEW s \in Sessions
    PROVE  Latest(s).secret = row.secret
BY SessionAssumption DEF SecretInv, SecretUntouched, Latest

LEMMA CloseSecret ==
    ASSUME TypeOK, SecretInv, NEW s \in Sessions, Close(s), UNCHANGED row \/ LockFree(s),
           rotations' \in Nat, rotations' >= rotations
    PROVE  SecretUntouched'
<1>0. /\ base' = [base EXCEPT ![s] = Closed] /\ cur' = [cur EXCEPT ![s] = Closed]
      /\ Closed.secret = 0 /\ rotations \in Nat
      /\ \A t \in Sessions : base[t].secret \in Nat
  BY DEF Close, Closed, Fresh, TypeOK, RowType
<1>1. \A t \in Sessions : base'[t].secret = cur'[t].secret /\ base'[t].secret <= rotations'
  BY <1>0 DEF SecretInv, SecretUntouched, TypeOK
<1>2. holder' # Nobody => work'.secret = row'.secret
  BY DEF SecretInv, SecretUntouched, Close, ReleaseLock, LockFree
<1> QED BY <1>1, <1>2 DEF SecretUntouched

LEMMA NextSecret == TypeOK /\ TypeOK' /\ Indexed /\ SecretInv /\ [Next]_vars => SecretInv'
<1> SUFFICES ASSUME TypeOK, TypeOK', Indexed, SecretInv, [Next]_vars PROVE SecretInv'
  OBVIOUS
<1>0. /\ row \in RowType /\ work \in RowType /\ clock \in Nat
      /\ \A s \in Sessions : cur[s] \in RowType /\ base[s] \in RowType /\ Latest(s) \in RowType
      /\ \A s \in Sessions : base[s].secret = cur[s].secret /\ Latest(s).secret = row.secret
      /\ \A s \in Sessions : base[s].secret <= rotations
      /\ row.secret = rotations /\ Poller \in Sessions /\ rotations \in Nat
  BY LatestType, LatestSecret DEF TypeOK, SecretInv, SecretUntouched, SecretIsLastIssued, Sessions
<1>1. CASE Tick \/ UNCHANGED vars
  BY <1>1 DEF Tick, history, vars, SecretInv, SecretUntouched, SecretIsLastIssued
<1>2. ASSUME NEW s \in Sessions, Load(s) PROVE SecretInv'
  BY <1>2 DEF Load, SecretInv, SecretUntouched, SecretIsLastIssued, TypeOK
<1>3. ASSUME NEW s \in Sessions, Abort(s) \/ Refuse(s) PROVE SecretInv'
  <2>1. Close(s) /\ UNCHANGED <<row, rotations>> BY <1>3 DEF Abort, Refuse
  <2> QED BY <1>0, <2>1, CloseSecret DEF SecretInv, SecretIsLastIssued
<1>4. ASSUME NEW s \in Sessions, Accept(s) PROVE SecretInv'
  <2>1. Current(cur[s]).secret = cur[s].secret BY <1>0, CurrentFacts
  <2> QED BY <1>4, <2>1 DEF Accept, SecretInv, SecretUntouched, SecretIsLastIssued, TypeOK, history
<1>5. ASSUME NEW s \in Sessions, Reserve(s) PROVE SecretInv'
  <2> DEFINE w == Written(base[s], cur[s], Latest(s))
             mine == [cur[s] EXCEPT !.index = NextIndex(s)]
  <2>1. w \in RowType /\ w.secret = row.secret BY <1>0, WrittenFacts
  <2>2. [w EXCEPT !.index = NextIndex(s)].secret = row.secret BY <2>1 DEF RowType
  <2>3. /\ work' = [w EXCEPT !.index = NextIndex(s)]
        /\ base' = [base EXCEPT ![s] = mine] /\ cur' = [cur EXCEPT ![s] = mine]
        /\ UNCHANGED <<row, rotations>>
    BY <1>5 DEF Reserve, history
  <2>0. mine.secret = cur[s].secret
    <3>1. cur[s] \in RowType BY <1>0
    <3> QED BY <3>1 DEF RowType
  <2> HIDE DEF w, mine
  <2>4. \A t \in Sessions : base'[t].secret = cur'[t].secret /\ base'[t].secret <= rotations
    BY <1>0, <2>0, <2>3 DEF TypeOK
  <2> QED BY <1>0, <2>2, <2>3, <2>4 DEF SecretInv, SecretUntouched, SecretIsLastIssued
<1>6. ASSUME NEW s \in Sessions, CommitOrder(s) PROVE SecretInv'
  <2> DEFINE counted == [cur[s] EXCEPT !.count = @ + 1]
  <2>1. counted \in RowType /\ counted.secret = cur[s].secret
    <3>1. cur[s] \in RowType BY <1>0
    <3> QED BY <3>1 DEF RowType
  <2>2. /\ pc[s] = "reserved" /\ Close(s) /\ UNCHANGED rotations
        /\ row' = Written(base[s], counted, work)
    BY <1>6 DEF CommitOrder, Counted, Committed
  <2>3. LockFree(s) /\ work = Latest(s)
    BY <2>2 DEF Indexed, ReservedIsOurs, LockFree, Latest
  <2> HIDE DEF counted
  <2>4. row'.secret = row.secret BY <1>0, <2>1, <2>2, <2>3, WrittenFacts
  <2> QED BY <1>0, <2>2, <2>3, <2>4, CloseSecret DEF SecretInv, SecretIsLastIssued
<1>7. ASSUME NEW s \in Sessions, NEW mode \in Modes, SetMode(s, mode) PROVE SecretInv'
  <2>1. /\ LockFree(s) /\ Close(s) /\ UNCHANGED rotations
        /\ row' = Written(base[s], WithMode(cur[s], mode), row)
    BY <1>7 DEF SetMode, Rewrite, Committed
  <2>2. WithMode(cur[s], mode) \in RowType /\ WithMode(cur[s], mode).secret = cur[s].secret
    BY <1>0, WithModeFacts
  <2>3. row'.secret = row.secret BY <1>0, <2>1, <2>2, WrittenFacts
  <2> QED BY <1>0, <2>1, <2>3, CloseSecret DEF SecretInv, SecretIsLastIssued
<1>8. ASSUME NEW s \in Sessions, RotateSecret(s) PROVE SecretInv'
  <2>1. /\ LockFree(s) /\ Close(s) /\ rotations' = rotations + 1
        /\ row' = Written(base[s], WithSecret(cur[s], rotations'), row)
    BY <1>8 DEF RotateSecret, Rewrite, Committed
  <2>2. rotations \in Nat /\ rotations' \in Nat BY DEF TypeOK
  <2>3. /\ WithSecret(cur[s], rotations') \in RowType
        /\ WithSecret(cur[s], rotations').secret = rotations'
    BY <1>0, <2>2, WithSecretFacts
  <2>4. row'.secret = IF rotations' = base[s].secret THEN row.secret ELSE rotations'
    BY <1>0, <2>1, <2>3, WrittenFacts
  <2>5. base[s].secret <= rotations /\ base[s].secret \in Nat BY <1>0 DEF RowType
  <2>6. row'.secret = rotations'
    BY <1>0, <2>1, <2>2, <2>4, <2>5
  <2>7. rotations' >= rotations BY <2>1, <2>2
  <2> QED BY <2>1, <2>2, <2>6, <2>7, CloseSecret DEF SecretInv, SecretIsLastIssued
<1>9. ASSUME NEW a \in Amounts, Credit(a) PROVE SecretInv'
  <2> DEFINE mine == [Current(cur[Poller]) EXCEPT !.volume = @ + a]
  <2>1. Current(cur[Poller]) \in RowType /\ Current(cur[Poller]).secret = cur[Poller].secret
    BY <1>0, CurrentFacts
  <2>2. mine.secret = cur[Poller].secret BY <2>1 DEF RowType
  <2>3. cur' = [cur EXCEPT ![Poller] = mine] /\ UNCHANGED <<row, holder, work, base, rotations>>
    BY <1>9 DEF Credit
  <2> HIDE DEF mine
  <2> QED BY <1>0, <2>2, <2>3 DEF SecretInv, SecretUntouched, SecretIsLastIssued, TypeOK
<1>10. CASE AutoFlush
  <2>1. Written(base[Poller], cur[Poller], Latest(Poller)).secret = row.secret
    BY <1>0, WrittenFacts
  <2> QED BY <1>0, <1>10, <2>1 DEF AutoFlush, SecretInv, SecretUntouched, SecretIsLastIssued,
                                  TypeOK, history
<1>11. CASE PruneCommits
  <2>1. row' = work /\ holder = Poller /\ holder' = Nobody /\ UNCHANGED <<base, cur, rotations>>
    BY <1>11 DEF PruneCommits, Committed, ReleaseLock
  <2>2. work.secret = row.secret BY <1>0, <2>1 DEF Latest
  <2> QED BY <1>0, <2>1, <2>2 DEF SecretInv, SecretUntouched, SecretIsLastIssued
<1>12. CASE EndPass
  <2>1. /\ LockFree(Poller) /\ Close(Poller) /\ UNCHANGED rotations
        /\ row' = Written(base[Poller], cur[Poller], Latest(Poller))
    BY <1>12 DEF EndPass, Committed
  <2>2. row'.secret = row.secret BY <1>0, <2>1, WrittenFacts
  <2> QED BY <1>0, <2>1, <2>2, CloseSecret DEF SecretInv, SecretIsLastIssued
<1>13. ASSUME NEW s \in Sessions, Request(s) PROVE SecretInv'
  BY <1>2, <1>3, <1>4, <1>5, <1>6, <1>7, <1>8, <1>13 DEF Request
<1>14. CASE Pass
  BY <1>0, <1>2, <1>3, <1>9, <1>10, <1>11, <1>12, <1>14 DEF Pass
<1> QED BY <1>1, <1>13, <1>14 DEF Next, Sessions

(* The webhook secret in force is the one issued last, for any number of    *)
(* overlapping checkouts, settings changes, rotations and poller passes     *)
(* (regenerate_webhook_secret; the changed-columns UPDATE of the others).   *)
THEOREM LastSecretInForce == Spec => []SecretIsLastIssued
<1>1. Init => SecretInv
  BY SessionAssumption DEF Init, SecretInv, SecretUntouched, SecretIsLastIssued, Fresh, Closed
<1>2. TypeOK /\ TypeOK' /\ Indexed /\ SecretInv /\ [Next]_vars => SecretInv'
  BY NextSecret
<1>3. SecretInv => SecretIsLastIssued BY DEF SecretInv
<1> QED BY <1>1, <1>2, <1>3, TypeCorrect, PTL DEF Spec

-----------------------------------------------------------------------------
(* The volume.  Unless a session that another one was open beside began a   *)
(* cycle, every session still knows the cycle the row is in; the poller's   *)
(* copy has the row's volume and what it has credited since; and a request  *)
(* leaves the volume alone, or begins a cycle with none.                    *)

Keeps(s) == cur[s].resetAt = row.resetAt

RowKnown(s) ==
    /\ base[s].resetAt = Latest(s).resetAt
    /\ cur[s].resetAt >= row.resetAt
    /\ s = Poller \/ s \notin crowded => base[s].volume = Latest(s).volume

PollerOwes ==
    cur[Poller].volume = (IF Keeps(Poller) THEN row.volume ELSE 0) + credited

RequestKeeps(s) ==
    /\ Keeps(s) => cur[s].volume = base[s].volume /\ Latest(s).volume = row.volume
    /\ ~Keeps(s) /\ s \notin crowded => cur[s].volume = 0
    /\ pc[s] = "loaded" => holder # s /\ cur[s].resetAt = base[s].resetAt

SessionVolume(s) ==
    /\ RowKnown(s)
    /\ s = Poller => PollerOwes
    /\ s # Poller => RequestKeeps(s)

BesideIsCrowded == \A s, t \in Sessions : Open(s) /\ Open(t) /\ s # t => s \in crowded

VolumeInv ==
    /\ HolderOpen /\ BesideIsCrowded
    /\ ~Open(Poller) => credited = 0
    /\ ~staleRoll => row.volume = billed /\ \A s \in Sessions : Open(s) => SessionVolume(s)

(* Bringing a row up to date, as far as the volume goes.                    *)
LEMMA CurrentVolume ==
    ASSUME NEW r \in RowType, clock \in Nat
    PROVE  /\ Current(r) \in RowType
           /\ CycleOver(r) => Current(r).volume = 0 /\ Current(r).resetAt > r.resetAt
           /\ ~CycleOver(r) => Current(r).volume = r.volume /\ Current(r).resetAt = r.resetAt
<1>1. r.resetAt \in Nat BY DEF RowType
<1>2. CASE CycleOver(r)
  <2>1. Current(r) = Lapsed(RolledOver(r)) BY <1>2 DEF Current
  <2>2. RolledOver(r) \in RowType BY RolledOverFacts
  <2>3. RolledOver(r).volume = 0 /\ RolledOver(r).resetAt = clock + CycleLength
    BY DEF RolledOver, RowType
  <2>4. Lapsed(RolledOver(r)).volume = RolledOver(r).volume
    BY <2>2 DEF Lapsed, RowType
  <2>5. clock + CycleLength > r.resetAt
    BY <1>1, <1>2, BillingAssumption DEF CycleOver
  <2> QED BY <1>2, <2>1, <2>2, <2>3, <2>4, <2>5, LapsedFacts
<1>3. CASE ~CycleOver(r)
  <2>1. Current(r) = Lapsed(r) BY <1>3 DEF Current
  <2> QED BY <1>3, <2>1, LapsedFacts DEF Lapsed, RowType
<1> QED BY <1>2, <1>3

(* A session that a step does not concern, the row being left alone.        *)
LEMMA Bystander ==
    ASSUME NEW t \in Sessions, SessionVolume(t), pc'[t] = pc[t], base'[t] = base[t],
           cur'[t] = cur[t], row' = row, Latest(t)' = Latest(t), holder' = t => holder = t,
           t \in crowded => t \in crowded', t = Poller => credited' = credited
    PROVE  SessionVolume(t)'
<1>1. Keeps(t)' <=> Keeps(t) BY DEF Keeps
<1>2. RowKnown(t)' BY DEF SessionVolume, RowKnown
<1>3. t = Poller => PollerOwes' BY DEF SessionVolume, PollerOwes, Keeps
<1>4. t # Poller => RequestKeeps(t)' BY <1>1 DEF SessionVolume, RequestKeeps
<1> QED BY <1>2, <1>3, <1>4 DEF SessionVolume

(* A session that is open while another one commits in the same cycle.      *)
LEMMA CommitBeside ==
    ASSUME NEW t \in Sessions, SessionVolume(t), pc'[t] = pc[t], base'[t] = base[t],
           cur'[t] = cur[t], holder # t, holder' # t, row'.resetAt = row.resetAt,
           t = Poller => row'.volume = row.volume /\ credited' = credited,
           t \in crowded'
    PROVE  SessionVolume(t)'
<1>1. Keeps(t)' <=> Keeps(t) BY DEF Keeps
<1>2. Latest(t) = row /\ Latest(t)' = row' BY DEF Latest
<1>3. RowKnown(t)' BY <1>2 DEF SessionVolume, RowKnown
<1>4. t = Poller => PollerOwes' BY DEF SessionVolume, PollerOwes, Keeps
<1>5. t # Poller => RequestKeeps(t)' BY <1>1, <1>2 DEF SessionVolume, RequestKeeps
<1> QED BY <1>3, <1>4, <1>5 DEF SessionVolume

(* What a commit makes of the row and of the sums, and whom it concerns.    *)
LEMMA CommitVolume ==
    ASSUME TypeOK, VolumeInv, NEW s \in Sessions, Open(s), NEW r \in RowType, NEW created,
           Committed(s, r, created), ~staleRoll', holder \in {Nobody, s}, holder' = Nobody,
           r.resetAt = cur[s].resetAt,
           s = Poller => r.volume = cur[s].volume,
           s # Poller /\ Keeps(s) => r.volume = row.volume,
           s # Poller /\ ~Keeps(s) /\ s \notin crowded => r.volume = 0,
           \A t \in Sessions \ {s} :
               pc'[t] = pc[t] /\ base'[t] = base[t] /\ cur'[t] = cur[t],
           \A t \in Sessions \ {s} : t \in crowded => t \in crowded'
    PROVE  /\ row'.volume = billed' /\ ~staleRoll
           /\ \A t \in Sessions \ {s} : Open(t)' => SessionVolume(t)'
           /\ s = Poller => credited' = 0
           /\ s # Poller => credited' = credited
<1>1. /\ row' = r /\ ~staleRoll
      /\ r.resetAt # row.resetAt => s \notin crowded
      /\ billed' = (IF r.resetAt # row.resetAt THEN 0 ELSE billed)
                      + (IF s = Poller THEN credited ELSE 0)
      /\ credited' = IF s = Poller THEN 0 ELSE credited
  BY DEF Committed, BeginsCycle
<1>2. row.volume = billed /\ \A t \in Sessions : Open(t) => SessionVolume(t)
  BY <1>1 DEF VolumeInv
<1>3. billed \in Nat /\ credited \in Nat /\ cur[s].volume \in Nat /\ r.volume \in Nat
  BY DEF TypeOK, RowType
<1>4. row'.volume = billed'
  <2>1. CASE s = Poller
    <3>1. r.volume = (IF Keeps(s) THEN row.volume ELSE 0) + credited
      BY <1>2, <2>1 DEF SessionVolume, PollerOwes
    <3> QED BY <1>1, <1>2, <1>3, <2>1, <3>1 DEF Keeps
  <2>2. CASE s # Poller
    BY <1>1, <1>2, <1>3, <2>2 DEF Keeps
  <2> QED BY <2>1, <2>2
<1>5. ASSUME NEW t \in Sessions \ {s}, Open(t)' PROVE SessionVolume(t)'
  <2>1. Open(t) BY <1>5 DEF Open
  <2>2. s \in crowded /\ t \in crowded' BY <2>1 DEF VolumeInv, BesideIsCrowded
  <2>3. row'.resetAt = row.resetAt BY <1>1, <2>2
  <2>4. holder # t /\ holder' # t BY SessionAssumption
  <2>5. t = Poller => row'.volume = row.volume /\ credited' = credited
    BY <1>1, <2>3 DEF Keeps
  <2> QED BY <1>2, <1>5, <2>1, <2>2, <2>3, <2>4, <2>5, CommitBeside
<1> QED BY <1>1, <1>4, <1>5

(* A commit that closes its session.                                        *)
LEMMA CloseVolume ==
    ASSUME TypeOK, VolumeInv, NEW s \in Sessions, Open(s), NEW r \in RowType, NEW created,
           Committed(s, r, created), Close(s), holder \in {Nobody, s},
           ~staleRoll => /\ r.resetAt = cur[s].resetAt
                         /\ s = Poller => r.volume = cur[s].volume
                         /\ s # Poller /\ Keeps(s) => r.volume = row.volume
                         /\ s # Poller /\ ~Keeps(s) /\ s \notin crowded => r.volume = 0
    PROVE  VolumeInv'
<1>1. /\ ~Open(s)' /\ holder' = Nobody /\ crowded' = crowded \ {s}
      /\ \A t \in Sessions \ {s} :
             pc'[t] = pc[t] /\ base'[t] = base[t] /\ cur'[t] = cur[t]
  BY DEF Close, ReleaseLock, Open, TypeOK
<1>2. HolderOpen' /\ BesideIsCrowded'
  BY <1>1 DEF VolumeInv, HolderOpen, BesideIsCrowded, Open
<1>3. ~Open(Poller)' => credited' = 0
  <2>1. CASE s = Poller BY <2>1 DEF Committed
  <2>2. CASE s # Poller
    <3>1. Open(Poller)' <=> Open(Poller) BY <1>1, <2>2 DEF Open, Sessions
    <3> QED BY <2>2, <3>1 DEF Committed, VolumeInv
  <2> QED BY <2>1, <2>2
<1>4. ASSUME ~staleRoll'
      PROVE  row'.volume = billed' /\ \A t \in Sessions : Open(t)' => SessionVolume(t)'
  <2>1. ~staleRoll BY <1>4 DEF Committed
  <2> QED BY <1>1, <1>4, <2>1, CommitVolume
<1> QED BY <1>2, <1>3, <1>4 DEF VolumeInv

LEMMA NextVolume ==
    TypeOK /\ TypeOK' /\ Indexed /\ VolumeInv /\ [Next]_vars => VolumeInv'
<1> SUFFICES ASSUME TypeOK, TypeOK', Indexed, VolumeInv, [Next]_vars PROVE VolumeInv'
  OBVIOUS
<1>0. /\ row \in RowType /\ work \in RowType /\ clock \in Nat /\ credited \in Nat
      /\ \A s \in Sessions : cur[s] \in RowType /\ base[s] \in RowType /\ Latest(s) \in RowType
      /\ Poller \in Sessions /\ Nobody \notin Sessions
      /\ \A s \in Requests : s \in Sessions /\ s # Poller
  BY LatestType, SessionAssumption DEF TypeOK, Sessions
<1>1. CASE Tick \/ UNCHANGED vars
  BY <1>1 DEF Tick, history, vars, VolumeInv, HolderOpen, BesideIsCrowded, Open, SessionVolume,
              RowKnown, PollerOwes, RequestKeeps, Keeps, Latest
<1>2. ASSUME NEW s \in Sessions, Load(s) PROVE VolumeInv'
  <2>1. /\ pc[s] = "closed" /\ pc' = [pc EXCEPT ![s] = "loaded"]
        /\ base' = [base EXCEPT ![s] = row] /\ cur' = [cur EXCEPT ![s] = row]
        /\ crowded' = IF OpenBeside(s) = {} THEN crowded ELSE crowded \cup {s} \cup OpenBeside(s)
        /\ UNCHANGED <<row, holder, work, credited, billed, staleRoll>>
    BY <1>2 DEF Load
  <2>2. holder # s BY <1>0, <2>1 DEF VolumeInv, HolderOpen, Open
  <2>3. \A t \in Sessions \ {s} : pc'[t] = pc[t] /\ base'[t] = base[t] /\ cur'[t] = cur[t]
    BY <2>1 DEF TypeOK
  <2>4. pc'[s] = "loaded" /\ base'[s] = row /\ cur'[s] = row
    BY <2>1 DEF TypeOK
  <2>5. HolderOpen' BY <2>1, <2>2, <2>3 DEF VolumeInv, HolderOpen, Open, TypeOK
  <2>6. BesideIsCrowded'
    BY <2>1, <2>3 DEF VolumeInv, BesideIsCrowded, Open, OpenBeside
  <2>7. ~Open(Poller)' => credited' = 0
    BY <1>0, <2>1, <2>3, <2>4 DEF VolumeInv, Open
  <2>8. ASSUME ~staleRoll', NEW t \in Sessions, Open(t)' PROVE SessionVolume(t)'
    <3>1. CASE t = s
      <4>1. Latest(s)' = row' BY <2>1, <2>2 DEF Latest
      <4>2. s = Poller => credited = 0 BY <2>1 DEF VolumeInv, Open
      <4>3. row.volume \in Nat /\ row.resetAt \in Nat BY <1>0 DEF RowType
      <4> QED BY <2>1, <2>2, <2>4, <3>1, <4>1, <4>2, <4>3
              DEF SessionVolume, RowKnown, PollerOwes, RequestKeeps, Keeps
    <3>2. CASE t # s
      <4>1. Open(t) /\ SessionVolume(t) BY <2>1, <2>3, <2>8, <3>2 DEF VolumeInv, Open
      <4>2. Latest(t)' = Latest(t) BY <2>1 DEF Latest
      <4>3. t \in crowded => t \in crowded' BY <2>1
      <4> QED BY <2>1, <2>3, <3>2, <4>1, <4>2, <4>3, Bystander
    <3> QED BY <3>1, <3>2
  <2>9. ~staleRoll' => row'.volume = billed' BY <2>1 DEF VolumeInv
  <2> QED BY <2>5, <2>6, <2>7, <2>8, <2>9 DEF VolumeInv
<1>3. ASSUME NEW s \in Sessions, Abort(s) \/ (Refuse(s) /\ s # Poller) PROVE VolumeInv'
  <2>1. /\ Open(s) /\ Close(s) /\ UNCHANGED <<row, billed, staleRoll>>
        /\ s # Poller => credited' = credited
        /\ s = Poller => credited' = 0
    BY <1>3 DEF Abort, Refuse, Open
  <2>2. /\ ~Open(s)' /\ crowded' = crowded \ {s}
        /\ holder' = (IF holder = s THEN Nobody ELSE holder)
        /\ \A t \in Sessions \ {s} :
               pc'[t] = pc[t] /\ base'[t] = base[t] /\ cur'[t] = cur[t] /\ Latest(t)' = Latest(t)
    BY <1>0, <2>1 DEF Close, ReleaseLock, Open, TypeOK, Latest
  <2>3. HolderOpen' BY <1>0, <2>2 DEF VolumeInv, HolderOpen, Open, TypeOK
  <2>4. BesideIsCrowded' BY <2>2 DEF VolumeInv, BesideIsCrowded, Open
  <2>5. ~Open(Poller)' => credited' = 0
    BY <1>0, <2>1, <2>2 DEF VolumeInv, Open
  <2>6. ASSUME ~staleRoll', NEW t \in Sessions, Open(t)' PROVE SessionVolume(t)'
    <3>1. t # s BY <2>2, <2>6
    <3>2. Open(t) /\ SessionVolume(t) BY <2>1, <2>2, <2>6, <3>1 DEF VolumeInv, Open
    <3>3. holder' = t => holder = t BY <1>0, <2>2, <3>1
    <3> QED BY <2>1, <2>2, <3>1, <3>2, <3>3, Bystander
  <2> QED BY <2>1, <2>3, <2>4, <2>5, <2>6 DEF VolumeInv
<1>4. ASSUME NEW s \in Requests, Accept(s) PROVE VolumeInv'
  <2>1. /\ pc[s] = "loaded" /\ pc' = [pc EXCEPT ![s] = "reserving"]
        /\ cur' = [cur EXCEPT ![s] = Current(cur[s])]
        /\ UNCHANGED <<row, holder, work, base, credited, billed, crowded, staleRoll>>
    BY <1>4 DEF Accept, history
  <2>2. /\ \A t \in Sessions \ {s} : pc'[t] = pc[t] /\ cur'[t] = cur[t]
        /\ pc'[s] = "reserving" /\ cur'[s] = Current(cur[s])
        /\ \A t \in Sessions : Open(t)' <=> Open(t)
        /\ \A t \in Sessions : Latest(t)' = Latest(t)
    BY <1>0, <2>1 DEF TypeOK, Open, Latest
  <2>3. ASSUME ~staleRoll', NEW t \in Sessions, Open(t)' PROVE SessionVolume(t)'
    <3>1. Open(t) /\ SessionVolume(t) BY <2>1, <2>2, <2>3 DEF VolumeInv
    <3>2. CASE t = s
      <4>1. /\ holder # s /\ cur[s].resetAt = base[s].resetAt /\ Latest(s) = row
            /\ base[s].resetAt = row.resetAt /\ cur[s].volume = base[s].volume
        BY <1>0, <2>1, <3>1, <3>2
           DEF SessionVolume, RowKnown, RequestKeeps, Keeps, Latest
      <4>2. /\ row.resetAt \in Nat /\ Current(cur[s]).resetAt \in Nat
            /\ CycleOver(cur[s]) => Current(cur[s]).volume = 0
                                    /\ Current(cur[s]).resetAt > row.resetAt
            /\ ~CycleOver(cur[s]) => Current(cur[s]).volume = base[s].volume
                                     /\ Current(cur[s]).resetAt = row.resetAt
        BY <1>0, <4>1, CurrentVolume DEF RowType
      <4>3. RowKnown(s)'
        BY <1>0, <2>1, <2>2, <3>1, <3>2, <4>1, <4>2 DEF SessionVolume, RowKnown
      <4>4. RequestKeeps(s)'
        BY <2>1, <2>2, <3>1, <3>2, <4>1, <4>2, <1>0 DEF SessionVolume, RequestKeeps, Keeps
      <4> QED BY <1>0, <3>2, <4>3, <4>4 DEF SessionVolume
    <3>3. CASE t # s BY <2>1, <2>2, <3>1, <3>3, Bystander
    <3> QED BY <3>2, <3>3
  <2> QED BY <1>0, <2>1, <2>2, <2>3 DEF VolumeInv, HolderOpen, BesideIsCrowded, TypeOK
<1>5. ASSUME NEW s \in Requests, Reserve(s) PROVE VolumeInv'
  <2> DEFINE w == Written(base[s], cur[s], Latest(s))
             mine == [cur[s] EXCEPT !.index = NextIndex(s)]
  <2>1. /\ pc[s] = "reserving" /\ pc' = [pc EXCEPT ![s] = "reserved"] /\ LockFree(s)
        /\ holder' = s /\ work' = [w EXCEPT !.index = NextIndex(s)]
        /\ base' = [base EXCEPT ![s] = mine] /\ cur' = [cur EXCEPT ![s] = mine]
        /\ UNCHANGED <<row, credited, billed, crowded, staleRoll>>
    BY <1>5 DEF Reserve, history
  <2>2. /\ mine.resetAt = cur[s].resetAt /\ mine.volume = cur[s].volume
    <3>1. cur[s] \in RowType BY <1>0
    <3> QED BY <3>1 DEF RowType
  <2>3. /\ work'.volume = IF cur[s].volume = base[s].volume THEN Latest(s).volume ELSE cur[s].volume
        /\ work'.resetAt = IF cur[s].resetAt = base[s].resetAt THEN Latest(s).resetAt
                           ELSE cur[s].resetAt
    <3>1. /\ w \in RowType
          /\ w.volume = IF cur[s].volume = base[s].volume THEN Latest(s).volume ELSE cur[s].volume
          /\ w.resetAt = IF cur[s].resetAt = base[s].resetAt THEN Latest(s).resetAt
                         ELSE cur[s].resetAt
      BY <1>0, WrittenFacts
    <3> HIDE DEF w
    <3> QED BY <2>1, <3>1 DEF RowType
  <2> HIDE DEF w, mine
  <2>4. /\ \A t \in Sessions \ {s} : pc'[t] = pc[t] /\ cur'[t] = cur[t] /\ base'[t] = base[t]
        /\ pc'[s] = "reserved" /\ cur'[s] = mine /\ base'[s] = mine
        /\ \A t \in Sessions : Open(t)' <=> Open(t)
        /\ \A t \in Sessions \ {s} : Latest(t)' = Latest(t)
        /\ Latest(s)' = work' /\ Open(s)
    BY <1>0, <2>1 DEF TypeOK, Open, Latest, LockFree
  <2>5. ASSUME ~staleRoll', NEW t \in Sessions, Open(t)' PROVE SessionVolume(t)'
    <3>1. Open(t) /\ SessionVolume(t) BY <2>1, <2>4, <2>5 DEF VolumeInv
    <3>2. CASE t = s
      <4>1. RowKnown(s)'
        BY <1>0, <2>1, <2>2, <2>3, <2>4, <3>1, <3>2 DEF SessionVolume, RowKnown
      <4>2. RequestKeeps(s)'
        BY <1>0, <2>1, <2>2, <2>3, <2>4, <3>1, <3>2 DEF SessionVolume, RequestKeeps, Keeps
      <4> QED BY <1>0, <3>2, <4>1, <4>2 DEF SessionVolume
    <3>3. CASE t # s BY <2>1, <2>4, <3>1, <3>3, Bystander
    <3> QED BY <3>2, <3>3
  <2> QED BY <1>0, <2>1, <2>4, <2>5 DEF VolumeInv, HolderOpen, BesideIsCrowded, TypeOK
<1>6. ASSUME NEW s \in Requests, CommitOrder(s) PROVE VolumeInv'
  <2> DEFINE counted == [cur[s] EXCEPT !.count = @ + 1]
             r == Written(base[s], counted, work)
  <2>1. counted \in RowType /\ counted.volume = cur[s].volume /\ counted.resetAt = cur[s].resetAt
    <3>1. cur[s] \in RowType BY <1>0
    <3> QED BY <3>1 DEF RowType
  <2>2. pc[s] = "reserved" /\ Close(s) /\ Committed(s, r, 1)
    BY <1>6 DEF CommitOrder, Counted
  <2>3. Open(s) /\ holder = s /\ work = Latest(s)
    BY <1>0, <2>2 DEF Indexed, ReservedIsOurs, Latest, Open
  <2> HIDE DEF counted
  <2>4. /\ r \in RowType
        /\ r.volume = IF cur[s].volume = base[s].volume THEN Latest(s).volume ELSE cur[s].volume
        /\ r.resetAt = IF cur[s].resetAt = base[s].resetAt THEN Latest(s).resetAt
                       ELSE cur[s].resetAt
    BY <1>0, <2>1, <2>3, WrittenFacts
  <2> HIDE DEF r
  <2>5. ~staleRoll => SessionVolume(s) BY <1>0, <2>3 DEF VolumeInv
  <2>6. ~staleRoll => /\ r.resetAt = cur[s].resetAt
                      /\ Keeps(s) => r.volume = row.volume
                      /\ ~Keeps(s) /\ s \notin crowded => r.volume = 0
    BY <1>0, <2>4, <2>5 DEF SessionVolume, RowKnown, RequestKeeps
  <2> QED BY <1>0, <2>2, <2>3, <2>4, <2>6, CloseVolume
<1>7. ASSUME NEW s \in Requests, NEW q \in RowType, Rewrite(s, q),
             q.volume = cur[s].volume, q.resetAt = cur[s].resetAt
      PROVE  VolumeInv'
  <2> DEFINE r == Written(base[s], q, row)
  <2>1. pc[s] = "loaded" /\ LockFree(s) /\ Close(s) /\ Committed(s, r, 0)
    BY <1>7 DEF Rewrite
  <2>2. /\ r \in RowType
        /\ r.volume = IF cur[s].volume = base[s].volume THEN row.volume ELSE cur[s].volume
        /\ r.resetAt = IF cur[s].resetAt = base[s].resetAt THEN row.resetAt ELSE cur[s].resetAt
    BY <1>0, <1>7, WrittenFacts
  <2> HIDE DEF r
  <2>3. Open(s) /\ holder \in {Nobody, s} BY <2>1 DEF Open, LockFree
  <2>4. ~staleRoll => SessionVolume(s) BY <1>0, <2>3 DEF VolumeInv
  <2>5. ~staleRoll => r.resetAt = cur[s].resetAt /\ Keeps(s) /\ r.volume = row.volume
    BY <1>0, <2>1, <2>2, <2>4 DEF SessionVolume, RowKnown, RequestKeeps, Keeps, Latest
  <2> QED BY <1>0, <2>1, <2>2, <2>3, <2>5, CloseVolume
<1>8. ASSUME NEW s \in Requests, NEW mode \in Modes, SetMode(s, mode) PROVE VolumeInv'
  <2>1. cur[s] \in RowType /\ Rewrite(s, WithMode(cur[s], mode)) BY <1>0, <1>8 DEF SetMode
  <2>2. WithMode(cur[s], mode).volume = cur[s].volume
    BY <2>1 DEF WithMode, RowType
  <2> QED BY <1>7, <2>1, <2>2, WithModeFacts
<1>9. ASSUME NEW s \in Requests, RotateSecret(s) PROVE VolumeInv'
  <2>1. cur[s] \in RowType /\ rotations' \in Nat /\ Rewrite(s, WithSecret(cur[s], rotations'))
    BY <1>0, <1>9 DEF RotateSecret, TypeOK
  <2>2. WithSecret(cur[s], rotations').volume = cur[s].volume
    BY <2>1 DEF WithSecret, RowType
  <2> QED BY <1>7, <2>1, <2>2, WithSecretFacts
<1>10. ASSUME NEW a \in Amounts, Credit(a) PROVE VolumeInv'
  <2> DEFINE mine == [Current(cur[Poller]) EXCEPT !.volume = @ + a]
  <2>1. /\ pc[Poller] = "loaded" /\ cur' = [cur EXCEPT ![Poller] = mine]
        /\ credited' = IF CycleOver(cur[Poller]) THEN a ELSE credited + a
        /\ UNCHANGED <<row, holder, work, pc, base, billed, crowded, staleRoll>>
    BY <1>10 DEF Credit
  <2>2. Current(cur[Poller]) \in RowType /\ a \in Nat
    BY <1>0, CurrentFacts, BillingAssumption
  <2>3. mine.volume = Current(cur[Poller]).volume + a
        /\ mine.resetAt = Current(cur[Poller]).resetAt
    BY <2>2 DEF RowType
  <2> HIDE DEF mine
  <2>4. /\ \A t \in Sessions \ {Poller} : cur'[t] = cur[t]
        /\ cur'[Poller] = mine /\ Open(Poller)
        /\ \A t \in Sessions : Open(t)' <=> Open(t)
        /\ \A t \in Sessions : Latest(t)' = Latest(t)
    BY <1>0, <2>1 DEF TypeOK, Open, Latest
  <2>5. ASSUME ~staleRoll', NEW t \in Sessions, Open(t)' PROVE SessionVolume(t)'
    <3>1. Open(t) /\ SessionVolume(t) BY <2>1, <2>4, <2>5 DEF VolumeInv
    <3>2. CASE t = Poller
      <4>1. /\ row.resetAt \in Nat /\ mine.resetAt \in Nat /\ cur[Poller].resetAt \in Nat
            /\ CycleOver(cur[Poller]) => mine.volume = a /\ mine.resetAt > cur[Poller].resetAt
            /\ ~CycleOver(cur[Poller]) => mine.volume = cur[Poller].volume + a
                                          /\ mine.resetAt = cur[Poller].resetAt
        BY <1>0, <2>2, <2>3, CurrentVolume DEF RowType
      <4>2. cur[Poller].resetAt >= row.resetAt
        BY <3>1, <3>2 DEF SessionVolume, RowKnown
      <4>3. RowKnown(Poller)'
        BY <1>0, <2>1, <2>4, <3>1, <3>2, <4>1, <4>2 DEF SessionVolume, RowKnown
      <4>4. PollerOwes'
        <5>1. row.volume \in Nat /\ cur[Poller].volume \in Nat BY <1>0 DEF RowType
        <5> QED BY <1>0, <2>1, <2>2, <2>4, <3>1, <3>2, <4>1, <4>2, <5>1
                DEF SessionVolume, PollerOwes, Keeps
      <4> QED BY <3>2, <4>3, <4>4 DEF SessionVolume
    <3>3. CASE t # Poller BY <2>1, <2>4, <3>1, <3>3, Bystander
    <3> QED BY <3>2, <3>3
  <2> QED BY <1>0, <2>1, <2>4, <2>5 DEF VolumeInv, HolderOpen, BesideIsCrowded, TypeOK
<1>11. CASE AutoFlush
  <2>1. /\ pc[Poller] = "loaded" /\ LockFree(Poller) /\ holder' = Poller
        /\ work' = Written(base[Poller], cur[Poller], Latest(Poller))
        /\ base' = [base EXCEPT ![Poller] = cur[Poller]]
        /\ UNCHANGED <<row, pc, cur, credited, billed, crowded, staleRoll>>
    BY <1>11 DEF AutoFlush, history
  <2>2. /\ work'.volume = IF cur[Poller].volume = base[Poller].volume
                          THEN Latest(Poller).volume ELSE cur[Poller].volume
        /\ work'.resetAt = IF cur[Poller].resetAt = base[Poller].resetAt
                           THEN Latest(Poller).resetAt ELSE cur[Poller].resetAt
    BY <1>0, <2>1, WrittenFacts
  <2>3. /\ \A t \in Sessions \ {Poller} : base'[t] = base[t]
        /\ base'[Poller] = cur[Poller] /\ Open(Poller)
        /\ \A t \in Sessions : Open(t)' <=> Open(t)
        /\ \A t \in Sessions \ {Poller} : Latest(t)' = Latest(t)
        /\ Latest(Poller)' = work'
    BY <1>0, <2>1 DEF TypeOK, Open, Latest, LockFree
  <2>4. ASSUME ~staleRoll', NEW t \in Sessions, Open(t)' PROVE SessionVolume(t)'
    <3>1. Open(t) /\ SessionVolume(t) BY <2>1, <2>3, <2>4 DEF VolumeInv
    <3>2. CASE t = Poller
      <4>1. RowKnown(Poller)'
        BY <1>0, <2>1, <2>2, <2>3, <3>1, <3>2 DEF SessionVolume, RowKnown
      <4>2. PollerOwes' BY <2>1, <3>1, <3>2 DEF SessionVolume, PollerOwes, Keeps
      <4> QED BY <3>2, <4>1, <4>2 DEF SessionVolume
    <3>3. CASE t # Poller BY <2>1, <2>3, <3>1, <3>3, Bystander
    <3> QED BY <3>2, <3>3
  <2> QED BY <1>0, <2>1, <2>3, <2>4 DEF VolumeInv, HolderOpen, BesideIsCrowded, TypeOK
<1>12. CASE PruneCommits
  <2>1. /\ pc[Poller] = "loaded" /\ holder = Poller /\ cur[Poller] = base[Poller]
        /\ Committed(Poller, work, 0) /\ holder' = Nobody
        /\ UNCHANGED <<pc, base, cur, crowded>>
    BY <1>12 DEF PruneCommits, ReleaseLock
  <2>2. Open(Poller) /\ Latest(Poller) = work /\ row' = work /\ credited' = 0
    BY <2>1 DEF Open, Latest, Committed
  <2>3. \A t \in Sessions : Open(t)' <=> Open(t) BY <2>1 DEF Open
  <2>4. ASSUME ~staleRoll'
        PROVE  row'.volume = billed' /\ \A t \in Sessions : Open(t)' => SessionVolume(t)'
    <3>0. ~staleRoll BY <2>1, <2>4 DEF Committed
    <3>1. SessionVolume(Poller) BY <1>0, <2>2, <3>0 DEF VolumeInv
    <3>2. work.resetAt = cur[Poller].resetAt /\ work.volume = cur[Poller].volume
      BY <2>1, <2>2, <3>1 DEF SessionVolume, RowKnown
    <3>3. /\ row'.volume = billed'
          /\ \A t \in Sessions \ {Poller} : Open(t)' => SessionVolume(t)'
      BY <1>0, <2>1, <2>2, <2>4, <3>2, CommitVolume
    <3>4. RowKnown(Poller)'
      <4>1. Latest(Poller)' = row' BY <1>0, <2>1 DEF Latest
      <4>2. row'.resetAt = cur'[Poller].resetAt /\ row'.volume = cur'[Poller].volume
            /\ base'[Poller] = cur'[Poller] /\ row'.resetAt \in Nat
        BY <1>0, <2>1, <2>2, <3>2 DEF RowType
      <4> QED BY <4>1, <4>2 DEF RowKnown
    <3>5. PollerOwes'
      <4>1. cur[Poller].volume \in Nat BY <1>0 DEF RowType
      <4> QED BY <2>1, <2>2, <3>2, <4>1 DEF PollerOwes, Keeps
    <3>6. SessionVolume(Poller)' BY <3>4, <3>5 DEF SessionVolume
    <3> QED BY <3>3, <3>6
  <2> QED BY <1>0, <2>1, <2>2, <2>3, <2>4 DEF VolumeInv, HolderOpen, BesideIsCrowded
<1>13. CASE EndPass
  <2> DEFINE r == Written(base[Poller], cur[Poller], Latest(Poller))
  <2>1. pc[Poller] = "loaded" /\ LockFree(Poller) /\ Committed(Poller, r, 0) /\ Close(Poller)
    BY <1>13 DEF EndPass
  <2>2. /\ r \in RowType
        /\ r.volume = IF cur[Poller].volume = base[Poller].volume
                      THEN Latest(Poller).volume ELSE cur[Poller].volume
        /\ r.resetAt = IF cur[Poller].resetAt = base[Poller].resetAt
                       THEN Latest(Poller).resetAt ELSE cur[Poller].resetAt
    BY <1>0, WrittenFacts
  <2> HIDE DEF r
  <2>3. Open(Poller) /\ holder \in {Nobody, Poller} BY <2>1 DEF Open, LockFree
  <2>4. ~staleRoll => SessionVolume(Poller) BY <1>0, <2>3 DEF VolumeInv
  <2>5. ~staleRoll => r.resetAt = cur[Poller].resetAt /\ r.volume = cur[Poller].volume
    BY <2>2, <2>4 DEF SessionVolume, RowKnown
  <2> QED BY <1>0, <2>1, <2>2, <2>3, <2>5, CloseVolume
<1>14. ASSUME NEW s \in Requests, Request(s) PROVE VolumeInv'
  BY <1>0, <1>2, <1>3, <1>4, <1>5, <1>6, <1>8, <1>9, <1>14 DEF Request
<1>15. CASE Pass
  BY <1>0, <1>2, <1>3, <1>10, <1>11, <1>12, <1>13, <1>15 DEF Pass
<1> QED BY <1>1, <1>14, <1>15 DEF Next

(* The volume the merchant is billed on is what the poller has credited in  *)
(* the cycle, for any number of checkouts and settings changes open beside  *)
(* the pass, unless one that another was open beside began a cycle          *)
(* (_ensure_billing_cycle_current, poll_pending_orders).                    *)
THEOREM VolumeIsExact == Spec => []VolumeIsTrue
<1>1. Init => VolumeInv
  BY SessionAssumption DEF Init, VolumeInv, HolderOpen, BesideIsCrowded, Open, Fresh, Sessions
<1>2. TypeOK /\ TypeOK' /\ Indexed /\ VolumeInv /\ [Next]_vars => VolumeInv'
  BY NextVolume
<1>3. VolumeInv => VolumeIsTrue BY DEF VolumeInv, VolumeIsTrue
<1> QED BY <1>1, <1>2, <1>3, TypeCorrect, PTL DEF Spec
=============================================================================
