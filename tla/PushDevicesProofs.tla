-------------------------- MODULE PushDevicesProofs --------------------------
(***************************************************************************)
(* Theorems about PushDevices, for any users, tokens and sessions.  One    *)
(* inductive invariant, Inv, ties what the sessions hold to the table: a   *)
(* row a lookup found keeps its token for ever, and its user too, unless   *)
(* one of those who registered that token since the lookup has it now.     *)
(***************************************************************************)
EXTENDS PushDevices, TLAPS

FoundIsCurrent ==
    \A s \in Requests : \A old \in found[s] :
        /\ old.token = wants[s].token
        /\ old.id <= used
        /\ \A now \in table : now.id = old.id =>
              /\ now.token = old.token
              /\ now.user = old.user \/ now.user \in since[s]

OnlyOpenFound == \A s \in Requests : pc[s] # "found" => found[s] = {}

DeadWasTold == \A p \in Pushes : \A d \in dead[p] : d.id \in told[p]

Inv == /\ TypeOK /\ OneUserPerDevice /\ FoundIsCurrent /\ OnlyOpenFound
       /\ DeadWasTold /\ LastRegistrationHolds

LEMMA RowsHaveIds ==
    ASSUME TypeOK, NEW r \in table
    PROVE  r \in Row /\ r.id \in 1..used /\ r.id \in Nat /\ r.user \in Users /\ r.token \in Tokens
BY DEF TypeOK, Row

LEMMA NothingType == Nothing \in [user : Users, token : Tokens]
BY SessionAssumption DEF Nothing

LEMMA InitInv == Init => Inv
<1> SUFFICES ASSUME Init PROVE Inv
  OBVIOUS
<1>1. TypeOK BY NothingType DEF Init, TypeOK
<1> QED
  BY <1>1 DEF Init, Inv, OneUserPerDevice, FoundIsCurrent, OnlyOpenFound, DeadWasTold,
             LastRegistrationHolds

-----------------------------------------------------------------------------
(* Registrations *)

LEMMA LookInv ==
    ASSUME Inv, NEW s \in Requests, NEW u \in Users, NEW t \in Tokens, Look(s, u, t)
    PROVE  Inv'
<1> USE DEF Inv, Look, push
<1>1. s \in Requests \cup Pushes OBVIOUS
<1>2. found' = [found EXCEPT ![s] = {r \in table : r.token = t}] OBVIOUS
<1>3. \A r \in table : r \in Row /\ r.id \in 1..used BY RowsHaveIds
<1>4. TypeOK'
  <2>1. {r \in table : r.token = t} \in SUBSET Row BY <1>3
  <2>2. found' \in [Requests -> SUBSET Row] BY <1>2, <2>1 DEF TypeOK
  <2> QED BY <1>1, <2>2 DEF TypeOK
<1>5. FoundIsCurrent'
  <2> SUFFICES ASSUME NEW q \in Requests, NEW old \in found'[q]
               PROVE  /\ old.token = wants'[q].token
                      /\ old.id <= used'
                      /\ \A now \in table' : now.id = old.id =>
                            /\ now.token = old.token
                            /\ now.user = old.user \/ now.user \in since'[q]
    BY DEF FoundIsCurrent
  <2>1. CASE q = s
    <3>1. old \in table /\ old.token = t /\ wants'[q].token = t
      BY <2>1, <1>2 DEF TypeOK
    <3>2. old.id <= used BY <3>1, <1>3 DEF TypeOK
    <3> QED BY <3>1, <3>2 DEF OneUserPerDevice
  <2>2. CASE q # s
    <3>1. found'[q] = found[q] /\ wants'[q] = wants[q] BY <2>2 DEF TypeOK
    <3> QED BY <3>1 DEF FoundIsCurrent
  <2> QED BY <2>1, <2>2
<1>6. OnlyOpenFound' BY DEF OnlyOpenFound, TypeOK
<1>7. OneUserPerDevice' /\ DeadWasTold' /\ LastRegistrationHolds'
  BY DEF OneUserPerDevice, DeadWasTold, LastRegistrationHolds
<1> QED BY <1>4, <1>5, <1>6, <1>7

(* What a write leaves to the other requests: those of the same token     *)
(* count the writer among those since, the others found no row it touches. *)
LEMMA SavesInv ==
    ASSUME Inv, NEW s \in Requests, NEW tab \in SUBSET Row, Saves(s, tab),
           used' \in Nat, used' >= used,
           tab \subseteq [id : 1..used', user : Users, token : Tokens],
           \A r, q \in tab : r.token = q.token \/ r.id = q.id => r = q,
           \A r \in tab : r \in table \/ r.token = wants[s].token,
           \A r \in table : r.token # wants[s].token => r \in tab,
           \A r \in tab : \/ \E q \in table : q.id = r.id /\ q.token = r.token
                          \/ r.id > used,
           \E r \in tab : /\ r.token = wants[s].token
                          /\ r.user \in {wants[s].user} \cup since[s],
           \A r \in tab : r \in table \/ r.user = wants[s].user
    PROVE  Inv'
<1> USE DEF Inv, Saves, EndRequest, push
<1>1. TypeOK' BY NothingType DEF TypeOK, Rivals
<1>2. OneUserPerDevice' BY DEF OneUserPerDevice
<1>3. FoundIsCurrent'
  <2> SUFFICES ASSUME NEW q \in Requests, NEW old \in found'[q], NEW now \in tab,
                      now.id = old.id
               PROVE  /\ now.token = old.token
                      /\ now.user = old.user \/ now.user \in since'[q]
    <3>1. ASSUME NEW q \in Requests, NEW old \in found'[q]
          PROVE  old.token = wants'[q].token /\ old.id <= used'
      <4>1. q # s BY <3>1 DEF TypeOK
      <4>2. found'[q] = found[q] /\ wants'[q] = wants[q] BY <4>1 DEF TypeOK
      <4>3. old.token = wants[q].token /\ old.id <= used /\ old.id \in Nat /\ used \in Nat
        BY <4>2, <3>1 DEF FoundIsCurrent, TypeOK, Row
      <4> QED BY <4>2, <4>3
    <3>2. table' = tab OBVIOUS
    <3> HIDE DEF Inv, Saves, EndRequest, push
    <3> QED BY <3>1, <3>2 DEF FoundIsCurrent
  <2>1. q # s BY DEF TypeOK
  <2>2. found'[q] = found[q] /\ wants'[q] = wants[q] BY <2>1 DEF TypeOK
  <2>3. old.token = wants[q].token /\ old.id <= used /\ old.id \in Nat /\ used \in Nat
    BY <2>2 DEF FoundIsCurrent, TypeOK, Row
  <2>4. PICK r \in table : r.id = now.id /\ r.token = now.token
    BY <2>3 DEF TypeOK, Row
  <2>5. now.token = old.token BY <2>2, <2>4 DEF FoundIsCurrent
  <2>6. CASE wants[q].token = wants[s].token
    <3>1. pc[q] = "found" BY <2>2 DEF OnlyOpenFound
    <3>2. q \in Rivals(s) BY <2>1, <2>6, <3>1 DEF Rivals
    <3>3. since'[q] = since[q] \cup {wants[s].user} BY <2>1, <3>2
    <3>4. CASE now \in table
      <4>1. now.user = old.user \/ now.user \in since[q] BY <2>2, <3>4 DEF FoundIsCurrent
      <4> QED BY <2>5, <3>3, <4>1
    <3>5. CASE now.user = wants[s].user BY <2>5, <3>3, <3>5
    <3> QED BY <3>4, <3>5
  <2>7. CASE wants[q].token # wants[s].token
    <3>1. now \in table BY <2>3, <2>5, <2>7
    <3>2. now.user = old.user \/ now.user \in since[q] BY <2>2, <3>1 DEF FoundIsCurrent
    <3>3. since[q] \subseteq since'[q] BY <2>1
    <3> QED BY <2>5, <3>2, <3>3
  <2> QED BY <2>6, <2>7
<1>4. OnlyOpenFound' BY DEF OnlyOpenFound, TypeOK
<1>5. DeadWasTold' BY DEF DeadWasTold
<1>6. LastRegistrationHolds'
  <2> SUFFICES ASSUME NEW t \in Tokens, last'[t] # {}
               PROVE  \E r \in tab : r.token = t /\ r.user \in last'[t]
    BY DEF LastRegistrationHolds
  <2>1. CASE t = wants[s].token
    <3>1. last'[t] = {wants[s].user} \cup since[s] BY <2>1 DEF TypeOK
    <3> QED BY <2>1, <3>1
  <2>2. CASE t # wants[s].token
    <3>1. last'[t] = last[t] BY <2>2 DEF TypeOK
    <3>2. PICK r \in table : r.token = t /\ r.user \in last[t]
      BY <3>1 DEF LastRegistrationHolds
    <3> QED BY <2>2, <3>1, <3>2
  <2> QED BY <2>1, <2>2
<1> QED BY <1>1, <1>2, <1>3, <1>4, <1>5, <1>6

LEMMA UpdateInv ==
    ASSUME Inv, NEW s \in Requests, Update(s)
    PROVE  Inv'
<1>1. PICK old \in found[s], now \in table :
         /\ now.id = old.id
         /\ Saves(s, (table \ {now}) \cup {RowOf(old, now, wants[s].user)})
         /\ UNCHANGED used
  BY DEF Update
<1> DEFINE new == RowOf(old, now, wants[s].user)
           tab == (table \ {now}) \cup {new}
<1>2. /\ old.token = wants[s].token /\ now.token = old.token
      /\ now.user = old.user \/ now.user \in since[s]
  BY <1>1 DEF Inv, FoundIsCurrent
<1>3. now \in [id : 1..used, user : Users, token : Tokens] /\ wants[s].user \in Users
  BY DEF Inv, TypeOK
<1>4. /\ new \in [id : 1..used, user : Users, token : Tokens]
      /\ new.id = now.id /\ new.token = now.token
      /\ new.user = IF old.user = wants[s].user THEN now.user ELSE wants[s].user
  BY <1>3 DEF RowOf
<1>5. used \in Nat /\ table \subseteq [id : 1..used, user : Users, token : Tokens]
  BY DEF Inv, TypeOK
<1> HIDE DEF new
<1>6. tab \subseteq [id : 1..used, user : Users, token : Tokens]
  BY <1>4, <1>5
<1>7. tab \in SUBSET Row BY <1>5, <1>6 DEF Row
<1>8. \A r, q \in tab : r.token = q.token \/ r.id = q.id => r = q
  BY <1>4 DEF Inv, OneUserPerDevice
<1>9. /\ \A r \in tab : r \in table \/ r.token = wants[s].token
      /\ \A r \in table : r.token # wants[s].token => r \in tab
      /\ \A r \in tab : \/ \E q \in table : q.id = r.id /\ q.token = r.token
                        \/ r.id > used
  BY <1>2, <1>4
<1>10. /\ \E r \in tab : r.token = wants[s].token /\ r.user \in {wants[s].user} \cup since[s]
       /\ \A r \in tab : r \in table \/ r.user = wants[s].user
  <2>1. new.user \in {wants[s].user} \cup since[s] BY <1>2, <1>4
  <2>2. new.token = wants[s].token BY <1>2, <1>4
  <2>3. new \in table \/ new.user = wants[s].user
    <3>1. CASE old.user = wants[s].user BY <3>1, <1>1 DEF new, RowOf
    <3>2. CASE old.user # wants[s].user BY <3>2, <1>4
    <3> QED BY <3>1, <3>2
  <2> QED BY <2>1, <2>2, <2>3
<1>11. Saves(s, tab) /\ used' = used BY <1>1 DEF new
<1> HIDE DEF tab
<1>12. used' \in Nat /\ used' >= used BY <1>5, <1>11
<1> QED BY <1>6, <1>7, <1>8, <1>9, <1>10, <1>11, <1>12, SavesInv

LEMMA InsertInv ==
    ASSUME Inv, NEW s \in Requests, Insert(s)
    PROVE  Inv'
<1> DEFINE new == [id |-> used + 1, user |-> wants[s].user, token |-> wants[s].token]
           tab == table \cup {new}
<1>1. Saves(s, tab) /\ used' = used + 1 /\ MayInsert(wants[s].token)
  BY DEF Insert
<1>2. used \in Nat /\ table \subseteq [id : 1..used, user : Users, token : Tokens]
      /\ wants[s].user \in Users /\ wants[s].token \in Tokens
  BY DEF Inv, TypeOK
<1>3. /\ new \in [id : 1..(used + 1), user : Users, token : Tokens]
      /\ new.id = used + 1 /\ new.token = wants[s].token /\ new.user = wants[s].user
  BY <1>2
<1> HIDE DEF new
<1>4. \A r \in table : r.id \in 1..used /\ r \in [id : 1..(used + 1), user : Users, token : Tokens]
  BY <1>2
<1>5. tab \subseteq [id : 1..(used + 1), user : Users, token : Tokens]
  BY <1>3, <1>4
<1>6. tab \in SUBSET Row BY <1>2, <1>5 DEF Row
<1>7. \A r \in table : r.token # new.token /\ r.id # new.id
  BY <1>1, <1>2, <1>3, <1>4 DEF MayInsert
<1>8. \A r, q \in tab : r.token = q.token \/ r.id = q.id => r = q
  BY <1>7 DEF Inv, OneUserPerDevice
<1>9. /\ \A r \in tab : r \in table \/ r.token = wants[s].token
      /\ \A r \in table : r.token # wants[s].token => r \in tab
      /\ \A r \in tab : \/ \E q \in table : q.id = r.id /\ q.token = r.token
                        \/ r.id > used
  BY <1>2, <1>3
<1>10. /\ \E r \in tab : r.token = wants[s].token /\ r.user \in {wants[s].user} \cup since[s]
       /\ \A r \in tab : r \in table \/ r.user = wants[s].user
  BY <1>3
<1> HIDE DEF tab
<1>11. used' \in Nat /\ used' >= used BY <1>1, <1>2
<1> QED BY <1>1, <1>5, <1>6, <1>8, <1>9, <1>10, <1>11, SavesInv

LEMMA RegisterFailsInv ==
    ASSUME Inv, NEW s \in Requests, RegisterFails(s)
    PROVE  Inv'
<1> USE DEF Inv, RegisterFails, EndRequest, push
<1>1. TypeOK' BY NothingType DEF TypeOK
<1>2. FoundIsCurrent'
  <2> SUFFICES ASSUME NEW q \in Requests, NEW old \in found'[q]
               PROVE  /\ old.token = wants'[q].token
                      /\ old.id <= used'
                      /\ \A now \in table' : now.id = old.id =>
                            /\ now.token = old.token
                            /\ now.user = old.user \/ now.user \in since'[q]
    BY DEF FoundIsCurrent
  <2>1. q # s BY DEF TypeOK
  <2>2. found'[q] = found[q] /\ wants'[q] = wants[q] BY <2>1 DEF TypeOK
  <2> QED BY <2>1, <2>2 DEF FoundIsCurrent
<1>3. OnlyOpenFound' BY DEF OnlyOpenFound, TypeOK
<1>4. OneUserPerDevice' /\ DeadWasTold' /\ LastRegistrationHolds'
  BY DEF OneUserPerDevice, DeadWasTold, LastRegistrationHolds
<1> QED BY <1>1, <1>2, <1>3, <1>4

-----------------------------------------------------------------------------
(* Removals and pushes *)

LEMMA ForgetInv ==
    ASSUME Inv, NEW rows \in SUBSET table, Forget(rows)
    PROVE  /\ table' \subseteq table /\ table' \subseteq [id : 1..used', user : Users, token : Tokens]
           /\ last' \in [Tokens -> SUBSET Users]
           /\ OneUserPerDevice' /\ FoundIsCurrent' /\ LastRegistrationHolds'
<1> USE DEF Inv, Forget, request
<1>1. table' \subseteq table /\ table' \subseteq [id : 1..used', user : Users, token : Tokens]
  BY DEF TypeOK
<1>2. last' \in [Tokens -> SUBSET Users] BY DEF TypeOK
<1>3. OneUserPerDevice' BY <1>1 DEF OneUserPerDevice
<1>4. FoundIsCurrent' BY <1>1 DEF FoundIsCurrent
<1>5. LastRegistrationHolds' BY DEF LastRegistrationHolds, TypeOK
<1> QED BY <1>1, <1>2, <1>3, <1>4, <1>5

LEMMA UnregisterInv ==
    ASSUME Inv, NEW t \in Tokens, Unregister(t)
    PROVE  Inv'
<1> DEFINE rows == {r \in table : r.token = t}
<1>1. rows \in SUBSET table /\ Forget(rows) /\ UNCHANGED <<pc, push>>
  BY DEF Unregister
<1>2. UNCHANGED <<used, request>> BY <1>1 DEF Forget
<1> HIDE DEF rows
<1>3. TypeOK' BY <1>1, <1>2, ForgetInv DEF Inv, TypeOK, request, push
<1>4. OnlyOpenFound' /\ DeadWasTold'
  BY <1>1, <1>2 DEF Inv, OnlyOpenFound, DeadWasTold, request, push
<1> QED BY <1>1, <1>3, <1>4, ForgetInv DEF Inv

LEMMA StartPushInv ==
    ASSUME Inv, NEW p \in Pushes, NEW u \in Users, StartPush(p, u)
    PROVE  Inv'
<1> USE DEF Inv, StartPush, request
<1>1. \A r \in table : r \in Row /\ r.id \in Nat BY RowsHaveIds
<1>2. {r \in table : r.user = u} \in SUBSET Row BY <1>1
<1>3. todo' = [todo EXCEPT ![p] = {r \in table : r.user = u}] OBVIOUS
<1>4. todo' \in [Pushes -> SUBSET Row] /\ todo'[p] \subseteq table
  BY <1>2, <1>3 DEF TypeOK
<1>5. TypeOK' BY <1>4 DEF TypeOK
<1>6. OnlyOpenFound' BY SessionAssumption DEF OnlyOpenFound, TypeOK
<1>7. OneUserPerDevice' /\ FoundIsCurrent' /\ DeadWasTold' /\ LastRegistrationHolds'
  BY DEF OneUserPerDevice, FoundIsCurrent, DeadWasTold, LastRegistrationHolds
<1> QED BY <1>5, <1>6, <1>7

LEMMA SendInv ==
    ASSUME Inv, NEW p \in Pushes, NEW r \in todo[p], NEW outcome, Send(p, r, outcome)
    PROVE  Inv'
<1> USE DEF Inv, Send, request
<1>1. r \in Row /\ r.id \in Nat BY DEF TypeOK, Row
<1>2. TypeOK' BY <1>1 DEF TypeOK
<1>3. DeadWasTold' BY DEF DeadWasTold, TypeOK
<1>4. OneUserPerDevice' /\ FoundIsCurrent' /\ OnlyOpenFound' /\ LastRegistrationHolds'
  BY DEF OneUserPerDevice, FoundIsCurrent, OnlyOpenFound, LastRegistrationHolds
<1> QED BY <1>2, <1>3, <1>4

LEMMA EndPushInv ==
    ASSUME Inv, NEW p \in Pushes, EndPush(p), UNCHANGED request
    PROVE  /\ pc' \in [Requests \cup Pushes -> {"closed", "found", "sending"}]
           /\ todo' \in [Pushes -> SUBSET Row] /\ dead' \in [Pushes -> SUBSET Row]
           /\ told' \in [Pushes -> SUBSET Nat]
           /\ OnlyOpenFound' /\ DeadWasTold'
<1> USE DEF Inv, EndPush, request
<1>1. OnlyOpenFound' BY SessionAssumption DEF OnlyOpenFound, TypeOK
<1>2. DeadWasTold' BY DEF DeadWasTold, TypeOK
<1> QED BY <1>1, <1>2 DEF TypeOK

LEMMA PruneInv ==
    ASSUME Inv, NEW p \in Pushes, Prune(p)
    PROVE  Inv'
<1>1. Doomed(p) \in SUBSET table /\ Forget(Doomed(p)) /\ EndPush(p)
  BY DEF Prune, Doomed
<1>2. UNCHANGED <<used, request>> BY <1>1 DEF Forget
<1>3. TypeOK' BY <1>1, <1>2, ForgetInv, EndPushInv DEF Inv, TypeOK, request
<1> QED BY <1>1, <1>2, <1>3, ForgetInv, EndPushInv DEF Inv

LEMMA QuietEndInv ==
    ASSUME Inv, NEW p \in Pushes, EndPush(p), UNCHANGED <<table, used, request, last>>
    PROVE  Inv'
<1>1. TypeOK' BY EndPushInv DEF Inv, TypeOK, request
<1>2. OneUserPerDevice' /\ FoundIsCurrent' /\ LastRegistrationHolds'
  BY DEF Inv, OneUserPerDevice, FoundIsCurrent, LastRegistrationHolds, request
<1> QED BY <1>1, <1>2, EndPushInv DEF Inv

LEMMA NextInv == Inv /\ [Next]_vars => Inv'
<1> SUFFICES ASSUME Inv, [Next]_vars PROVE Inv'
  OBVIOUS
<1>1. ASSUME NEW s \in Requests, Register(s) PROVE Inv'
  BY <1>1, LookInv, UpdateInv, InsertInv, RegisterFailsInv DEF Register
<1>2. ASSUME NEW p \in Pushes, Pushing(p) PROVE Inv'
  BY <1>2, SendInv, PruneInv, QuietEndInv DEF Pushing, PushDone, PushRaises
<1>3. CASE UNCHANGED vars
  BY <1>3 DEF vars, Inv, TypeOK, OneUserPerDevice, FoundIsCurrent, OnlyOpenFound, DeadWasTold,
              LastRegistrationHolds
<1> QED BY <1>1, <1>2, <1>3, UnregisterInv, StartPushInv DEF Next

-----------------------------------------------------------------------------

(* The inductive invariant holds throughout.                                *)
LEMMA InvCorrect == Spec => []Inv
BY InitInv, NextInv, PTL DEF Spec

(* Row ids are those handed out, and sessions hold rows and ids of rows.    *)
THEOREM TypeCorrect == Spec => []TypeOK
<1>1. Inv => TypeOK BY DEF Inv
<1> QED BY <1>1, InvCorrect, PTL

(* A device has one row, so one user, for any number of overlapping         *)
(* registrations, removals and pushes (register_device: the token's unique  *)
(* index refuses the second of two inserts).                                *)
THEOREM DevicesHaveOneUser == Spec => []OneUserPerDevice
<1>1. Inv => OneUserPerDevice BY DEF Inv
<1> QED BY <1>1, InvCorrect, PTL

(* A device belongs to its last registrant or to one that overlapped its    *)
(* last registration, never to an earlier owner, for any number of          *)
(* overlapping registrations, removals and pushes (register_device,         *)
(* unregister_device, send_push_to_user).                                   *)
THEOREM LastRegistrantOwns == Spec => []LastRegistrationHolds
<1>1. Inv => LastRegistrationHolds BY DEF Inv
<1> QED BY <1>1, InvCorrect, PTL

(* No push ever deletes a row inserted after its selection, nor one that    *)
(* Firebase did not declare dead to it (the prune by row id).               *)
THEOREM OnlyDeadPruned == Spec => PrunedWasDeclaredDead
<1> DEFINE Step == \/ \E t \in Tokens : Unregister(t)
                   \/ \A r \in table :
                         \/ \E q \in table' : q.id = r.id
                         \/ \E p \in Pushes : pc'[p] # pc[p] /\ r.id \in told[p]
<1>1. Inv /\ [Next]_vars => [Step]_vars
  <2> SUFFICES ASSUME Inv, Next PROVE Step
    OBVIOUS
  <2>1. ASSUME table' = table PROVE Step BY <2>1
  <2>2. ASSUME NEW s \in Requests, Update(s) PROVE Step
    <3>1. PICK old \in found[s], now \in table :
             now.id = old.id /\ Saves(s, (table \ {now}) \cup {RowOf(old, now, wants[s].user)})
      BY <2>2 DEF Update
    <3>2. table' = (table \ {now}) \cup {RowOf(old, now, wants[s].user)} BY <3>1 DEF Saves
    <3>3. now \in [id : 1..used, user : Users, token : Tokens] BY DEF Inv, TypeOK
    <3>4. RowOf(old, now, wants[s].user).id = now.id BY <3>3 DEF RowOf
    <3> HIDE DEF Step
    <3>5. \A r \in table : \E q \in table' : q.id = r.id BY <3>2, <3>4
    <3> QED BY <3>5 DEF Step
  <2>3. ASSUME NEW s \in Requests, Insert(s) PROVE Step
    <3>1. table \subseteq table' BY <2>3 DEF Insert, Saves
    <3> QED BY <3>1
  <2>4. ASSUME NEW p \in Pushes, Prune(p) PROVE Step
    <3>1. table' = table \ Doomed(p) /\ pc'[p] # pc[p]
      BY <2>4 DEF Prune, Forget, EndPush, Inv, TypeOK
    <3>2. \A r \in Doomed(p) : r.id \in told[p] BY DEF Doomed, Inv, DeadWasTold
    <3> QED BY <3>1, <3>2
  <2> HIDE DEF Step
  <2>5. ASSUME NEW s \in Requests, Register(s) PROVE Step
    <3>1. ASSUME NEW u \in Users, NEW t \in Tokens, Look(s, u, t) PROVE table' = table
      BY <3>1 DEF Look
    <3>2. RegisterFails(s) => table' = table BY DEF RegisterFails
    <3> QED BY <2>5, <3>1, <3>2, <2>1, <2>2, <2>3 DEF Register
  <2>6. ASSUME NEW p \in Pushes, Pushing(p) PROVE Step
    <3>1. ASSUME NEW r \in todo[p], NEW outcome, Send(p, r, outcome) PROVE table' = table
      BY <3>1 DEF Send
    <3>2. PushDone(p) \/ PushRaises(p) => table' = table BY DEF PushDone, PushRaises
    <3> QED BY <2>6, <3>1, <3>2, <2>1, <2>4 DEF Pushing
  <2>7. ASSUME NEW p \in Pushes, NEW u \in Users, StartPush(p, u) PROVE Step
    BY <2>7, <2>1 DEF StartPush
  <2>8. ASSUME NEW t \in Tokens, Unregister(t) PROVE Step BY <2>8 DEF Step
  <2> QED BY <2>5, <2>6, <2>7, <2>8 DEF Next
<1> HIDE DEF Step
<1>2. Spec => [][Step]_vars BY <1>1, InvCorrect, PTL DEF Spec
<1> QED BY <1>2 DEF Step, PrunedWasDeclaredDead
=============================================================================
