----------------------------- MODULE PushDevices -----------------------------
(***************************************************************************)
(* The table device_tokens (models/device_token.py), and the handlers of   *)
(* push_notification_service.py that share it: register_device,            *)
(* unregister_device and send_push_to_user.                                *)
(*                                                                         *)
(* A registration looks the token up and writes what it found, or a new    *)
(* row, in a later statement; a push works on the rows it selected, awaits *)
(* Firebase once for each, and deletes by row id those it was told are     *)
(* dead.  Registrations, pushes and unregistrations overlap freely.  What  *)
(* a push does to the session of its caller is in Settlement.              *)
(***************************************************************************)
EXTENDS Integers, FiniteSets

CONSTANTS
    Users,          \* merchants
    Tokens,         \* FCM tokens, one per installed app
    Requests,       \* sessions that register devices
    Pushes,         \* sessions that push
    MaxRows         \* bound: rows ever inserted

Nobody == "nobody"

ASSUME SessionAssumption ==
    /\ Requests \cap Pushes = {}
    /\ Nobody \notin Users /\ MaxRows \in Nat
    /\ Users # {} /\ Tokens # {}

VARIABLES
    table,      \* device_tokens: the committed rows
    used,       \* number of rows ever inserted; ids are never used again
    pc,         \* where each session is
    wants,      \* the user and the token each request registers
    found,      \* the row each request's lookup returned, as a set
    todo,       \* rows each push has still to send to
    dead,       \* rows each push was told are dead
    told,       \* history: ids of the rows Firebase declared dead to each push
    since,      \* history: who registered each request's token since it looked
    last        \* history: the last registrant of each token, with those who
                \* registered it while that registration was under way

request == <<wants, found, since>>
push    == <<todo, dead, told>>
vars == <<table, used, pc, wants, found, todo, dead, told, since, last>>

Row == [id : Nat, user : Users, token : Tokens]
Nothing == [user |-> CHOOSE u \in Users : TRUE, token |-> CHOOSE t \in Tokens : TRUE]

Init ==
    /\ table = {} /\ used = 0
    /\ pc = [s \in Requests \cup Pushes |-> "closed"]
    /\ wants = [s \in Requests |-> Nothing]
    /\ found = [s \in Requests |-> {}]
    /\ todo = [p \in Pushes |-> {}] /\ dead = [p \in Pushes |-> {}]
    /\ told = [p \in Pushes |-> {}]
    /\ since = [s \in Requests |-> {}]
    /\ last = [t \in Tokens |-> {}]

-----------------------------------------------------------------------------
(* register_device *)

Look(s, u, t) ==
    /\ pc[s] = "closed"
    /\ pc' = [pc EXCEPT ![s] = "found"]
    /\ wants' = [wants EXCEPT ![s] = [user |-> u, token |-> t]]
    /\ found' = [found EXCEPT ![s] = {r \in table : r.token = t}]
    /\ UNCHANGED <<table, used, since, push, last>>

EndRequest(s) ==
    /\ pc[s] = "found"
    /\ pc' = [pc EXCEPT ![s] = "closed"]
    /\ wants' = [wants EXCEPT ![s] = Nothing]
    /\ found' = [found EXCEPT ![s] = {}]

Rivals(s) ==
    {q \in Requests \ {s} : pc[q] = "found" /\ wants[q].token = wants[s].token}

(* The registration s committed the table tab. *)
Saves(s, tab) ==
    /\ EndRequest(s)
    /\ table' = tab
    /\ since' = [q \in Requests |->
                    IF q = s THEN {}
                    ELSE IF q \in Rivals(s) THEN since[q] \cup {wants[s].user}
                    ELSE since[q]]
    /\ last' = [last EXCEPT ![wants[s].token] = {wants[s].user} \cup since[s]]
    /\ UNCHANGED push

\* Variants: the row keeps its user; it is left without one.
RowOfFinder(old, now, u) == now
RowOfNobody(old, now, u) == [now EXCEPT !.user = Nobody]

(* The UPDATE writes the columns that differ from what the lookup loaded.  *)
RowOf(old, now, u) == IF old.user = u THEN now ELSE [now EXCEPT !.user = u]

Update(s) ==
    \E old \in found[s] : \E now \in table :
        /\ now.id = old.id
        /\ Saves(s, (table \ {now}) \cup {RowOf(old, now, wants[s].user)})
        /\ UNCHANGED used

\* Variant: the column is not unique.
MayInsertTwice(t) == TRUE

MayInsert(t) == \A r \in table : r.token # t

Insert(s) ==
    /\ found[s] = {}
    /\ used < MaxRows
    /\ MayInsert(wants[s].token)
    /\ Saves(s, table \cup {[id |-> used + 1, user |-> wants[s].user,
                             token |-> wants[s].token]})
    /\ used' = used + 1

(* The row is gone, the token is taken, or the request is broken off: the  *)
(* commit raises and nothing is kept.                                      *)
RegisterFails(s) ==
    /\ EndRequest(s)
    /\ since' = [since EXCEPT ![s] = {}]
    /\ UNCHANGED <<table, used, push, last>>

(* Rows that go take the claim on their token along. *)
Forget(rows) ==
    /\ table' = table \ rows
    /\ last' = [t \in Tokens |-> IF \E r \in rows : r.token = t THEN {} ELSE last[t]]
    /\ UNCHANGED <<used, request>>

(* unregister_device: one DELETE and its commit *)
Unregister(t) ==
    /\ \E r \in table : r.token = t
    /\ Forget({r \in table : r.token = t})
    /\ UNCHANGED <<pc, push>>

-----------------------------------------------------------------------------
(* send_push_to_user *)

(* A user without devices is not pushed to: nothing happens. *)
StartPush(p, u) ==
    /\ pc[p] = "closed"
    /\ \E r \in table : r.user = u
    /\ pc' = [pc EXCEPT ![p] = "sending"]
    /\ todo' = [todo EXCEPT ![p] = {r \in table : r.user = u}]
    /\ UNCHANGED <<table, used, dead, told, request, last>>

(* _send_to_token: Firebase takes the message, says the token is dead (400 *)
(* or 404), or neither in time.                                            *)
Send(p, r, outcome) ==
    /\ pc[p] = "sending"
    /\ r \in todo[p]
    /\ todo' = [todo EXCEPT ![p] = @ \ {r}]
    /\ dead' = IF outcome = "dead" THEN [dead EXCEPT ![p] = @ \cup {r}] ELSE dead
    /\ told' = IF outcome = "dead" THEN [told EXCEPT ![p] = @ \cup {r.id}] ELSE told
    /\ UNCHANGED <<table, used, pc, request, last>>

\* Variant: rows are deleted by token.
DoomedByToken(p) == {r \in table : \E d \in dead[p] : d.token = r.token}

Doomed(p) == {r \in table : \E d \in dead[p] : d.id = r.id}

EndPush(p) ==
    /\ pc[p] = "sending"
    /\ pc' = [pc EXCEPT ![p] = "closed"]
    /\ todo' = [todo EXCEPT ![p] = {}]
    /\ dead' = [dead EXCEPT ![p] = {}]
    /\ told' = [told EXCEPT ![p] = {}]

Prune(p) ==
    /\ todo[p] = {} /\ dead[p] # {}
    /\ EndPush(p)
    /\ Forget(Doomed(p))

PushDone(p) ==
    /\ todo[p] = {} /\ dead[p] = {}
    /\ EndPush(p)
    /\ UNCHANGED <<table, used, request, last>>

(* Any exception is swallowed: the devices left are not pushed to, and     *)
(* those found dead are kept.                                              *)
PushRaises(p) ==
    /\ EndPush(p)
    /\ UNCHANGED <<table, used, request, last>>

-----------------------------------------------------------------------------

Register(s) ==
    \/ \E u \in Users, t \in Tokens : Look(s, u, t)
    \/ Update(s)
    \/ Insert(s)
    \/ RegisterFails(s)

Pushing(p) ==
    \/ \E r \in todo[p], outcome \in {"sent", "dead", "failed"} : Send(p, r, outcome)
    \/ Prune(p)
    \/ PushDone(p)
    \/ PushRaises(p)

Next ==
    \/ \E s \in Requests : Register(s)
    \/ \E t \in Tokens : Unregister(t)
    \/ \E p \in Pushes, u \in Users : StartPush(p, u)
    \/ \E p \in Pushes : Pushing(p)

Spec == Init /\ [][Next]_vars

-----------------------------------------------------------------------------
(* What is promised *)

(* Types: every variable holds a value of its kind, and row ids are those  *)
(* handed out so far.                                                      *)
TypeOK ==
    /\ used \in Nat
    /\ table \subseteq [id : 1..used, user : Users, token : Tokens]
    /\ pc \in [Requests \cup Pushes -> {"closed", "found", "sending"}]
    /\ wants \in [Requests -> [user : Users, token : Tokens]]
    /\ found \in [Requests -> SUBSET Row]
    /\ todo \in [Pushes -> SUBSET Row] /\ dead \in [Pushes -> SUBSET Row]
    /\ told \in [Pushes -> SUBSET Nat]
    /\ since \in [Requests -> SUBSET Users]
    /\ last \in [Tokens -> SUBSET Users]

(* A device has one row, so one user, however its registrations overlap:    *)
(* two that both found no row do not both insert one.                       *)
OneUserPerDevice ==
    \A r, q \in table : r.token = q.token \/ r.id = q.id => r = q

(* A device that was not removed since has a row, and belongs to the user    *)
(* whose registration was committed last, or to one who registered it       *)
(* between that registration's lookup and its write; never to anyone who    *)
(* had it before.  (register_device writes the columns that differ from     *)
(* what its lookup found.)                                                  *)
LastRegistrationHolds ==
    \A t \in Tokens :
        last[t] # {} => \E r \in table : r.token = t /\ r.user \in last[t]

(* A push takes away only rows that Firebase declared dead to it, never     *)
(* one inserted since: a device that was removed and registered anew while  *)
(* a push awaited its answer stays registered.                              *)
PrunedWasDeclaredDead ==
    [][ \/ \E t \in Tokens : Unregister(t)
        \/ \A r \in table :
              \/ \E q \in table' : q.id = r.id
              \/ \E p \in Pushes : pc'[p] # pc[p] /\ r.id \in told[p] ]_vars
=============================================================================
