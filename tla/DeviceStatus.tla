----------------------------- MODULE DeviceStatus -----------------------------
(***************************************************************************)
(* Which device of a user is the active one: UserGateway.login and logout, *)
(* and DeviceController, called by the HTTP handlers and the SMP frames.   *)
(* A user's devices are those a profile index lists; each has a document   *)
(* in Elasticsearch with an active flag, and a login rewrites them one by  *)
(* one.  An event loop runs one handler at a time; handlers of different   *)
(* loops interleave at every access to the store.                          *)
(***************************************************************************)
EXTENDS Naturals, Sequences, FiniteSets, Functions

CONSTANTS
  User,
  Device,
  DevicesOf,  \* the devices the profile index lists for each user, in its order
  Loop,       \* event loops, each with the one handler it runs
  LoginFrom,  \* the devices users log in from
  Ops,        \* the operations clients call
  StoreFails, \* whether an access to the store may fail
  None        \* Java's null

ASSUME DevicesAssumption == DevicesOf \in [User -> Seq(Device)]
ASSUME LoginAssumption == LoginFrom \subseteq Device
ASSUME OpsAssumption == Ops \subseteq {"login", "logout", "register", "delete", "status"}
ASSUME FailsAssumption == StoreFails \in BOOLEAN
ASSUME NoneAssumption == None \notin Device \cup User

VARIABLES
  doc,     \* doc[d]: the document of device d and its active flag
  pc,      \* where the handler of loop l stands
  user,    \* the user it logs in or out
  target,  \* the device of a login, None in a logout
  rest,    \* the devices its loop has not come to
  disturbed  \* history: another loop set one of the user's devices against the handler

threadVars == <<pc, user, target, rest>>
vars == <<doc, threadVars, disturbed>>

Flag(isActive) == IF isActive THEN "active" ELSE "inactive"

TypeOK ==
  /\ doc \in [Device -> {"none", "active", "inactive"}]
  /\ pc \in [Loop -> {"idle", "look", "update"}]
  /\ user \in [Loop -> User \cup {None}]
  /\ target \in [Loop -> Device \cup {None}]
  /\ rest \in [Loop -> Seq(Device)]
  /\ disturbed \in [Loop -> BOOLEAN]

\* The documents outlive the server: it may start on any of them.
Init ==
  /\ doc \in [Device -> {"none", "active", "inactive"}]
  /\ pc = [l \in Loop |-> "idle"]
  /\ user = [l \in Loop |-> None]
  /\ target = [l \in Loop |-> None]
  /\ rest = [l \in Loop |-> <<>>]
  /\ disturbed = [l \in Loop |-> FALSE]

\* Loop l writes the document of device d.  A deletion, and the flag its handler
\* wants itself, do not disturb the handler of another loop.
Store(l, d, value) ==
  /\ doc' = [doc EXCEPT ![d] = value]
  /\ disturbed' = [k \in Loop |->
       \/ disturbed[k]
       \/ /\ k # l /\ pc[k] # "idle"
          /\ d \in Range(DevicesOf[user[k]])
          /\ value \notin {"none", doc[d], Flag(d = target[k])}]

Undisturbed(l) == disturbed' = [disturbed EXCEPT ![l] = FALSE]

Call(l, step, u, d, list) ==
  /\ pc' = [pc EXCEPT ![l] = step]
  /\ user' = [user EXCEPT ![l] = u]
  /\ target' = [target EXCEPT ![l] = d]
  /\ rest' = [rest EXCEPT ![l] = list]

Return(l) == Call(l, "idle", None, None, <<>>)

--------------------------------------------------------------------------------
(* UserGateway.login and logout *)

\* The device must be registered; nothing asks whether it is the user's.
Login(l, u, d) ==
  /\ "login" \in Ops
  /\ pc[l] = "idle"
  /\ doc[d] # "none"
  /\ Call(l, "look", u, d, DevicesOf[u])
  /\ Undisturbed(l)
  /\ UNCHANGED doc

\* Mutant: the loop starts at the second device.
LogoutAfterFirst(l, u) ==
  /\ "logout" \in Ops
  /\ pc[l] = "idle"
  /\ DevicesOf[u] # <<>>
  /\ Call(l, "update", u, None, Tail(DevicesOf[u]))
  /\ Undisturbed(l)
  /\ UNCHANGED doc

Logout(l, u) ==
  /\ "logout" \in Ops
  /\ pc[l] = "idle"
  /\ Call(l, "update", u, None, DevicesOf[u])
  /\ Undisturbed(l)
  /\ UNCHANGED doc

\* A login passes over devices that are not registered; a logout does not look.
Look(l) ==
  /\ pc[l] = "look"
  /\ rest[l] # <<>>
  /\ \/ doc[Head(rest[l])] # "none" /\ pc' = [pc EXCEPT ![l] = "update"] /\ UNCHANGED rest
     \/ doc[Head(rest[l])] = "none" /\ rest' = [rest EXCEPT ![l] = Tail(@)] /\ UNCHANGED pc
  /\ UNCHANGED <<doc, user, target, disturbed>>

AfterUpdate(l) ==
  /\ pc' = [pc EXCEPT ![l] = IF target[l] = None THEN "update" ELSE "look"]
  /\ rest' = [rest EXCEPT ![l] = Tail(@)]
  /\ UNCHANGED <<user, target>>

\* Mutant: a login leaves the other devices as they are.
UpdateTargetOnly(l) ==
  /\ pc[l] = "update"
  /\ rest[l] # <<>>
  /\ LET x == Head(rest[l])
     IN  \/ /\ doc[x] # "none"
            /\ Store(l, x, IF target[l] \in {x, None} THEN Flag(x = target[l]) ELSE doc[x])
            /\ AfterUpdate(l)
         \/ doc[x] = "none" /\ Return(l) /\ UNCHANGED <<doc, disturbed>>

\* Mutant: the update of a missing document creates it.
UpdateUpserts(l) ==
  /\ pc[l] = "update"
  /\ rest[l] # <<>>
  /\ Store(l, Head(rest[l]), Flag(Head(rest[l]) = target[l]))
  /\ AfterUpdate(l)

\* updateStatus of one device.  The document may have been deleted since the look,
\* or never have been there: the update throws and the handler ends with a fault.
Update(l) ==
  /\ pc[l] = "update"
  /\ rest[l] # <<>>
  /\ LET x == Head(rest[l])
     IN  \/ /\ doc[x] # "none"
            /\ Store(l, x, Flag(x = target[l]))
            /\ AfterUpdate(l)
         \/ doc[x] = "none" /\ Return(l) /\ UNCHANGED <<doc, disturbed>>

Finish(l) ==
  /\ pc[l] # "idle"
  /\ rest[l] = <<>>
  /\ Return(l)
  /\ UNCHANGED <<doc, disturbed>>

\* An access to the store fails, before or after it took effect: the devices that
\* were updated stay updated.
Fault(l) ==
  /\ StoreFails
  /\ pc[l] # "idle"
  /\ rest[l] # <<>>
  /\ Return(l)
  /\ UNCHANGED <<doc, disturbed>>

--------------------------------------------------------------------------------
(* DeviceController, one access each *)

\* create indexes the document, over an older one if there is one.
Register(l, d, isActive) ==
  /\ "register" \in Ops
  /\ pc[l] = "idle"
  /\ Store(l, d, Flag(isActive))
  /\ UNCHANGED threadVars

Delete(l, d) ==
  /\ "delete" \in Ops
  /\ pc[l] = "idle"
  /\ Store(l, d, "none")
  /\ UNCHANGED threadVars

\* Mutant: a request without the flag stores null.
UpdateStatusToNull(l, d, isActive) ==
  /\ "status" \in Ops
  /\ pc[l] = "idle"
  /\ doc[d] # "none"
  /\ Store(l, d, None)
  /\ UNCHANGED threadVars

\* updateStatus throws when there is no document.
UpdateStatus(l, d, isActive) ==
  /\ "status" \in Ops
  /\ pc[l] = "idle"
  /\ doc[d] # "none"
  /\ Store(l, d, Flag(isActive))
  /\ UNCHANGED threadVars

\* getActive, for a broadcast: the first listed device that is active.
Active(u) == {i \in DOMAIN DevicesOf[u] : doc[DevicesOf[u][i]] = "active"}
GetActive(u) ==
  IF Active(u) = {} THEN None
  ELSE DevicesOf[u][CHOOSE i \in Active(u) : \A j \in Active(u) : i <= j]

Client(l) ==
  \/ \E u \in User : Logout(l, u) \/ \E d \in LoginFrom : Login(l, u, d)
  \/ \E d \in Device : Delete(l, d)
  \/ \E d \in Device, isActive \in BOOLEAN : Register(l, d, isActive) \/ UpdateStatus(l, d, isActive)

Handler(l) == Look(l) \/ Update(l) \/ Finish(l) \/ Fault(l)

Next == \E l \in Loop : Client(l) \/ Handler(l)

Spec == Init /\ [][Next]_vars

--------------------------------------------------------------------------------
(* What a login and a logout promise *)

\* Loop l ends a login, or a logout, without a fault.
Ends(l) == pc[l] # "idle" /\ rest[l] = <<>> /\ pc'[l] = "idle"

\* After a login without a fault the broadcasts to the user go to the device of
\* the login and to no other: of the user's registered devices it alone is active,
\* whatever is deleted or retried meanwhile, unless another loop sets one of them
\* otherwise.  UserGateway.java:33-41, DeviceController.java:31-41; the check of
\* PutLoginTest.java:63-68.
LoginDecides ==
  [][\A l \in Loop : Ends(l) /\ target[l] # None /\ ~disturbed[l] =>
       LET own == Range(DevicesOf[user[l]])
       IN  /\ \A x \in own : doc[x] = "none" \/ (doc[x] = "active" <=> x = target[l])
           /\ target[l] \in own /\ doc[target[l]] # "none" => GetActive(user[l]) = target[l]]_vars

\* When the last of several logins of a user ends, one of the user's registered
\* devices is active and the others are not: what PutLoginTest.java:63-68 checks.
LoginsLeaveOneActive ==
  [][\A l \in Loop : Ends(l) /\ target[l] # None /\ (\A k \in Loop \ {l} : pc[k] = "idle") =>
       Cardinality({x \in Range(DevicesOf[user[l]]) : doc[x] = "active"}) = 1]_vars

\* After a logout without a fault no broadcast reaches the user, unless another
\* loop made one of the user's devices active meanwhile.  UserGateway.java:46-54.
LogoutClears ==
  [][\A l \in Loop : Ends(l) /\ target[l] = None /\ ~disturbed[l] => GetActive(user[l]) = None]_vars

\* A device that was deleted, even between a login's look and its update, comes
\* back only when it is registered again.  UserGateway.java:36-40.
DeletedStaysDeleted ==
  [][\A d \in Device : doc[d] = "none" /\ doc'[d] # "none" =>
       \E l \in Loop, isActive \in BOOLEAN : Register(l, d, isActive)]_vars
================================================================================
