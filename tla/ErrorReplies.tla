------------------------------ MODULE ErrorReplies ------------------------------
(***************************************************************************)
(* How a request is answered, above all when it fails: the decoding of     *)
(* SmpframeRouter, SmpframeHandler.channelRead0 around every handler, the  *)
(* FaultException path of an HTTP handler, and the texts of Fault, which   *)
(* replaceWith fills in the shared enum constant itself, in two accesses   *)
(* no lock joins.                                                          *)
(*                                                                         *)
(* One request per connection.  What a handler does to the store is in the *)
(* other modules; here it only ends, and is answered.                      *)
(***************************************************************************)
EXTENDS Integers

CONSTANTS
  Request,  \* requests, each on a connection of its own
  Half,     \* frame ids run from -Half to Half - 1, 2^31 in Java
  None      \* Java's null

ASSUME HalfAssumption == Half \in Nat \ {0}

\* RETRIEVE_FRIENDS stands for the frames that are answered when they succeed,
\* CREATE_MESSAGE for those that are not; "login" is the HTTP request.
Op == {"garbage", "initialize", "friends", "createMessage", "login"}
Kind == {"USER_002", "DEVICE_002", "COMMON_003", "CHANNEL_001", "COMMON_000"}

\* The faults whose text replaceWith fills: with a user or a device, or, of COMMON_003,
\* with what the broadcast's push found wrong.  MessageController throws CHANNEL_001 as
\* it is, and the text of COMMON_000 has nothing to fill.
Filled(op) ==
  CASE op = "initialize" -> {"DEVICE_002"}
    [] op = "friends" -> {"USER_002"}
    [] op = "login" -> {"USER_002", "DEVICE_002"}
    [] op = "createMessage" -> {"COMMON_003"}
    [] OTHER -> {}
AsItIs(op) == IF op = "createMessage" THEN {"CHANNEL_001", "COMMON_000"} ELSE {"COMMON_000"}

VARIABLES
  op, id,    \* the request and the id of its frame
  session,   \* whether channelRead0 found the session the frame names
  pc,        \* where its handler stands
  fault,     \* the fault it fails with
  seen,      \* what replaceWith has read of the fault's text
  text,      \* the text of each fault: its template, or the request that filled it
  answer,    \* what was written to the connection
  open,      \* whether the server left the connection open
  failed     \* history: requests that failed

requestVars == <<op, id, session>>
vars == <<requestVars, pc, fault, seen, text, answer, open, failed>>

Word == -Half .. Half - 1
Wrap(n) == ((n + Half) % (2 * Half)) - Half

\* The text of a fault: its template, or the request whose names filled it.
Text == Request \cup {"template"}
Answer == [what : {"invalidFormat", "noSession", "internalUnknown", "starkService", "ok"},
           id : Word \cup {None}, shows : Text \cup {None}]

ASSUME RequestAssumption == "template" \notin Request
ASSUME NoneAssumption == None \notin Text /\ None \notin Word /\ None \notin Answer

TypeOK ==
  /\ op \in [Request -> Op \cup {None}]
  /\ id \in [Request -> Word \cup {None}]
  /\ session \in [Request -> BOOLEAN]
  /\ pc \in [Request -> {"idle", "handle", "replace", "fill", "tell", "done"}]
  /\ fault \in [Request -> Kind \cup {None}]
  /\ seen \in [Request -> Text \cup {None}]
  /\ text \in [Kind -> Text]
  /\ answer \in [Request -> Answer \cup {None}]
  /\ open \in [Request -> BOOLEAN]
  /\ failed \subseteq Request

Init ==
  /\ op = [r \in Request |-> None]
  /\ id = [r \in Request |-> None]
  /\ session = [r \in Request |-> FALSE]
  /\ pc = [r \in Request |-> "idle"]
  /\ fault = [r \in Request |-> None]
  /\ seen = [r \in Request |-> None]
  /\ text = [k \in Kind |-> "template"]
  /\ answer = [r \in Request |-> None]
  /\ open = [r \in Request |-> TRUE]
  /\ failed = {}

Goto(r, step) == pc' = [pc EXCEPT ![r] = step]

\* Mutant: the id is a long.
ResponseIdLong(n) == IF n < 0 THEN -1 ELSE n + 1

\* Mutant: the id is masked to the positive half, as in IdGenerator.
ResponseIdMasked(n) == IF n < 0 THEN -1 ELSE Wrap(n + 1) % Half

\* Smpframe.responseSmpframeId: a Java int, so the largest id wraps.
ResponseId(n) == IF n < 0 THEN -1 ELSE Wrap(n + 1)

\* Without an id responseSmpframeId throws: a null pointer.
Numbered(r) == op[r] \in {"garbage", "login"} \/ id[r] # None

\* The handler is done and something is written to the connection, which may be gone.
\* For a frame without an id there is an exception instead, in the catch block once
\* more, which leaves channelRead0: nothing is written, nothing closed.
Reply(r, what, shows, closes) ==
  /\ Goto(r, "done")
  /\ answer' = [answer EXCEPT ![r] =
       IF open[r] /\ Numbered(r)
       THEN [what |-> what, shows |-> shows,
             id |-> IF id[r] = None THEN None ELSE ResponseId(id[r])]
       ELSE @]
  /\ open' = [open EXCEPT ![r] = @ /\ ~(closes /\ Numbered(r))]

--------------------------------------------------------------------------------
(* SmpframeRouter.decode and SmpframeHandler.channelRead0 *)

Arrive(r, o, n, found) ==
  /\ pc[r] = "idle"
  /\ o \in {"garbage", "login"} => n = None /\ ~found
  /\ op' = [op EXCEPT ![r] = o]
  /\ id' = [id EXCEPT ![r] = n]
  /\ session' = [session EXCEPT ![r] = found]
  /\ Goto(r, "handle")
  /\ UNCHANGED <<fault, seen, text, answer, open, failed>>

Fails(r) == failed' = failed \cup {r}

Undecodable(r) ==
  /\ pc[r] = "handle" /\ op[r] = "garbage"
  /\ Fails(r)
  /\ Reply(r, "invalidFormat", None, TRUE)
  /\ UNCHANGED <<requestVars, fault, seen, text>>

\* INITIALIZE and the HTTP request need no session.
Handled(r) == pc[r] = "handle" /\ (op[r] \in {"initialize", "login"} \/ session[r])

NoSession(r) ==
  /\ pc[r] = "handle" /\ op[r] \in {"friends", "createMessage"} /\ ~session[r]
  /\ Fails(r)
  /\ Reply(r, "noSession", None, TRUE)
  /\ UNCHANGED <<requestVars, fault, seen, text>>

\* CREATE_MESSAGE and its like end without an answer.
Succeed(r) ==
  /\ Handled(r)
  /\ \/ op[r] = "createMessage" /\ Goto(r, "done") /\ UNCHANGED <<answer, open>>
     \/ op[r] # "createMessage" /\ Reply(r, "ok", None, FALSE)
  /\ UNCHANGED <<requestVars, fault, seen, text, failed>>

\* Any other exception; menton answers an HTTP request with a plain 500.
Crash(r) ==
  /\ Handled(r)
  /\ Fails(r)
  /\ Reply(r, "internalUnknown", None, FALSE)
  /\ UNCHANGED <<requestVars, fault, seen, text>>

--------------------------------------------------------------------------------
(* Fault, FaultException and ErrorStarkService *)

Refuse(r, k) ==
  /\ Handled(r)
  /\ Fails(r)
  /\ fault' = [fault EXCEPT ![r] = k]
  /\ \/ k \in Filled(op[r]) /\ Goto(r, "replace")
     \/ k \in AsItIs(op[r]) /\ Goto(r, "tell")
  /\ UNCHANGED <<requestVars, seen, text, answer, open>>

\* replaceWith reads the text and replaces the placeholder, if it is still there,
ReadText(r) ==
  /\ pc[r] = "replace"
  /\ seen' = [seen EXCEPT ![r] = text[fault[r]]]
  /\ Goto(r, "fill")
  /\ UNCHANGED <<requestVars, fault, text, answer, open, failed>>

\* Mutant: replaceWith drops the string it has made.
FillTextOfCopy(r) ==
  /\ pc[r] = "fill"
  /\ seen' = [seen EXCEPT ![r] = None]
  /\ Goto(r, "tell")
  /\ UNCHANGED <<requestVars, fault, text, answer, open, failed>>

\* and stores the result in the enum constant.
FillText(r) ==
  /\ pc[r] = "fill"
  /\ text' = [text EXCEPT ![fault[r]] = IF seen[r] = "template" THEN r ELSE seen[r]]
  /\ seen' = [seen EXCEPT ![r] = None]
  /\ Goto(r, "tell")
  /\ UNCHANGED <<requestVars, fault, answer, open, failed>>

\* Mutant: the write that fails closes nothing.
TellKeepsOpen(r) ==
  /\ pc[r] = "tell"
  /\ IF session[r] \/ op[r] = "login"
     THEN Reply(r, "starkService", text[fault[r]], FALSE)
     ELSE Goto(r, "done") /\ UNCHANGED <<answer, open>>
  /\ UNCHANGED <<requestVars, fault, seen, text, failed>>

\* ERROR_STARK_SERVICE reads the text anew.  Without a session the frame is written as
\* it is, which no encoder takes: the write fails, and its listener closes.
Tell(r) ==
  /\ pc[r] = "tell"
  /\ \/ /\ session[r] \/ op[r] = "login"
        /\ Reply(r, "starkService", text[fault[r]], FALSE)
     \/ /\ ~session[r] /\ op[r] # "login"
        /\ Goto(r, "done")
        /\ open' = [open EXCEPT ![r] = @ /\ ~Numbered(r)]
        /\ UNCHANGED answer
  /\ UNCHANGED <<requestVars, fault, seen, text, failed>>

\* The client hangs up, or another connection takes its device over.
HangUp(r) ==
  /\ open[r]
  /\ open' = [open EXCEPT ![r] = FALSE]
  /\ UNCHANGED <<requestVars, pc, fault, seen, text, answer, failed>>

Client(r) ==
  HangUp(r) \/ \E o \in Op, n \in Word \cup {None}, found \in BOOLEAN : Arrive(r, o, n, found)
Handler(r) ==
  \/ Undecodable(r) \/ NoSession(r) \/ Succeed(r) \/ Crash(r)
  \/ \E k \in Kind : Refuse(r, k)
  \/ ReadText(r) \/ FillText(r) \/ Tell(r)

Next == \E r \in Request : Client(r) \/ Handler(r)

Spec == Init /\ [][Next]_vars

--------------------------------------------------------------------------------
(* What a client can rely on *)

\* A request that fails is answered or loses its connection, so that its client can
\* tell, unless its frame has no id: then nothing is written and the connection
\* stays.  SmpframeHandler.java:26-84, SmpframeRouter.java:63-92, Smpframe.java:63-70.
FailureIsTold ==
  \A r \in failed : pc[r] = "done" /\ Numbered(r) => answer[r] # None \/ ~open[r]

\* A client finds its request by the id of the answer less one, as
\* Session.responseArrived does for the server's own requests, also for the largest
\* int, whose successor is negative.  Smpframe.java:63-70, Session.java:217-219.
AnswerLeadsBack ==
  \A r \in Request : answer[r] # None /\ id[r] # None /\ id[r] >= 0 =>
    Wrap(answer[r].id - 1) = id[r]

\* No client is shown the placeholder of a text that replaceWith fills, whichever
\* requests fill it at once; the name it is shown may be another's, but of a request
\* that was refused with the same fault.  Only the faults thrown as they are show
\* their template.  Fault.java:43-46, ErrorStarkService.java:14-19.
ShownNamesWereRefused ==
  \A r \in Request : answer[r] # None /\ answer[r].what = "starkService" =>
    LET shown == answer[r].shows
    IN  IF fault[r] \in Filled(op[r])
        THEN shown \in failed /\ fault[shown] = fault[r]
        ELSE shown = "template"
================================================================================
