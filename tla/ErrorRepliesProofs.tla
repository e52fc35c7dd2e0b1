--------------------------- MODULE ErrorRepliesProofs ---------------------------
(***************************************************************************)
(* Theorems about ErrorReplies, for any requests and any width of the ids. *)
(***************************************************************************)
EXTENDS ErrorReplies, TLAPS

\* A request fails once, in its handler, and is answered once, at its end.
InOrder ==
  \A r \in Request :
    /\ pc[r] \in {"idle", "handle"} => r \notin failed
    /\ answer[r] # None => /\ pc[r] = "done"
                           /\ answer[r].id = IF id[r] = None THEN None ELSE ResponseId(id[r])

\* The fault a request is at work on is one that its handler throws.
Refused(r) ==
  /\ pc[r] \in {"replace", "fill"} => r \in failed /\ fault[r] \in Filled(op[r])
  /\ pc[r] = "fill" => seen[r] \in Text
  /\ pc[r] = "tell" => r \in failed /\ fault[r] \in Filled(op[r]) \cup AsItIs(op[r])

Typed == TypeOK /\ InOrder /\ \A r \in Request : Refused(r)

\* A name that fills the text of fault k, or is about to.
NameFor(k, name) == name \in failed /\ fault[name] = k

\* A text is filled once and for all, and by a request refused with its fault.
Texts ==
  /\ \A k \in Kind : text[k] # "template" => NameFor(k, text[k]) /\ k \in {"USER_002", "DEVICE_002", "COMMON_003"}
  /\ \A r \in Request : pc[r] = "fill" => seen[r] = "template" \/ NameFor(fault[r], seen[r])
  /\ \A r \in Request : pc[r] = "tell" /\ fault[r] \in Filled(op[r]) => text[fault[r]] # "template"
--------------------------------------------------------------------------------
(* Frame ids *)

\* A Java int stays one.
LEMMA WrapTyped ==
  ASSUME NEW n \in Int
  PROVE  Wrap(n) \in Word
  BY HalfAssumption DEF Wrap, Word

\* Wrapping leaves an int alone.
LEMMA WrapInside ==
  ASSUME NEW n \in Word
  PROVE  Wrap(n) = n
  <1>1. n + Half \in 0 .. 2 * Half - 1
    BY HalfAssumption DEF Word
  <1> QED BY <1>1, HalfAssumption DEF Wrap, Word

\* The id of an answer leads back to the id of the request, the largest int too.
LEMMA WrapBack ==
  ASSUME NEW n \in Word, n >= 0
  PROVE  Wrap(Wrap(n + 1) - 1) = n
  <1>1. n \in Int /\ Half \in Int /\ n < Half /\ Half > 0
    BY HalfAssumption DEF Word
  <1>2. CASE n + 1 < Half
    <2>1. n + 1 \in Word
      BY <1>1, <1>2 DEF Word
    <2>2. Wrap(n + 1) - 1 = n
      BY <1>1, <2>1, WrapInside
    <2> QED BY <2>2, WrapInside
  <1>3. CASE n + 1 = Half
    <2>1. (2 * Half) % (2 * Half) = 0 /\ (-1) % (2 * Half) = 2 * Half - 1
      BY HalfAssumption
    <2>2. Wrap(Half) = -Half
      BY <1>1, <2>1 DEF Wrap
    <2>3. Wrap(-Half - 1) = Half - 1
      BY <1>1, <2>1 DEF Wrap
    <2> QED BY <1>1, <1>3, <2>2, <2>3
  <1> QED BY <1>1, <1>2, <1>3

\* The id of an answer is an int.
LEMMA ResponseIdTyped ==
  ASSUME NEW n \in Word
  PROVE  ResponseId(n) \in Word
  <1>1. n + 1 \in Int /\ -1 \in Word
    BY HalfAssumption DEF Word
  <1> QED BY <1>1, WrapTyped DEF ResponseId
--------------------------------------------------------------------------------

\* The frame of an answer.
LEMMA AnswerTyped ==
  ASSUME Typed, NEW r \in Request,
         NEW what \in {"invalidFormat", "noSession", "internalUnknown", "starkService", "ok"},
         NEW shows \in Text \cup {None}
  PROVE  [what |-> what, shows |-> shows,
          id |-> IF id[r] = None THEN None ELSE ResponseId(id[r])] \in Answer
  <1>1. id[r] \in Word \cup {None}
    BY DEF Typed, TypeOK
  <1>2. (IF id[r] = None THEN None ELSE ResponseId(id[r])) \in Word \cup {None}
    BY <1>1, ResponseIdTyped
  <1> QED BY <1>2 DEF Answer

\* The end of a handler, answered or not.
LEMMA ReplyTyped ==
  ASSUME Typed, NEW r \in Request,
         NEW what \in {"invalidFormat", "noSession", "internalUnknown", "starkService", "ok"},
         NEW shows \in Text \cup {None}, NEW closes \in BOOLEAN, Reply(r, what, shows, closes)
  PROVE  /\ pc' \in [Request -> {"idle", "handle", "replace", "fill", "tell", "done"}]
         /\ answer' \in [Request -> Answer \cup {None}]
         /\ open' \in [Request -> BOOLEAN]
         /\ pc'[r] = "done"
         /\ \A q \in Request : q # r => pc'[q] = pc[q] /\ answer'[q] = answer[q] /\ open'[q] = open[q]
         /\ answer'[r] = answer[r] \/
              answer'[r] = [what |-> what, shows |-> shows,
                            id |-> IF id[r] = None THEN None ELSE ResponseId(id[r])]
  <1> DEFINE new == [what |-> what, shows |-> shows,
                     id |-> IF id[r] = None THEN None ELSE ResponseId(id[r])]
  <1>1. new \in Answer
    BY AnswerTyped
  <1>2. /\ pc' = [pc EXCEPT ![r] = "done"]
        /\ answer' = [answer EXCEPT ![r] = IF open[r] /\ Numbered(r) THEN new ELSE @]
        /\ open' = [open EXCEPT ![r] = @ /\ ~(closes /\ Numbered(r))]
    BY Zenon DEF Reply, Goto
  <1> HIDE DEF new
  <1>3. /\ pc' \in [Request -> {"idle", "handle", "replace", "fill", "tell", "done"}]
        /\ pc'[r] = "done"
        /\ \A q \in Request : q # r => pc'[q] = pc[q] /\ answer'[q] = answer[q] /\ open'[q] = open[q]
    BY <1>2 DEF Typed, TypeOK
  <1>4. answer' \in [Request -> Answer \cup {None}]
    BY <1>1, <1>2 DEF Typed, TypeOK
  <1>5. open' \in [Request -> BOOLEAN]
    BY <1>2 DEF Typed, TypeOK
  <1>6. answer'[r] = IF open[r] /\ Numbered(r) THEN new ELSE answer[r]
    BY <1>2 DEF Typed, TypeOK
  <1> QED BY <1>3, <1>4, <1>5, <1>6 DEF new

\* A request that is answered, or ends without an answer, leaves the others alone.
LEMMA EndTyped ==
  ASSUME Typed, NEW r \in Request, pc[r] \in {"handle", "tell"},
         UNCHANGED <<requestVars, fault, seen, text>>,
         failed' \in {failed, failed \cup {r}},
         pc' \in [Request -> {"idle", "handle", "replace", "fill", "tell", "done"}],
         answer' \in [Request -> Answer \cup {None}],
         open' \in [Request -> BOOLEAN],
         pc'[r] = "done",
         \A q \in Request : q # r => pc'[q] = pc[q] /\ answer'[q] = answer[q],
         answer'[r] = answer[r] \/
           answer'[r].id = IF id[r] = None THEN None ELSE ResponseId(id[r])
  PROVE  Typed'
  <1>1. TypeOK'
    BY DEF Typed, TypeOK, requestVars
  <1>2. InOrder'
    BY DEF Typed, InOrder, requestVars
  <1>3. ASSUME NEW q \in Request PROVE Refused(q)'
    BY DEF Typed, Refused, requestVars
  <1> QED BY <1>1, <1>2, <1>3 DEF Typed

\* A handler that goes on, to pc step, leaves the others and the answers alone.
LEMMA OnTyped ==
  ASSUME Typed, NEW r \in Request, NEW step \in {"handle", "replace", "fill", "tell"},
         Goto(r, step), pc[r] # "done", TypeOK', UNCHANGED answer,
         failed' \in {failed, failed \cup {r}},
         step = "handle" => failed' = failed /\ pc[r] = "idle",
         \A q \in Request : q # r => op'[q] = op[q] /\ id'[q] = id[q] /\ fault'[q] = fault[q]
                                     /\ seen'[q] = seen[q],
         Refused(r)'
  PROVE  Typed'
  <1>1. pc'[r] = step /\ \A q \in Request : q # r => pc'[q] = pc[q]
    BY DEF Goto, Typed, TypeOK
  <1>2. InOrder'
    BY <1>1 DEF Typed, InOrder
  <1>3. ASSUME NEW q \in Request, q # r PROVE Refused(q)'
    BY <1>1, <1>3 DEF Typed, Refused
  <1> QED BY <1>2, <1>3 DEF Typed

\* The faults a handler throws are faults.
LEMMA Thrown == \A o : Filled(o) \subseteq {"USER_002", "DEVICE_002", "COMMON_003"}
                     /\ AsItIs(o) \subseteq {"CHANNEL_001", "COMMON_000"}
  BY DEF Filled, AsItIs

\* One lemma for each way a request ends.
LEMMA RepliesTyped ==
  ASSUME Typed, NEW r \in Request,
         Undecodable(r) \/ NoSession(r) \/ Succeed(r) \/ Crash(r) \/ Tell(r)
  PROVE  Typed'
  <1>1. UNCHANGED <<requestVars, fault, seen, text>> /\ failed' \in {failed, failed \cup {r}}
    BY DEF Undecodable, NoSession, Succeed, Crash, Tell, Fails
  <1>2. pc[r] \in {"handle", "tell"}
    BY DEF Undecodable, NoSession, Succeed, Crash, Tell, Handled
  <1>3. ASSUME NEW what \in {"invalidFormat", "noSession", "internalUnknown", "starkService", "ok"},
               NEW shows \in Text \cup {None}, NEW closes \in BOOLEAN, Reply(r, what, shows, closes)
        PROVE  Typed'
    <2>1. /\ pc' \in [Request -> {"idle", "handle", "replace", "fill", "tell", "done"}]
          /\ answer' \in [Request -> Answer \cup {None}]
          /\ open' \in [Request -> BOOLEAN]
          /\ pc'[r] = "done"
          /\ \A q \in Request : q # r => pc'[q] = pc[q] /\ answer'[q] = answer[q] /\ open'[q] = open[q]
          /\ answer'[r] = answer[r] \/
               answer'[r] = [what |-> what, shows |-> shows,
                             id |-> IF id[r] = None THEN None ELSE ResponseId(id[r])]
      BY <1>3, ReplyTyped
    <2>2. answer'[r] = answer[r] \/
            answer'[r].id = IF id[r] = None THEN None ELSE ResponseId(id[r])
      BY <2>1
    <2> QED BY <1>1, <1>2, <2>1, <2>2, EndTyped
  <1>4. ASSUME Goto(r, "done"), answer' = answer, open' \in [Request -> BOOLEAN] PROVE Typed'
    BY <1>1, <1>2, <1>4, EndTyped DEF Goto, Typed, TypeOK
  <1>5. None \in Text \cup {None}
    OBVIOUS
  <1>6. CASE Undecodable(r)
    BY <1>3, <1>5, <1>6 DEF Undecodable
  <1>7. CASE NoSession(r)
    BY <1>3, <1>5, <1>7 DEF NoSession
  <1>8. CASE Succeed(r)
    BY <1>3, <1>4, <1>5, <1>8 DEF Succeed, Typed, TypeOK
  <1>9. CASE Crash(r)
    BY <1>3, <1>5, <1>9 DEF Crash
  <1>10. CASE Tell(r)
    <2>1. fault[r] \in Kind /\ text[fault[r]] \in Text
      BY <1>10, Thrown DEF Tell, Typed, TypeOK, Refused, Kind
    <2>2. CASE session[r] \/ op[r] = "login"
      BY <1>3, <1>10, <2>1, <2>2 DEF Tell
    <2>3. CASE ~session[r] /\ op[r] # "login"
      <3>1. open' \in [Request -> BOOLEAN]
        BY <1>10, <2>3 DEF Tell, Typed, TypeOK
      <3> QED BY <1>4, <1>10, <2>3, <3>1 DEF Tell
    <2> QED BY <2>2, <2>3
  <1> QED BY <1>6, <1>7, <1>8, <1>9, <1>10

\* Every step keeps the types and the order of a request.
LEMMA TypedStep ==
  ASSUME Typed, [Next]_vars
  PROVE  Typed'
  <1>1. CASE UNCHANGED vars
    BY <1>1 DEF vars, requestVars, Typed, TypeOK, InOrder, Refused
  <1>2. ASSUME NEW r \in Request, HangUp(r) PROVE Typed'
    BY <1>2 DEF HangUp, requestVars, Typed, TypeOK, InOrder, Refused
  <1>3. ASSUME NEW r \in Request, NEW o \in Op, NEW n \in Word \cup {None}, NEW found \in BOOLEAN,
               Arrive(r, o, n, found)
        PROVE  Typed'
    <2>1. TypeOK'
      BY <1>3 DEF Arrive, Goto, Typed, TypeOK
    <2>2. Refused(r)'
      BY <1>3 DEF Arrive, Goto, Refused, Typed, TypeOK
    <2>3. \A q \in Request : q # r => op'[q] = op[q] /\ id'[q] = id[q] /\ fault'[q] = fault[q]
                                      /\ seen'[q] = seen[q]
      BY <1>3 DEF Arrive, Typed, TypeOK
    <2> QED BY <1>3, <2>1, <2>2, <2>3, OnTyped DEF Arrive
  <1>4. ASSUME NEW r \in Request, NEW k \in Kind, Refuse(r, k) PROVE Typed'
    <2>1. /\ pc[r] = "handle" /\ failed' = failed \cup {r} /\ fault' = [fault EXCEPT ![r] = k]
          /\ UNCHANGED <<op, id, session, seen, text, answer, open>>
          /\ (k \in Filled(op[r]) /\ Goto(r, "replace")) \/ (k \in AsItIs(op[r]) /\ Goto(r, "tell"))
      BY <1>4 DEF Refuse, Handled, Fails, requestVars
    <2>2. TypeOK'
      BY <2>1 DEF Goto, Typed, TypeOK
    <2>3. Refused(r)'
      BY <2>1 DEF Goto, Refused, Typed, TypeOK
    <2>4. \A q \in Request : q # r => op'[q] = op[q] /\ id'[q] = id[q] /\ fault'[q] = fault[q]
                                      /\ seen'[q] = seen[q]
      BY <2>1 DEF Typed, TypeOK
    <2> QED BY <2>1, <2>2, <2>3, <2>4, OnTyped
  <1>5. ASSUME NEW r \in Request, ReadText(r) PROVE Typed'
    <2>1. /\ pc[r] = "replace" /\ Goto(r, "fill") /\ seen' = [seen EXCEPT ![r] = text[fault[r]]]
          /\ UNCHANGED <<op, id, session, fault, text, answer, open, failed>>
      BY <1>5 DEF ReadText, requestVars
    <2>2. text[fault[r]] \in Text
      BY <2>1, Thrown DEF Typed, TypeOK, Refused, Kind
    <2>3. TypeOK'
      BY <2>1, <2>2 DEF Goto, Typed, TypeOK
    <2>4. Refused(r)'
      BY <2>1, <2>2 DEF Goto, Refused, Typed, TypeOK
    <2>5. \A q \in Request : q # r => seen'[q] = seen[q]
      BY <2>1 DEF Typed, TypeOK
    <2> QED BY <2>1, <2>3, <2>4, <2>5, OnTyped
  <1>6. ASSUME NEW r \in Request, FillText(r) PROVE Typed'
    <2>1. /\ pc[r] = "fill" /\ Goto(r, "tell") /\ seen' = [seen EXCEPT ![r] = None]
          /\ text' = [text EXCEPT ![fault[r]] = IF seen[r] = "template" THEN r ELSE seen[r]]
          /\ UNCHANGED <<op, id, session, fault, answer, open, failed>>
      BY <1>6 DEF FillText, requestVars
    <2>2. (IF seen[r] = "template" THEN r ELSE seen[r]) \in Text
      BY <2>1 DEF Text, Typed, Refused
    <2>3. TypeOK'
      BY <2>1, <2>2 DEF Goto, Typed, TypeOK
    <2>4. Refused(r)'
      BY <2>1 DEF Goto, Refused, Typed, TypeOK
    <2>5. \A q \in Request : q # r => seen'[q] = seen[q]
      BY <2>1 DEF Typed, TypeOK
    <2> QED BY <2>1, <2>3, <2>4, <2>5, OnTyped
  <1> QED BY <1>1, <1>2, <1>3, <1>4, <1>5, <1>6, RepliesTyped DEF Next, Client, Handler

\* Types and order are inductive.
LEMMA TypedInvariance == Spec => []Typed
  <1>1. Init => Typed
    BY DEF Init, Typed, TypeOK, InOrder, Refused, Text
  <1> QED BY <1>1, TypedStep, PTL DEF Spec

\* Every variable of ErrorReplies keeps its type.
THEOREM TypeCorrect == Spec => []TypeOK
  <1>1. Typed => TypeOK
    BY DEF Typed
  <1> QED BY <1>1, TypedInvariance, PTL

\* The id of an answer less one is the id of the request, for ints of any width.
THEOREM AnswersLeadBack == Spec => []AnswerLeadsBack
  <1>1. Typed => AnswerLeadsBack
    <2> SUFFICES ASSUME Typed, NEW r \in Request, answer[r] # None, id[r] # None, id[r] >= 0
                 PROVE  Wrap(answer[r].id - 1) = id[r]
      BY DEF AnswerLeadsBack
    <2>1. id[r] \in Word /\ answer[r].id = Wrap(id[r] + 1)
      <3>1. id[r] \in Word
        BY DEF Typed, TypeOK
      <3>2. ~(id[r] < 0)
        BY <3>1, HalfAssumption DEF Word
      <3> QED BY <3>1, <3>2 DEF Typed, InOrder, ResponseId
    <2> QED BY <2>1, WrapBack
  <1> QED BY <1>1, TypedInvariance, PTL
--------------------------------------------------------------------------------
(* Failures *)

\* Where there is an id, a reply is written or the connection is down.
LEMMA ReplyTells ==
  ASSUME Typed, NEW r \in Request,
         NEW what \in {"invalidFormat", "noSession", "internalUnknown", "starkService", "ok"},
         NEW shows \in Text \cup {None}, NEW closes \in BOOLEAN, Reply(r, what, shows, closes),
         Numbered(r)
  PROVE  answer'[r] # None \/ ~open'[r]
  <1> DEFINE new == [what |-> what, shows |-> shows,
                     id |-> IF id[r] = None THEN None ELSE ResponseId(id[r])]
  <1>1. new # None
    BY AnswerTyped, NoneAssumption
  <1>2. /\ answer' = [answer EXCEPT ![r] = IF open[r] /\ Numbered(r) THEN new ELSE @]
        /\ open' = [open EXCEPT ![r] = @ /\ ~(closes /\ Numbered(r))]
    BY Zenon DEF Reply
  <1> HIDE DEF new
  <1>3. answer'[r] = IF open[r] /\ Numbered(r) THEN new ELSE answer[r]
    BY <1>2 DEF Typed, TypeOK
  <1>4. open'[r] => open[r]
    BY <1>2 DEF Typed, TypeOK
  <1> QED BY <1>1, <1>3, <1>4

\* A step that ends no request of a failure untold.
LEMMA ToldStep ==
  ASSUME Typed, FailureIsTold, [Next]_vars
  PROVE  FailureIsTold'
  <1> SUFFICES ASSUME NEW q \in Request, q \in failed', pc'[q] = "done", Numbered(q)'
               PROVE  answer'[q] # None \/ ~open'[q]
    <2>1. failed' \subseteq Request
      BY TypedStep DEF Typed, TypeOK
    <2> QED BY <2>1 DEF FailureIsTold
  <1>1. ASSUME pc[q] = "done", UNCHANGED <<op[q], id[q]>>, q \in failed,
               answer'[q] = answer[q] \/ answer'[q] # None, open'[q] = open[q] \/ ~open'[q]
        PROVE  answer'[q] # None \/ ~open'[q]
    BY <1>1 DEF FailureIsTold, Numbered
  <1>2. ASSUME NEW r \in Request,
               NEW what \in {"invalidFormat", "noSession", "internalUnknown", "starkService", "ok"},
               NEW shows \in Text \cup {None}, NEW closes \in BOOLEAN, Reply(r, what, shows, closes),
               UNCHANGED requestVars, failed' \in {failed, failed \cup {r}}
        PROVE  answer'[q] # None \/ ~open'[q]
    <2>1. /\ \A p \in Request : p # r => pc'[p] = pc[p] /\ answer'[p] = answer[p] /\ open'[p] = open[p]
          /\ Numbered(r) => answer'[r] # None \/ ~open'[r]
      <3>1. Reply(r, what, shows, closes) /\ Typed
        BY <1>2
      <3>2. \A p \in Request : p # r => pc'[p] = pc[p] /\ answer'[p] = answer[p] /\ open'[p] = open[p]
        BY <3>1 DEF Reply, Goto, Typed, TypeOK
      <3>3. Numbered(r) => answer'[r] # None \/ ~open'[r]
        BY <3>1, ReplyTells
      <3> QED BY <3>2, <3>3
    <2>2. Numbered(q)
      BY <1>2 DEF Numbered, requestVars
    <2>3. CASE q = r
      BY <2>1, <2>2, <2>3
    <2>4. CASE q # r
      BY <1>1, <1>2, <2>1, <2>4 DEF requestVars
    <2> QED BY <2>3, <2>4
  <1>3. None \in Text \cup {None}
    OBVIOUS
  <1>4. ASSUME NEW r \in Request, Undecodable(r) \/ NoSession(r) \/ Crash(r)
        PROVE  answer'[q] # None \/ ~open'[q]
    BY <1>2, <1>3, <1>4 DEF Undecodable, NoSession, Crash, Fails
  <1>5. ASSUME NEW r \in Request, Succeed(r) PROVE answer'[q] # None \/ ~open'[q]
    <2>1. CASE op[r] # "createMessage"
      BY <1>2, <1>3, <1>5, <2>1 DEF Succeed
    <2>2. CASE op[r] = "createMessage"
      <3>1. /\ pc[r] = "handle" /\ failed' = failed /\ UNCHANGED requestVars
            /\ answer' = answer /\ open' = open
            /\ \A p \in Request : p # r => pc'[p] = pc[p]
        BY <1>5, <2>2 DEF Succeed, Handled, Goto, Typed, TypeOK
      <3>2. q # r
        BY <3>1 DEF Typed, InOrder
      <3> QED BY <1>1, <3>1, <3>2 DEF requestVars
    <2> QED BY <2>1, <2>2
  <1>6. ASSUME NEW r \in Request, Tell(r) PROVE answer'[q] # None \/ ~open'[q]
    <2>1. UNCHANGED requestVars /\ failed' = failed
      BY <1>6 DEF Tell
    <2>2. CASE session[r] \/ op[r] = "login"
      <3>1. fault[r] \in Kind /\ text[fault[r]] \in Text
        BY <1>6, Thrown DEF Tell, Typed, TypeOK, Refused, Kind
      <3> QED BY <1>2, <1>6, <2>1, <2>2, <3>1 DEF Tell
    <2>3. CASE ~session[r] /\ op[r] # "login"
      <3>1. /\ answer' = answer /\ open' = [open EXCEPT ![r] = @ /\ ~Numbered(r)]
            /\ Goto(r, "done")
        BY <1>6, <2>3 DEF Tell
      <3>2. Numbered(q)
        BY <2>1 DEF Numbered, requestVars
      <3>3. CASE q = r
        BY <3>1, <3>2, <3>3 DEF Typed, TypeOK
      <3>4. CASE q # r
        <4>1. pc[q] = "done" /\ open'[q] = open[q]
          BY <3>1, <3>4 DEF Goto, Typed, TypeOK
        <4> QED BY <1>1, <2>1, <3>1, <4>1 DEF requestVars
      <3> QED BY <3>3, <3>4
    <2> QED BY <2>2, <2>3
  <1>7. ASSUME NEW r \in Request, HangUp(r) PROVE answer'[q] # None \/ ~open'[q]
    <2>1. UNCHANGED <<op, id, pc, answer, failed>> /\ open' = [open EXCEPT ![r] = FALSE]
      BY <1>7 DEF HangUp, requestVars
    <2>2. open'[q] = open[q] \/ ~open'[q]
      BY <2>1 DEF Typed, TypeOK
    <2> QED BY <1>1, <2>1, <2>2
  <1>8. ASSUME NEW r \in Request, NEW step \in {"handle", "replace", "fill", "tell"}, Goto(r, step),
               UNCHANGED <<answer, open>>, failed' \in {failed, failed \cup {r}},
               \A p \in Request : p # r => op'[p] = op[p] /\ id'[p] = id[p]
        PROVE  answer'[q] # None \/ ~open'[q]
    <2>1. q # r /\ pc[q] = "done"
      BY <1>8 DEF Goto, Typed, TypeOK
    <2> QED BY <1>1, <1>8, <2>1
  <1>9. ASSUME NEW r \in Request, NEW o \in Op, NEW n \in Word \cup {None}, NEW found \in BOOLEAN,
               Arrive(r, o, n, found)
        PROVE  answer'[q] # None \/ ~open'[q]
    <2>1. \A p \in Request : p # r => op'[p] = op[p] /\ id'[p] = id[p]
      BY <1>9 DEF Arrive, Typed, TypeOK
    <2> QED BY <1>8, <1>9, <2>1 DEF Arrive
  <1>10. ASSUME NEW r \in Request, NEW k \in Kind, Refuse(r, k) PROVE answer'[q] # None \/ ~open'[q]
    BY <1>8, <1>10 DEF Refuse, Fails, requestVars
  <1>11. ASSUME NEW r \in Request, ReadText(r) \/ FillText(r) PROVE answer'[q] # None \/ ~open'[q]
    BY <1>8, <1>11 DEF ReadText, FillText, requestVars
  <1>12. CASE UNCHANGED vars
    BY <1>1, <1>12 DEF vars, requestVars
  <1> QED BY <1>4, <1>5, <1>6, <1>7, <1>9, <1>10, <1>11, <1>12 DEF Next, Client, Handler

\* Whatever fails, and in whatever order requests run, a failure whose frame has an id
\* is answered or its connection is lost.
THEOREM FailuresAreTold == Spec => []FailureIsTold
  <1>1. Init => FailureIsTold
    BY DEF Init, FailureIsTold
  <1>2. Typed /\ FailureIsTold /\ [Next]_vars => FailureIsTold'
    BY ToldStep
  <1> QED BY <1>1, <1>2, TypedInvariance, PTL DEF Spec
--------------------------------------------------------------------------------
(* The texts of the faults *)

\* A step that leaves the texts, and those that fill and show them, as they are.
LEMMA TextsKept ==
  ASSUME Typed, Texts, UNCHANGED text, failed \subseteq failed',
         \A q \in failed : fault'[q] = fault[q],
         \A q \in Request : pc'[q] \in {"fill", "tell"} =>
           pc'[q] = pc[q] /\ fault'[q] = fault[q] /\ seen'[q] = seen[q] /\ op'[q] = op[q]
  PROVE  Texts'
  <1>1. ASSUME NEW k, NEW name, NameFor(k, name) PROVE NameFor(k, name)'
    BY <1>1 DEF NameFor
  <1>2. ASSUME NEW k \in Kind, text'[k] # "template"
        PROVE  NameFor(k, text[k])' /\ k \in {"USER_002", "DEVICE_002", "COMMON_003"}
    BY <1>1, <1>2 DEF Texts
  <1> QED BY <1>1, <1>2 DEF Texts, NameFor

\* Every step keeps the texts filled.
LEMMA TextsStep ==
  ASSUME Typed, Texts, [Next]_vars
  PROVE  Texts'
  <1>1. CASE UNCHANGED vars
    BY <1>1, TextsKept DEF vars, requestVars
  <1>2. ASSUME NEW r \in Request, HangUp(r) PROVE Texts'
    BY <1>2, TextsKept DEF HangUp, requestVars
  <1>3. ASSUME NEW r \in Request, NEW o \in Op, NEW n \in Word \cup {None}, NEW found \in BOOLEAN,
               Arrive(r, o, n, found)
        PROVE  Texts'
    <2>1. \A q \in Request : pc'[q] \in {"fill", "tell"} => pc'[q] = pc[q] /\ op'[q] = op[q]
      BY <1>3 DEF Arrive, Goto, Typed, TypeOK
    <2> QED BY <1>3, <2>1, TextsKept DEF Arrive
  <1>4. ASSUME NEW r \in Request,
               Undecodable(r) \/ NoSession(r) \/ Succeed(r) \/ Crash(r) \/ Tell(r)
        PROVE  Texts'
    <2>1. \A q \in Request : pc'[q] \in {"fill", "tell"} => pc'[q] = pc[q]
      BY <1>4 DEF Undecodable, NoSession, Succeed, Crash, Tell, Reply, Goto, Typed, TypeOK
    <2>2. UNCHANGED <<op, fault, seen, text>> /\ failed \subseteq failed'
      BY <1>4 DEF Undecodable, NoSession, Succeed, Crash, Tell, Fails, requestVars
    <2> QED BY <2>1, <2>2, TextsKept
  <1>5. ASSUME NEW r \in Request, NEW k \in Kind, Refuse(r, k) PROVE Texts'
    <2>1. /\ r \notin failed /\ failed' = failed \cup {r} /\ fault' = [fault EXCEPT ![r] = k]
          /\ UNCHANGED <<op, seen, text>>
          /\ (k \in Filled(op[r]) /\ Goto(r, "replace")) \/ (k \in AsItIs(op[r]) /\ Goto(r, "tell"))
      BY <1>5 DEF Refuse, Handled, Fails, requestVars, Typed, InOrder
    <2>2. fault'[r] = k /\ \A q \in Request : q # r => fault'[q] = fault[q] /\ pc'[q] = pc[q]
      BY <2>1 DEF Goto, Typed, TypeOK
    <2>3. ASSUME NEW c, NEW name \in Text, NameFor(c, name) PROVE NameFor(c, name)'
      <3>1. name \in Request /\ name # r
        BY <2>1, <2>3 DEF NameFor, Typed, TypeOK
      <3> QED BY <2>1, <2>2, <2>3, <3>1 DEF NameFor
    <2>4. \A c \in Kind : text'[c] # "template" => NameFor(c, text[c])' /\ c \in {"USER_002", "DEVICE_002", "COMMON_003"}
      BY <2>1, <2>3 DEF Texts, Typed, TypeOK
    <2>5. ASSUME NEW q \in Request, pc'[q] = "fill" PROVE seen[q] = "template" \/ NameFor(fault[q], seen[q])'
      <3>1. pc[q] = "fill" /\ q # r
        BY <2>1, <2>2, <2>5 DEF Goto, Typed, TypeOK
      <3>2. seen[q] \in Text
        BY <3>1 DEF Typed, Refused
      <3>3. CASE NameFor(fault[q], seen[q])
        <4>1. seen[q] \in failed' /\ fault'[seen[q]] = fault[q]
          BY <2>3, <3>2, <3>3 DEF NameFor
        <4> QED BY <2>1, <2>2, <3>1, <4>1 DEF NameFor
      <3> QED BY <3>1, <3>3 DEF Texts
    <2>6. ASSUME NEW q \in Request, pc'[q] = "tell", fault'[q] \in Filled(op[q])
          PROVE  text[fault'[q]] # "template"
      <3>1. CASE q # r
        BY <2>2, <2>6, <3>1 DEF Texts
      <3>2. CASE q = r
        <4>1. k \in AsItIs(op[r]) /\ k \in Filled(op[r])
          BY <2>1, <2>2, <2>6, <3>2 DEF Goto, Typed, TypeOK
        <4> QED BY <4>1, Thrown
      <3> QED BY <3>1, <3>2
    <2> QED BY <2>1, <2>2, <2>4, <2>5, <2>6 DEF Texts, NameFor
  <1>6. ASSUME NEW r \in Request, ReadText(r) PROVE Texts'
    <2>1. /\ pc[r] = "replace" /\ seen' = [seen EXCEPT ![r] = text[fault[r]]] /\ pc'[r] = "fill"
          /\ UNCHANGED <<op, fault, text, failed>>
          /\ \A q \in Request : q # r => pc'[q] = pc[q]
      BY <1>6 DEF ReadText, Goto, requestVars, Typed, TypeOK
    <2>2. seen'[r] = text[fault[r]] /\ fault[r] \in Kind
          /\ \A q \in Request : q # r => seen'[q] = seen[q]
      BY <2>1, Thrown DEF Typed, TypeOK, Refused, Kind
    <2> QED BY <2>1, <2>2 DEF Texts, NameFor
  <1>7. ASSUME NEW r \in Request, FillText(r) PROVE Texts'
    <2> DEFINE name == IF seen[r] = "template" THEN r ELSE seen[r]
    <2>1. /\ pc[r] = "fill" /\ pc'[r] = "tell" /\ text' = [text EXCEPT ![fault[r]] = name]
          /\ UNCHANGED <<op, fault, failed>>
          /\ \A q \in Request : q # r => pc'[q] = pc[q] /\ seen'[q] = seen[q]
      BY <1>7 DEF FillText, Goto, requestVars, Typed, TypeOK
    <2>2. /\ r \in failed /\ fault[r] \in Kind /\ fault[r] \in {"USER_002", "DEVICE_002", "COMMON_003"}
      BY <2>1, Thrown DEF Typed, Refused, Kind
    <2>3. NameFor(fault[r], name) /\ name # "template"
      BY <2>1, <2>2, RequestAssumption DEF Texts, NameFor
    <2>4. text'[fault[r]] = name /\ \A k \in Kind : k # fault[r] => text'[k] = text[k]
      BY <2>1, <2>2 DEF Typed, TypeOK
    <2>5. \A k \in Kind : text'[k] # "template" => NameFor(k, text'[k]) /\ k \in {"USER_002", "DEVICE_002", "COMMON_003"}
      BY <2>2, <2>3, <2>4 DEF Texts
    <2>6. ASSUME NEW q \in Request, pc'[q] = "tell", fault[q] \in Filled(op[q])
          PROVE  text'[fault[q]] # "template"
      <3>1. CASE fault[q] = fault[r]
        BY <2>3, <2>4, <3>1
      <3>2. CASE fault[q] # fault[r]
        <4>1. q # r /\ pc[q] = "tell" /\ fault[q] \in Kind
          BY <2>1, <2>6, <3>2, Thrown DEF Kind
        <4> QED BY <2>4, <2>6, <3>2, <4>1 DEF Texts
      <3> QED BY <3>1, <3>2
    <2>7. \A q \in Request : pc'[q] = "fill" => q # r /\ pc[q] = "fill" /\ seen'[q] = seen[q]
      BY <2>1
    <2> QED BY <2>1, <2>5, <2>6, <2>7 DEF Texts, NameFor
  <1> QED BY <1>1, <1>2, <1>3, <1>4, <1>5, <1>6, <1>7 DEF Next, Client, Handler

\* What a request was, and what it was refused with, stays.
LEMMA Settled ==
  ASSUME Typed, [Next]_vars
  PROVE  /\ failed \subseteq failed'
         /\ \A q \in Request : q \in failed \/ pc[q] = "done" =>
              op'[q] = op[q] /\ fault'[q] = fault[q]
  <1>1. ASSUME NEW r \in Request, NEW o \in Op, NEW n \in Word \cup {None}, NEW found \in BOOLEAN,
               Arrive(r, o, n, found)
        PROVE  /\ UNCHANGED <<failed, fault>> /\ r \notin failed /\ pc[r] = "idle"
               /\ \A q \in Request : q # r => op'[q] = op[q]
    BY <1>1 DEF Arrive, Typed, TypeOK, InOrder
  <1>2. ASSUME NEW r \in Request, NEW k \in Kind, Refuse(r, k)
        PROVE  /\ UNCHANGED op /\ failed \subseteq failed' /\ r \notin failed /\ pc[r] = "handle"
               /\ \A q \in Request : q # r => fault'[q] = fault[q]
    BY <1>2 DEF Refuse, Handled, Fails, requestVars, Typed, TypeOK, InOrder
  <1>3. ASSUME NEW r \in Request,
               \/ HangUp(r) \/ Undecodable(r) \/ NoSession(r) \/ Succeed(r) \/ Crash(r)
               \/ ReadText(r) \/ FillText(r) \/ Tell(r)
        PROVE  UNCHANGED <<op, fault>> /\ failed \subseteq failed'
    BY <1>3 DEF HangUp, Undecodable, NoSession, Succeed, Crash, ReadText, FillText, Tell, Fails,
       requestVars
  <1>4. CASE UNCHANGED vars
    BY <1>4 DEF vars, requestVars
  <1> QED BY <1>1, <1>2, <1>3, <1>4 DEF Next, Client, Handler

\* Only Tell shows a text.
LEMMA ShownByTell ==
  ASSUME Typed, [Next]_vars, NEW q \in Request, answer'[q] # answer[q],
         answer'[q].what = "starkService"
  PROVE  Tell(q)
  <1>1. ASSUME NEW r \in Request, NEW what \in {"invalidFormat", "noSession", "internalUnknown", "ok"},
               NEW closes \in BOOLEAN, Reply(r, what, None, closes)
        PROVE  FALSE
    <2>1. /\ \A p \in Request : p # r => answer'[p] = answer[p]
          /\ answer'[r] = answer[r] \/
               answer'[r] = [what |-> what, shows |-> None,
                             id |-> IF id[r] = None THEN None ELSE ResponseId(id[r])]
      <3>1. Reply(r, what, None, closes)
        BY <1>1
      <3>2. what \in {"invalidFormat", "noSession", "internalUnknown", "starkService", "ok"}
            /\ None \in Text \cup {None}
        OBVIOUS
      <3> QED BY <3>1, <3>2, ReplyTyped
    <2> QED BY <2>1
  <1>2. ASSUME NEW r \in Request, Tell(r), q # r PROVE FALSE
    BY <1>2 DEF Tell, Reply, Typed, TypeOK
  <1>3. ASSUME NEW r \in Request, Undecodable(r) \/ NoSession(r) \/ Crash(r) PROVE FALSE
    BY <1>1, <1>3 DEF Undecodable, NoSession, Crash
  <1>4. ASSUME NEW r \in Request, Succeed(r) PROVE FALSE
    BY <1>1, <1>4 DEF Succeed
  <1>5. answer' # answer
    OBVIOUS
  <1> QED BY <1>2, <1>3, <1>4, <1>5 DEF Next, Client, Handler, HangUp, Arrive, Refuse, ReadText,
     FillText, vars

\* What is shown was in the text of the fault when Tell read it.
LEMMA ShownStep ==
  ASSUME Typed, Texts, ShownNamesWereRefused, [Next]_vars
  PROVE  ShownNamesWereRefused'
  <1> SUFFICES ASSUME NEW q \in Request, answer'[q] # None, answer'[q].what = "starkService"
               PROVE  IF fault'[q] \in Filled(op'[q])
                      THEN answer'[q].shows \in failed' /\ fault'[answer'[q].shows] = fault'[q]
                      ELSE answer'[q].shows = "template"
    BY DEF ShownNamesWereRefused
  <1>1. CASE answer'[q] = answer[q]
    <2>1. pc[q] = "done" /\ op'[q] = op[q] /\ fault'[q] = fault[q]
      BY <1>1, Settled DEF Typed, InOrder
    <2>2. failed \subseteq Request
      BY DEF Typed, TypeOK
    <2> QED BY <1>1, <2>1, <2>2, Settled DEF ShownNamesWereRefused
  <1>2. CASE answer'[q] # answer[q]
    <2>1. Tell(q)
      BY <1>2, ShownByTell
    <2>2. /\ pc[q] = "tell" /\ op' = op /\ fault' = fault /\ failed' = failed
          /\ answer'[q].shows = text[fault[q]]
      BY <1>2, <2>1 DEF Tell, Reply, requestVars, Typed, TypeOK
    <2>3. fault[q] \in Filled(op[q]) \cup AsItIs(op[q]) /\ fault[q] \in Kind
      BY <2>2, Thrown DEF Typed, Refused, Kind
    <2>4. CASE fault[q] \in Filled(op[q])
      BY <2>2, <2>3, <2>4 DEF Texts, NameFor
    <2>5. CASE fault[q] \notin Filled(op[q])
      <3>1. fault[q] \notin {"USER_002", "DEVICE_002", "COMMON_003"}
        BY <2>3, <2>5, Thrown
      <3> QED BY <2>2, <2>3, <2>5, <3>1 DEF Texts
    <2> QED BY <2>4, <2>5
  <1> QED BY <1>1, <1>2

\* No placeholder is shown that a request filled, and no name but that of a request that
\* was refused with the same fault, however many fill a text at once.
THEOREM NamesHold == Spec => []ShownNamesWereRefused
  <1>1. Init => Texts /\ ShownNamesWereRefused
    BY DEF Init, Texts, ShownNamesWereRefused
  <1>2. Typed /\ Texts /\ [Next]_vars => Texts'
    BY TextsStep
  <1>3. Typed /\ Texts /\ ShownNamesWereRefused /\ [Next]_vars => ShownNamesWereRefused'
    BY ShownStep
  <1> QED BY <1>1, <1>2, <1>3, TypedInvariance, PTL DEF Spec
================================================================================
