-------------------------- MODULE MessageFlowProofs --------------------------
(***************************************************************************)
(* Theorems about MessageFlow, for any devices, channels, messages, event  *)
(* loops, repetitions and failures.                                        *)
(*                                                                         *)
(* Statuses are written by two handlers that know nothing of each other.   *)
(* That create never writes SENT over READ needs an account of where each  *)
(* status came from: a message has one creator (Creators), which writes    *)
(* the status of a device that is listed once only once (Unsent,           *)
(* Reaching), and no receipt goes ahead without a status (Answered).       *)
(***************************************************************************)
EXTENDS MessageFlowHistory, FiniteSetTheorems, TLAPS

AtMostOnce(x, s) == \A i, j \in 1 .. Len(s) : s[i] = x /\ s[j] = x => i = j

\* A message is created by one handler.
Creators ==
  \A d \in Device : pc[d] \in Creating =>
    /\ msg[d] \in Message
    /\ result[msg[d]] = "running"
    /\ \A e \in Device : pc[e] \in Creating /\ msg[e] = msg[d] => e = d

\* No status exists before the creator records them.
Unsent ==
  /\ \A m \in Message : result[m] = "none" => \A x \in Device : status[m][x] = "none"
  /\ \A d \in Device : pc[d] \in {"index", "broadcast"} =>
       \A x \in Device : status[msg[d]][x] = "none"

\* A message with a status has a count.
Stored ==
  /\ \A m \in Message, x \in Device : status[m][x] # "none" => unread[m] # None
  /\ \A d \in Device : pc[d] \in {"broadcast", "record"} => unread[msg[d]] # None

\* A device that is listed once is on one of the creator's lists at most, once, and has
\* no status while it is still to be recorded.
Reaching ==
  \A d \in Device :
    /\ pc[d] \notin {"broadcast", "record"} => reached[d] = <<>>
    /\ \A x \in ListedOnce :
         /\ AtMostOnce(x, reached[d])
         /\ AtMostOnce(x, rest[d])
         /\ \A i \in 1 .. Len(reached[d]), j \in 1 .. Len(rest[d]) :
              ~(reached[d][i] = x /\ rest[d][j] = x)
         /\ pc[d] = "record" =>
              \A i \in 1 .. Len(reached[d]) : reached[d][i] = x => status[msg[d]][x] = "none"

\* A receipt that is being handled has found its status, and then a count.
Answered ==
  \A d \in Device : pc[d] \in Receiving =>
    /\ msg[d] \in Message
    /\ status[msg[d]][d] # "none"
    /\ pc[d] = "setUnread" => seen[d] \in Int

FlowInv == TypeOK /\ Creators /\ Unsent /\ Stored /\ Reaching /\ Answered
--------------------------------------------------------------------------------

\* A handler that returns or throws leaves the invariant, whatever it was doing.
LEMMA HandlerEnds ==
  ASSUME FlowInv, NEW d \in Device, Return(d), UNCHANGED <<unread, delivered, acks>>,
         status' \in [Message -> [Device -> {"none", "SENT", "READ"}]],
         \A n \in Message : \A y \in Device : status'[n][y] = "none" <=> status[n][y] = "none",
         \/ pc[d] \notin Creating /\ UNCHANGED result
         \/ /\ pc[d] \in Creating
            /\ \E how \in {"ok", "failed"} : result' = [result EXCEPT ![msg[d]] = how]
  PROVE  FlowInv'
  <1>1. /\ pc' = [pc EXCEPT ![d] = "idle"]
        /\ msg' = [msg EXCEPT ![d] = None]
        /\ seen' = [seen EXCEPT ![d] = None]
        /\ rest' = [rest EXCEPT ![d] = <<>>]
        /\ reached' = [reached EXCEPT ![d] = <<>>]
    BY DEF Return, Goto
  <1>2. ASSUME NEW e \in Device, e # d
        PROVE  /\ pc'[e] = pc[e] /\ msg'[e] = msg[e] /\ seen'[e] = seen[e]
               /\ rest'[e] = rest[e] /\ reached'[e] = reached[e]
    BY <1>1, <1>2 DEF FlowInv, TypeOK
  <1>3. pc'[d] = "idle" /\ reached'[d] = <<>> /\ rest'[d] = <<>>
    BY <1>1 DEF FlowInv, TypeOK
  <1>4. result' \in [Message -> {"none", "running", "ok", "failed"}]
    BY DEF FlowInv, TypeOK
  <1>5. \A n \in Message : result'[n] = "none" => result[n] = "none"
    BY DEF FlowInv, TypeOK
  <1>6. TypeOK'
    <2>1. rest' \in [Device -> Seq(Device)] /\ reached' \in [Device -> Seq(Device)]
      BY <1>1 DEF FlowInv, TypeOK
    <2> QED BY <1>1, <1>4, <2>1 DEF FlowInv, TypeOK
  <1>7. Creators'
    <2>1. ASSUME NEW e \in Device, e # d, pc[e] \in Creating PROVE result'[msg[e]] = "running"
      <3>1. msg[e] \in Message /\ result[msg[e]] = "running"
        BY <2>1 DEF FlowInv, Creators
      <3>2. pc[d] \in Creating => msg[e] # msg[d] /\ msg[d] \in Message
        BY <2>1 DEF FlowInv, Creators
      <3> QED BY <3>1, <3>2 DEF FlowInv, TypeOK
    <2> QED BY <1>2, <1>3, <2>1 DEF FlowInv, Creators, Creating
  <1>8. (Unsent /\ Stored /\ Answered)'
    <2>1. \A e \in Device : pc[e] \in Creating => msg[e] \in Message
      BY DEF FlowInv, Creators
    <2>2. Unsent'
      BY <1>2, <1>3, <1>5, <2>1 DEF FlowInv, Unsent, Creating
    <2>3. Stored'
      BY <1>2, <1>3 DEF FlowInv, Stored
    <2>4. Answered'
      BY <1>2, <1>3 DEF FlowInv, Answered, Receiving
    <2> QED BY <2>2, <2>3, <2>4
  <1>9. Reaching'
    <2>1. Len(reached'[d]) = 0 /\ Len(rest'[d]) = 0
      BY <1>3
    <2>2. ASSUME NEW e \in Device, e # d, pc'[e] = "record", NEW x \in ListedOnce
          PROVE \A i \in 1 .. Len(reached'[e]) : reached'[e][i] = x => status'[msg'[e]][x] = "none"
      <3>1. msg[e] \in Message /\ x \in Device
        BY <1>2, <2>2 DEF FlowInv, Creators, Creating, ListedOnce
      <3> QED BY <1>2, <2>2, <3>1 DEF FlowInv, Reaching
    <2>3. ASSUME NEW e \in Device, e # d, NEW x \in ListedOnce
          PROVE  /\ AtMostOnce(x, reached'[e]) /\ AtMostOnce(x, rest'[e])
                 /\ \A i \in 1 .. Len(reached'[e]), j \in 1 .. Len(rest'[e]) :
                      ~(reached'[e][i] = x /\ rest'[e][j] = x)
      BY <1>2, <2>3 DEF FlowInv, Reaching
    <2>4. \A e \in Device : pc'[e] \notin {"broadcast", "record"} => reached'[e] = <<>>
      BY <1>2, <1>3 DEF FlowInv, Reaching
    <2>5. ASSUME NEW x \in ListedOnce
          PROVE  /\ AtMostOnce(x, reached'[d]) /\ AtMostOnce(x, rest'[d])
                 /\ \A i \in 1 .. Len(reached'[d]), j \in 1 .. Len(rest'[d]) :
                      ~(reached'[d][i] = x /\ rest'[d][j] = x)
      BY <2>1 DEF AtMostOnce
    <2> QED BY <1>3, <2>2, <2>3, <2>4, <2>5 DEF Reaching, ListedOnce
  <1> QED BY <1>6, <1>7, <1>8, <1>9 DEF FlowInv

\* So does one that takes the next step of a receipt, if it makes or unmakes no
\* status and no count.
LEMMA ReceiptGoesOn ==
  ASSUME FlowInv, TypeOK', NEW d \in Device, pc[d] \in Receiving,
         NEW step \in Receiving, pc' = [pc EXCEPT ![d] = step],
         step = "setUnread" => seen'[d] \in Int,
         \A e \in Device : e # d => seen'[e] = seen[e],
         UNCHANGED <<msg, rest, reached, result>>,
         \A n \in Message : \A y \in Device : status'[n][y] = "none" <=> status[n][y] = "none",
         \A n \in Message : unread[n] # None => unread'[n] # None
  PROVE  FlowInv'
  <1>1. \A e \in Device : e # d => pc'[e] = pc[e]
    BY DEF FlowInv, TypeOK
  <1>2. pc'[d] = step /\ step \in {"setRead", "getMessage", "setUnread", "notify"}
    BY DEF FlowInv, TypeOK, Receiving
  <1>3. pc[d] \in {"setRead", "getMessage", "setUnread", "notify"}
    BY DEF Receiving
  <1>4. Creators'
    BY <1>1, <1>2 DEF FlowInv, Creators, Creating
  <1>5. Unsent'
    BY <1>1, <1>2 DEF FlowInv, Unsent, Creators, Creating
  <1>6. Stored'
    BY <1>1, <1>2 DEF FlowInv, Stored, Creators, Creating
  <1>7. Reaching'
    <2>1. ListedOnce \subseteq Device
      BY DEF ListedOnce
    <2>2. \A e \in Device : pc'[e] \in {"broadcast", "record"} <=> pc[e] \in {"broadcast", "record"}
      BY <1>1, <1>2, <1>3
    <2>3. \A e \in Device : pc'[e] = "record" => pc[e] = "record" /\ msg[e] \in Message
      BY <1>1, <1>2 DEF FlowInv, Creators, Creating
    <2> QED BY <2>1, <2>2, <2>3 DEF FlowInv, Reaching
  <1>8. Answered'
    BY <1>1, <1>2 DEF FlowInv, Answered
  <1> QED BY <1>4, <1>5, <1>6, <1>7, <1>8 DEF FlowInv

\* The creator writes over a status only of a device that is listed twice.
LEMMA Recording ==
  ASSUME FlowInv, NEW d \in Device, Record(d)
  PROVE  /\ pc[d] = "record" /\ msg[d] \in Message /\ result[msg[d]] = "running"
         /\ reached[d] \in Seq(Device) /\ reached[d] # <<>>
         /\ Len(reached[d]) \in Nat \ {0} /\ Head(reached[d]) = reached[d][1]
         /\ Head(reached[d]) \in Device
         /\ Head(reached[d]) \in ListedOnce => status[msg[d]][Head(reached[d])] = "none"
         /\ status' = [status EXCEPT ![msg[d]][Head(reached[d])] = "SENT"]
         /\ UNCHANGED <<unread, delivered, acks>>
  <1>1. pc[d] = "record" /\ reached[d] # <<>>
    BY DEF Record
  <1>2. /\ reached[d] \in Seq(Device) /\ Len(reached[d]) \in Nat \ {0}
        /\ Head(reached[d]) = reached[d][1] /\ Head(reached[d]) \in Device
    BY <1>1 DEF FlowInv, TypeOK
  <1>3. msg[d] \in Message /\ result[msg[d]] = "running"
    BY <1>1 DEF FlowInv, Creators, Creating
  <1>4. Head(reached[d]) \in ListedOnce => status[msg[d]][Head(reached[d])] = "none"
    BY <1>1, <1>2 DEF FlowInv, Reaching
  <1>5. /\ status' = [status EXCEPT ![msg[d]][Head(reached[d])] = "SENT"]
        /\ UNCHANGED <<unread, delivered, acks>>
    BY DEF Record
  <1> QED BY <1>1, <1>2, <1>3, <1>4, <1>5

\* Every step keeps the invariant.
LEMMA FlowStep == FlowInv /\ [Next]_vars => FlowInv'
  <1> SUFFICES ASSUME FlowInv, [Next]_vars PROVE FlowInv'
    OBVIOUS
  <1>1. ASSUME NEW d \in Device, NEW m \in Message, CreateMessage(d, m) PROVE FlowInv'
    <2>1. /\ pc[d] = "idle" /\ result[m] = "none"
          /\ result' = [result EXCEPT ![m] = "running"]
          /\ msg' = [msg EXCEPT ![d] = m]
          /\ pc' = [pc EXCEPT ![d] = "index"]
          /\ UNCHANGED <<unread, status, seen, rest, reached, delivered, acks>>
      BY <1>1 DEF CreateMessage, LoopFree, Goto, Ends, storeVars
    <2>2. TypeOK'
      BY <2>1 DEF FlowInv, TypeOK, Creating
    <2>3. Creators'
      BY <2>1 DEF FlowInv, TypeOK, Creators, Creating
    <2>4. Unsent'
      BY <2>1 DEF FlowInv, TypeOK, Unsent, Creators, Creating
    <2>5. Stored'
      BY <2>1 DEF FlowInv, TypeOK, Stored
    <2>6. Reaching'
      <3>1. \A e \in Device : pc'[e] \in {"broadcast", "record"} <=> pc[e] \in {"broadcast", "record"}
        BY <2>1 DEF FlowInv, TypeOK
      <3>2. \A e \in Device : pc'[e] = "record" => pc[e] = "record" /\ msg'[e] = msg[e]
        BY <2>1 DEF FlowInv, TypeOK
      <3> QED
        BY <2>1, <3>1, <3>2 DEF FlowInv, Reaching
    <2>7. Answered'
      BY <2>1 DEF FlowInv, TypeOK, Answered, Receiving
    <2> QED BY <2>2, <2>3, <2>4, <2>5, <2>6, <2>7 DEF FlowInv
  <1>2. ASSUME NEW d \in Device, IndexMessage(d) PROVE FlowInv'
    <2>1. /\ pc[d] = "index" /\ msg[d] \in Message
          /\ unread' = [unread EXCEPT ![msg[d]] = Len(Members)]
          /\ rest' = [rest EXCEPT ![d] = Members]
          /\ pc' = [pc EXCEPT ![d] = "broadcast"]
          /\ UNCHANGED <<status, msg, seen, reached, delivered, acks, result>>
      BY <1>2 DEF IndexMessage, Goto, worldVars, FlowInv, Creators, Creating
    <2>2. Len(Members) \in Int /\ Len(Members) # None
      BY MembersAssumption, NoneAssumption
    <2>3. TypeOK'
      BY <2>1, <2>2, MembersAssumption DEF FlowInv, TypeOK, Creating
    <2>4. Creators'
      BY <2>1 DEF FlowInv, TypeOK, Creators, Creating
    <2>5. Unsent'
      BY <2>1 DEF FlowInv, TypeOK, Unsent, Creating, Creators
    <2>6. Stored'
      BY <2>1, <2>2 DEF FlowInv, TypeOK, Stored, Creating
    <2>7. Reaching'
      <3>1. reached[d] = <<>> /\ Len(reached[d]) = 0
        BY <2>1 DEF FlowInv, Reaching
      <3>2. rest'[d] = Members /\ \A x \in ListedOnce : AtMostOnce(x, rest'[d])
        BY <2>1 DEF FlowInv, TypeOK, ListedOnce, AtMostOnce
      <3>3. ASSUME NEW e \in Device, e # d
            PROVE  rest'[e] = rest[e] /\ reached'[e] = reached[e] /\ pc'[e] = pc[e]
        BY <2>1, <3>3 DEF FlowInv, TypeOK
      <3>4. reached'[d] = reached[d] /\ pc'[d] = "broadcast" /\ status' = status /\ msg' = msg
        BY <2>1 DEF FlowInv, TypeOK
      <3> QED
        BY <3>1, <3>2, <3>3, <3>4 DEF FlowInv, Reaching, AtMostOnce
    <2>8. Answered'
      BY <2>1 DEF FlowInv, TypeOK, Answered, Receiving
    <2> QED BY <2>3, <2>4, <2>5, <2>6, <2>7, <2>8 DEF FlowInv
  <1>3. ASSUME NEW d \in Device, Broadcast(d) PROVE FlowInv'
    <2>1. /\ pc[d] = "broadcast" /\ rest[d] # <<>>
          /\ rest' = [rest EXCEPT ![d] = Tail(rest[d])]
          /\ \/ reached' = reached
             \/ reached' = [reached EXCEPT ![d] = Append(reached[d], Head(rest[d]))]
          /\ delivered' \in {delivered, [delivered EXCEPT ![msg[d]] = @ \cup {Head(rest[d])}]}
          /\ UNCHANGED <<unread, status, pc, msg, seen, acks, result>>
      BY <1>3 DEF Broadcast, storeVars
    <2>2. rest[d] \in Seq(Device) /\ reached[d] \in Seq(Device) /\ Head(rest[d]) \in Device
      BY <2>1 DEF FlowInv, TypeOK
    <2>3. Tail(rest[d]) \in Seq(Device) /\ Append(reached[d], Head(rest[d])) \in Seq(Device)
      BY <2>1, <2>2
    <2>4. TypeOK'
      <3>1. rest' \in [Device -> Seq(Device)]
        BY <2>1, <2>3 DEF FlowInv, TypeOK
      <3>2. reached' \in [Device -> Seq(Device)]
        BY <2>1, <2>3 DEF FlowInv, TypeOK
      <3>3. delivered' \in [Message -> SUBSET Device]
        <4>1. msg[d] \in Message /\ delivered \in [Message -> SUBSET Device]
          BY <2>1 DEF FlowInv, Creators, Creating, TypeOK
        <4>2. delivered[msg[d]] \cup {Head(rest[d])} \in SUBSET Device
          BY <2>2, <4>1
        <4> QED BY <2>1, <4>1, <4>2
      <3> QED BY <2>1, <3>1, <3>2, <3>3 DEF FlowInv, TypeOK
    <2>5. (Creators /\ Unsent /\ Stored /\ Answered)'
      BY <2>1 DEF FlowInv, Creators, Unsent, Stored, Answered
    <2>6. Reaching'
      <3>1. ASSUME NEW e \in Device, e # d PROVE rest'[e] = rest[e] /\ reached'[e] = reached[e]
        BY <2>1, <3>1 DEF FlowInv, TypeOK
      <3>2. rest'[d] = Tail(rest[d]) /\ reached'[d] \in {reached[d], Append(reached[d], Head(rest[d]))}
        BY <2>1 DEF FlowInv, TypeOK
      <3>3. ASSUME NEW x \in ListedOnce
            PROVE  /\ AtMostOnce(x, reached'[d])
                   /\ AtMostOnce(x, rest'[d])
                   /\ \A i \in 1 .. Len(reached'[d]), j \in 1 .. Len(rest'[d]) :
                        ~(reached'[d][i] = x /\ rest'[d][j] = x)
        <4>1. /\ AtMostOnce(x, reached[d])
              /\ AtMostOnce(x, rest[d])
              /\ \A i \in 1 .. Len(reached[d]), j \in 1 .. Len(rest[d]) :
                   ~(reached[d][i] = x /\ rest[d][j] = x)
          BY DEF FlowInv, Reaching
        <4>2. /\ Len(Tail(rest[d])) = Len(rest[d]) - 1
              /\ \A i \in 1 .. Len(Tail(rest[d])) : Tail(rest[d])[i] = rest[d][i + 1]
              /\ Head(rest[d]) = rest[d][1]
              /\ Len(rest[d]) \in Nat \ {0} /\ Len(reached[d]) \in Nat
          BY <2>1, <2>2
        <4>3. AtMostOnce(x, rest'[d])
          BY <3>2, <4>1, <4>2 DEF AtMostOnce
        <4>4. CASE reached'[d] = reached[d]
          BY <3>2, <4>1, <4>2, <4>3, <4>4 DEF AtMostOnce
        <4>5. CASE reached'[d] = Append(reached[d], Head(rest[d]))
          <5>1. /\ Len(reached'[d]) = Len(reached[d]) + 1
                /\ \A i \in 1 .. Len(reached[d]) : reached'[d][i] = reached[d][i]
                /\ reached'[d][Len(reached[d]) + 1] = rest[d][1]
            BY <2>2, <4>2, <4>5
          <5>2. rest[d][1] = x => \A i \in 1 .. Len(reached[d]) : reached[d][i] # x
            BY <4>1, <4>2
          <5>3. rest[d][1] = x => \A j \in 1 .. Len(rest'[d]) : rest'[d][j] # x
            BY <3>2, <4>1, <4>2 DEF AtMostOnce
          <5>4. \A i \in 1 .. Len(reached'[d]) : i \in 1 .. Len(reached[d]) \/ i = Len(reached[d]) + 1
            BY <4>2, <5>1
          <5>5. AtMostOnce(x, reached'[d])
            BY <4>1, <5>1, <5>2, <5>4 DEF AtMostOnce
          <5>6. \A j \in 1 .. Len(rest'[d]) : j + 1 \in 1 .. Len(rest[d]) /\ rest'[d][j] = rest[d][j + 1]
            BY <3>2, <4>2
          <5>7. ASSUME NEW i \in 1 .. Len(reached'[d]), NEW j \in 1 .. Len(rest'[d])
                PROVE  ~(reached'[d][i] = x /\ rest'[d][j] = x)
            BY <4>1, <5>1, <5>3, <5>4, <5>6, SMTT(30)
          <5> QED
            BY <4>3, <5>5, <5>7
        <4> QED BY <3>2, <4>4, <4>5
      <3>4. pc' = pc /\ status' = status /\ msg' = msg /\ pc'[d] = "broadcast"
        BY <2>1
      <3> QED
        BY <3>1, <3>3, <3>4 DEF FlowInv, Reaching
    <2> QED BY <2>4, <2>5, <2>6 DEF FlowInv
  <1>4. ASSUME NEW d \in Device, EndBroadcast(d) PROVE FlowInv'
    <2>1. /\ pc[d] = "broadcast"
          /\ pc' = [pc EXCEPT ![d] = "record"]
          /\ UNCHANGED <<unread, status, msg, seen, rest, reached, delivered, acks, result>>
      BY <1>4 DEF EndBroadcast, Goto, storeVars, worldVars
    <2>2. (TypeOK /\ Creators /\ Unsent /\ Stored /\ Answered)'
      BY <2>1 DEF FlowInv, TypeOK, Creators, Unsent, Stored, Answered, Creating, Receiving
    <2>3. Reaching'
      <3>1. ListedOnce \subseteq Device
        BY DEF ListedOnce
      <3>2. \A x \in ListedOnce : status[msg[d]][x] = "none"
        BY <2>1, <3>1 DEF FlowInv, Unsent
      <3>3. \A e \in Device : e # d => pc'[e] = pc[e]
        BY <2>1 DEF FlowInv, TypeOK
      <3>4. pc'[d] = "record"
        BY <2>1 DEF FlowInv, TypeOK
      <3> QED
        BY <2>1, <3>2, <3>3, <3>4 DEF FlowInv, Reaching
    <2> QED BY <2>2, <2>3 DEF FlowInv
  <1>5. ASSUME NEW d \in Device, Record(d) PROVE FlowInv'
    <2> DEFINE m == msg[d]
               x == Head(reached[d])
    <2>1. /\ pc[d] = "record" /\ m \in Message /\ result[m] = "running"
          /\ reached[d] \in Seq(Device) /\ reached[d] # <<>> /\ x \in Device
          /\ status' = [status EXCEPT ![m][x] = "SENT"]
          /\ UNCHANGED <<unread, delivered, acks>>
      BY <1>5, Recording
    <2>2. /\ \A n \in Message, y \in Device : n # m \/ y # x => status'[n][y] = status[n][y]
          /\ status'[m][x] = "SENT"
          /\ status' \in [Message -> [Device -> {"none", "SENT", "READ"}]]
      BY <2>1 DEF FlowInv, TypeOK
    <2>3. CASE status[m][x] # "none" /\ Return(d) /\ Ends(m, "failed")
      <3>1. \A n \in Message : \A y \in Device : status'[n][y] = "none" <=> status[n][y] = "none"
        BY <2>2, <2>3
      <3>2. pc[d] \in Creating /\ result' = [result EXCEPT ![m] = "failed"]
        BY <2>1, <2>3 DEF Creating, Ends
      <3> QED BY <2>1, <2>2, <2>3, <3>1, <3>2, HandlerEnds
    <2>4. CASE /\ status[m][x] = "none"
               /\ reached' = [reached EXCEPT ![d] = Tail(reached[d])]
               /\ UNCHANGED <<pc, msg, seen, rest, result>>
      <3>1. TypeOK'
        <4>1. Tail(reached[d]) \in Seq(Device)
          BY <2>1
        <4>2. reached' \in [Device -> Seq(Device)]
          BY <2>4, <4>1 DEF FlowInv, TypeOK
        <4> QED BY <2>1, <2>2, <2>4, <4>2 DEF FlowInv, TypeOK
      <3>2. Creators'
        BY <2>4 DEF FlowInv, Creators
      <3>3. Unsent'
        <4>1. \A n \in Message : result[n] = "none" => n # m
          BY <2>1
        <4>2. \A e \in Device : pc[e] \in {"index", "broadcast"} => msg[e] # m /\ msg[e] \in Message
          BY <2>1 DEF FlowInv, Creators, Creating
        <4> QED
          BY <2>2, <2>4, <4>1, <4>2 DEF FlowInv, Unsent
      <3>4. Stored'
        <4>1. unread[m] # None
          BY <2>1 DEF FlowInv, Stored
        <4> QED
          BY <2>1, <2>2, <2>4, <4>1 DEF FlowInv, Stored
      <3>5. Reaching'
        <4>1. ASSUME NEW e \in Device, e # d
              PROVE  reached'[e] = reached[e] /\ (pc[e] = "record" => msg[e] # m /\ msg[e] \in Message)
          BY <2>1, <2>4, <4>1 DEF FlowInv, TypeOK, Creators, Creating
        <4>2. ASSUME NEW e \in Device, e # d, pc[e] = "record", NEW y \in ListedOnce
              PROVE  \A i \in 1 .. Len(reached'[e]) : reached'[e][i] = y => status'[msg'[e]][y] = "none"
          <5>1. y \in Device
            BY DEF ListedOnce
          <5> QED
            BY <2>2, <2>4, <4>1, <4>2, <5>1 DEF FlowInv, Reaching
        <4>3. /\ reached'[d] = Tail(reached[d])
              /\ Len(reached[d]) \in Nat \ {0}
              /\ Len(reached'[d]) = Len(reached[d]) - 1
              /\ \A i \in 1 .. Len(reached'[d]) :
                   i + 1 \in 1 .. Len(reached[d]) /\ reached'[d][i] = reached[d][i + 1]
              /\ x = reached[d][1]
          BY <2>1, <2>4 DEF FlowInv, TypeOK
        <4>4. ASSUME NEW y \in ListedOnce
              PROVE  /\ AtMostOnce(y, reached'[d])
                     /\ \A i \in 1 .. Len(reached'[d]), j \in 1 .. Len(rest[d]) :
                          ~(reached'[d][i] = y /\ rest[d][j] = y)
                     /\ \A i \in 1 .. Len(reached'[d]) : reached'[d][i] = y => status'[m][y] = "none"
          <5>1. /\ AtMostOnce(y, reached[d])
                /\ \A i \in 1 .. Len(reached[d]) : reached[d][i] = y => status[m][y] = "none"
                /\ \A i \in 1 .. Len(reached[d]), j \in 1 .. Len(rest[d]) :
                     ~(reached[d][i] = y /\ rest[d][j] = y)
            BY <2>1 DEF FlowInv, Reaching
          <5>2. AtMostOnce(y, reached'[d]) /\ \A i \in 1 .. Len(reached'[d]) : reached'[d][i] = y => y # x
            BY <4>3, <5>1 DEF AtMostOnce
          <5>3. \A i \in 1 .. Len(reached'[d]), j \in 1 .. Len(rest[d]) :
                  ~(reached'[d][i] = y /\ rest[d][j] = y)
            BY <4>3, <5>1
          <5>4. \A i \in 1 .. Len(reached'[d]) : reached'[d][i] = y => status'[m][y] = "none"
            <6>1. y \in Device
              BY DEF ListedOnce
            <6> QED BY <2>1, <2>2, <4>3, <5>1, <5>2, <6>1
          <5> QED BY <5>2, <5>3, <5>4
        <4> QED
          BY <2>1, <2>4, <4>1, <4>2, <4>4 DEF FlowInv, Reaching
      <3>6. Answered'
        BY <2>2, <2>4 DEF FlowInv, Answered
      <3> QED BY <3>1, <3>2, <3>3, <3>4, <3>5, <3>6 DEF FlowInv
    <2> QED BY <1>5, <2>3, <2>4 DEF Record
  <1>6. ASSUME NEW d \in Device, EndCreate(d) PROVE FlowInv'
    <2>1. /\ pc[d] = "record" /\ msg[d] \in Message
          /\ result' = [result EXCEPT ![msg[d]] = "ok"]
          /\ UNCHANGED <<unread, status, delivered, acks>>
          /\ Return(d)
      BY <1>6 DEF EndCreate, Ends, storeVars, FlowInv, Creators, Creating
    <2>2. status' \in [Message -> [Device -> {"none", "SENT", "READ"}]]
      BY <2>1 DEF FlowInv, TypeOK
    <2> QED BY <2>1, <2>2, HandlerEnds DEF Creating
  <1>7. ASSUME NEW d \in Device, NEW m \in Message, Receive(d, m) PROVE FlowInv'
    <2>1. /\ pc[d] = "idle" /\ acks[m][d] < MaxAcks
          /\ acks' = [acks EXCEPT ![m][d] = @ + 1]
          /\ \/ UNCHANGED <<pc, msg>>
             \/ /\ status[m][d] # "none"
                /\ pc' = [pc EXCEPT ![d] = "setRead"]
                /\ msg' = [msg EXCEPT ![d] = m]
          /\ UNCHANGED <<unread, status, seen, rest, reached, delivered, result>>
      BY <1>7 DEF Receive, LoopFree, Goto, storeVars
    <2>2. acks' \in [Message -> [Device -> 0 .. MaxAcks]]
      BY <2>1, AcksAssumption DEF FlowInv, TypeOK
    <2>3. /\ pc' \in [Device -> {"idle"} \cup Creating \cup Receiving]
          /\ msg' \in [Device -> Message \cup {None}]
      <3>1. pc \in [Device -> {"idle"} \cup Creating \cup Receiving] /\ msg \in [Device -> Message \cup {None}]
        BY DEF FlowInv, TypeOK
      <3>2. "setRead" \in Receiving
        BY DEF Receiving
      <3>3. CASE UNCHANGED <<pc, msg>>
        BY <3>1, <3>3
      <3>4. CASE pc' = [pc EXCEPT ![d] = "setRead"] /\ msg' = [msg EXCEPT ![d] = m]
        BY <3>1, <3>2, <3>4
      <3> QED BY <2>1, <3>3, <3>4
    <2>4. TypeOK'
      BY <2>1, <2>2, <2>3 DEF FlowInv, TypeOK
    <2>5. \A e \in Device : pc'[e] \in Creating => pc'[e] = pc[e] /\ msg'[e] = msg[e]
      BY <2>1 DEF FlowInv, TypeOK, Creating
    <2>6. Creators'
      BY <2>1, <2>5 DEF FlowInv, Creators
    <2>7. (Unsent /\ Stored)'
      BY <2>1, <2>5 DEF FlowInv, Unsent, Stored, Creating
    <2>8. Reaching'
      <3>1. \A e \in Device : pc'[e] \in {"broadcast", "record"} <=> pc[e] \in {"broadcast", "record"}
        BY <2>1 DEF FlowInv, TypeOK
      <3> QED
        BY <2>1, <2>5, <3>1 DEF FlowInv, Reaching, Creating
    <2>9. Answered'
      BY <2>1 DEF FlowInv, TypeOK, Answered, Receiving
    <2> QED BY <2>4, <2>6, <2>7, <2>8, <2>9 DEF FlowInv
  <1>8. ASSUME NEW d \in Device, SetRead(d) PROVE FlowInv'
    <2>1. /\ pc[d] = "setRead" /\ msg[d] \in Message /\ status[msg[d]][d] # "none"
          /\ status' = [status EXCEPT ![msg[d]][d] = "READ"]
          /\ pc' = [pc EXCEPT ![d] = "getMessage"]
          /\ UNCHANGED <<unread, msg, seen, rest, reached, delivered, acks, result>>
      BY <1>8 DEF SetRead, Goto, worldVars, FlowInv, Answered, Receiving
    <2>2. TypeOK'
      <3>1. status' \in [Message -> [Device -> {"none", "SENT", "READ"}]]
        BY <2>1 DEF FlowInv, TypeOK
      <3>2. pc' \in [Device -> {"idle"} \cup Creating \cup Receiving]
        BY <2>1 DEF FlowInv, TypeOK, Receiving
      <3> QED BY <2>1, <3>1, <3>2 DEF FlowInv, TypeOK
    <2>3. \A n \in Message : \A y \in Device : status'[n][y] = "none" <=> status[n][y] = "none"
      BY <2>1 DEF FlowInv, TypeOK
    <2>4. "setRead" \in Receiving /\ "getMessage" \in Receiving
      BY DEF Receiving
    <2> QED BY <2>1, <2>2, <2>3, <2>4, ReceiptGoesOn
  <1>9. ASSUME NEW d \in Device, GetMessage(d) PROVE FlowInv'
    <2>1. /\ pc[d] = "getMessage" /\ msg[d] \in Message /\ status[msg[d]][d] # "none"
          /\ seen' = [seen EXCEPT ![d] = unread[msg[d]]]
          /\ pc' = [pc EXCEPT ![d] = "setUnread"]
          /\ UNCHANGED <<unread, status, msg, rest, reached, delivered, acks, result>>
      BY <1>9 DEF GetMessage, Goto, storeVars, worldVars, FlowInv, Answered, Receiving
    <2>2. unread[msg[d]] \in Int
      BY <2>1 DEF FlowInv, TypeOK, Stored
    <2>3. seen'[d] \in Int /\ \A e \in Device : e # d => seen'[e] = seen[e]
      BY <2>1, <2>2 DEF FlowInv, TypeOK
    <2>4. TypeOK'
      BY <2>1, <2>2 DEF FlowInv, TypeOK, Receiving
    <2>5. "getMessage" \in Receiving /\ "setUnread" \in Receiving
      BY DEF Receiving
    <2> QED BY <2>1, <2>3, <2>4, <2>5, ReceiptGoesOn
  <1>10. ASSUME NEW d \in Device, SetUnread(d) PROVE FlowInv'
    <2>1. /\ pc[d] = "setUnread" /\ msg[d] \in Message /\ seen[d] \in Int
          /\ unread' = [unread EXCEPT ![msg[d]] = seen[d] - 1]
          /\ pc' = [pc EXCEPT ![d] = "notify"]
          /\ UNCHANGED <<status, msg, seen, rest, reached, delivered, acks, result>>
      BY <1>10 DEF SetUnread, Goto, worldVars, FlowInv, Answered, Receiving
    <2>2. seen[d] - 1 \in Int /\ seen[d] - 1 # None
      BY <2>1, NoneAssumption
    <2>3. \A n \in Message : unread[n] # None => unread'[n] # None
      BY <2>1, <2>2 DEF FlowInv, TypeOK
    <2>4. TypeOK'
      BY <2>1, <2>2 DEF FlowInv, TypeOK, Receiving
    <2>5. "setUnread" \in Receiving /\ "notify" \in Receiving
      BY DEF Receiving
    <2> QED BY <2>1, <2>3, <2>4, <2>5, ReceiptGoesOn
  <1>11. ASSUME NEW d \in Device, Notify(d) PROVE FlowInv'
    <2>1. pc[d] \notin Creating /\ Return(d) /\ UNCHANGED <<unread, status, delivered, acks, result>>
      BY <1>11 DEF Notify, Creating, storeVars, worldVars
    <2>2. status' \in [Message -> [Device -> {"none", "SENT", "READ"}]]
      BY <2>1 DEF FlowInv, TypeOK
    <2> QED BY <2>1, <2>2, HandlerEnds
  <1>12. ASSUME NEW d \in Device, Fault(d) PROVE FlowInv'
    <2>1. Return(d) /\ UNCHANGED <<unread, status, delivered, acks>>
      BY <1>12 DEF Fault, storeVars
    <2>2. \/ pc[d] \notin Creating /\ UNCHANGED result
          \/ pc[d] \in Creating /\ result' = [result EXCEPT ![msg[d]] = "failed"]
      BY <1>12 DEF Fault, Ends
    <2>3. status' \in [Message -> [Device -> {"none", "SENT", "READ"}]]
      BY <2>1 DEF FlowInv, TypeOK
    <2> QED BY <2>1, <2>2, <2>3, HandlerEnds
  <1>13. ASSUME UNCHANGED vars PROVE FlowInv'
    BY <1>13 DEF vars, storeVars, threadVars, worldVars, FlowInv, TypeOK, Creators, Unsent, Stored,
         Reaching, Answered
  <1> QED
    BY <1>1, <1>2, <1>3, <1>4, <1>5, <1>6, <1>7, <1>8, <1>9, <1>10, <1>11, <1>12, <1>13
       DEF Next, Client, Handler, Create, Receipt


\* The inductive invariant holds, whoever is listed twice.
THEOREM FlowInvariance == Spec => []FlowInv
  <1>1. Init => FlowInv
    BY NoneAssumption, AcksAssumption
       DEF Init, FlowInv, TypeOK, Creators, Unsent, Stored, Reaching, Answered, AtMostOnce,
           Creating, Receiving
  <1>2. FlowInv /\ [Next]_vars => FlowInv'
    BY FlowStep
  <1> QED
    BY <1>1, <1>2, PTL DEF Spec
--------------------------------------------------------------------------------

\* A step of no receipt, as far as the counts are concerned.
Aside ==
  /\ acks' = acks
  /\ \A m \in Message, x \in Device : status'[m][x] = "READ" => status[m][x] = "READ"
  /\ \A m \in Message, x \in ListedOnce : status[m][x] = "READ" => status'[m][x] = "READ"
  /\ \A m \in Message : unread'[m] \in {unread[m], Len(Members)}
  /\ \A e \in Device : pc'[e] \in Receiving =>
       pc'[e] = pc[e] /\ msg'[e] = msg[e] /\ seen'[e] = seen[e]

ReceiptStep(d) == (\E m \in Message : Receive(d, m)) \/ SetRead(d) \/ GetMessage(d) \/ SetUnread(d)

\* Only receipts take a status to READ or a count down: what create writes, it
\* writes where there was nothing, or where the channel lists a device twice.
LEMMA StepKinds ==
  ASSUME FlowInv, [Next]_vars
  PROVE  Aside \/ \E d \in Device : ReceiptStep(d)
  <1>1. ListedOnce \subseteq Device
    BY DEF ListedOnce
  <1>2. ASSUME NEW d \in Device, NEW m \in Message, CreateMessage(d, m) PROVE Aside
    BY <1>1, <1>2 DEF CreateMessage, Goto, storeVars, FlowInv, TypeOK, Aside, Receiving
  <1>3. ASSUME NEW d \in Device, IndexMessage(d) PROVE Aside
    <2>1. msg[d] \in Message
      BY <1>3 DEF IndexMessage, FlowInv, Creators, Creating
    <2> QED BY <1>1, <1>3, <2>1 DEF IndexMessage, Goto, worldVars, FlowInv, TypeOK, Aside, Receiving
  <1>4. ASSUME NEW d \in Device, Broadcast(d) PROVE Aside
    BY <1>1, <1>4 DEF Broadcast, storeVars, Aside
  <1>5. ASSUME NEW d \in Device, EndBroadcast(d) PROVE Aside
    BY <1>1, <1>5 DEF EndBroadcast, Goto, storeVars, worldVars, FlowInv, TypeOK, Aside, Receiving
  <1>6. ASSUME NEW d \in Device, Record(d) PROVE Aside
    <2> DEFINE x == Head(reached[d])
    <2>1. /\ msg[d] \in Message /\ x \in Device
          /\ x \in ListedOnce => status[msg[d]][x] = "none"
          /\ status' = [status EXCEPT ![msg[d]][x] = "SENT"]
          /\ UNCHANGED <<unread, acks>>
      BY <1>6, Recording
    <2>2. /\ \A m \in Message, y \in Device : status'[m][y] = "READ" => status[m][y] = "READ"
          /\ \A m \in Message, y \in ListedOnce : status[m][y] = "READ" => status'[m][y] = "READ"
      BY <1>1, <2>1 DEF FlowInv, TypeOK
    <2>3. \A e \in Device : pc'[e] \in Receiving =>
            pc'[e] = pc[e] /\ msg'[e] = msg[e] /\ seen'[e] = seen[e]
      BY <1>6 DEF Record, Return, Goto, FlowInv, TypeOK, Receiving
    <2> QED BY <2>1, <2>2, <2>3 DEF Aside
  <1>7. ASSUME NEW d \in Device, Return(d), UNCHANGED <<unread, status, acks>> PROVE Aside
    BY <1>1, <1>7 DEF Return, Goto, FlowInv, TypeOK, Aside, Receiving
  <1>8. ASSUME NEW d \in Device, EndCreate(d) \/ Notify(d) \/ Fault(d) PROVE Aside
    BY <1>7, <1>8 DEF EndCreate, Notify, Fault, storeVars, worldVars
  <1>9. ASSUME UNCHANGED vars PROVE Aside
    BY <1>1, <1>9 DEF vars, storeVars, threadVars, worldVars, Aside
  <1> QED
    BY <1>2, <1>3, <1>4, <1>5, <1>6, <1>8, <1>9
       DEF Next, Client, Handler, Create, Receipt, ReceiptStep

\* The reader of SetRead is the only status that changes.
LEMMA SetReadReads ==
  ASSUME FlowInv, NEW d \in Device, SetRead(d)
  PROVE  /\ msg[d] \in Message
         /\ \A m \in Message, x \in Device :
              status'[m][x] = "READ" <=> status[m][x] = "READ" \/ (m = msg[d] /\ x = d)
  <1>1. msg[d] \in Message /\ status' = [status EXCEPT ![msg[d]][d] = "READ"]
    BY DEF SetRead, FlowInv, Answered, Receiving
  <1> QED BY <1>1 DEF FlowInv, TypeOK

\* Who is listed once and has read a message goes on having read it.
LEMMA ReadersStay ==
  ASSUME FlowInv, [Next]_vars, NEW m \in Message
  PROVE  Readers(m) \cap ListedOnce \subseteq Readers(m)'
  <1>1. CASE Aside
    BY <1>1 DEF Aside, Readers
  <1>2. ASSUME NEW d \in Device, SetRead(d) PROVE Readers(m) \subseteq Readers(m)'
    BY <1>2, SetReadReads DEF Readers
  <1>3. ASSUME NEW d \in Device, (\E n \in Message : Receive(d, n)) \/ GetMessage(d) \/ SetUnread(d)
        PROVE  Readers(m) \subseteq Readers(m)'
    BY <1>3 DEF Receive, GetMessage, SetUnread, storeVars, Readers
  <1> QED BY <1>1, <1>2, <1>3, StepKinds DEF ReceiptStep

\* READ is final for a device that is listed once: create, which records SENT after
\* the devices may have answered its broadcast, never writes over its status.
THEOREM ReadStays == Spec => ReadIsFinal
  <1>1. FlowInv /\ [Next]_vars
          => [\A m \in Message : Readers(m) \cap ListedOnce \subseteq Readers(m)']_vars
    BY ReadersStay
  <1> QED
    BY <1>1, FlowInvariance, PTL DEF Spec, ReadIsFinal
--------------------------------------------------------------------------------
(* The unread count, as long as nobody sends a receipt too many *)

\* No device has sent more receipts of m than the channel lists it.
Within(m) == \A d \in Device : acks[m][d] <= IF d \in ListedOnce THEN 1 ELSE 0

\* Receipts are not taken back.
LEMMA AcksGrow ==
  ASSUME FlowInv, [Next]_vars, NEW m \in Message
  PROVE  /\ \A d \in Device : acks[m][d] \in Nat /\ acks'[m][d] \in Nat /\ acks[m][d] <= acks'[m][d]
         /\ Within(m)' => Within(m)
  <1>1. ASSUME NEW d \in Device
        PROVE  acks[m][d] \in Nat /\ acks'[m][d] \in Nat /\ acks[m][d] <= acks'[m][d]
    <2>1. acks \in [Message -> [Device -> Nat]]
      BY AcksAssumption DEF FlowInv, TypeOK
    <2>2. CASE acks' = acks
      BY <2>1, <2>2
    <2>3. ASSUME NEW e \in Device, NEW n \in Message, Receive(e, n)
          PROVE  acks[m][d] \in Nat /\ acks'[m][d] \in Nat /\ acks[m][d] <= acks'[m][d]
      <3>1. acks' = [acks EXCEPT ![n][e] = acks[n][e] + 1]
        BY <2>3 DEF Receive
      <3>2. acks'[m][d] = IF m = n /\ d = e THEN acks[n][e] + 1 ELSE acks[m][d]
        BY <2>1, <3>1
      <3> QED BY <2>1, <3>2
    <2>4. ASSUME NEW e \in Device, SetRead(e) \/ GetMessage(e) \/ SetUnread(e) PROVE acks' = acks
      BY <2>4 DEF SetRead, GetMessage, SetUnread, worldVars
    <2> QED BY <2>2, <2>3, <2>4, StepKinds DEF ReceiptStep, Aside
  <1>2. ListedOnce' = ListedOnce
    BY DEF ListedOnce
  <1> QED BY <1>1, <1>2 DEF Within

\* A device that has read a message or is handling its receipt has sent one, and unless
\* it sent one too many SetRead is the moment it becomes a reader.
Once ==
  /\ \A m \in Message, x \in Device : status[m][x] = "READ" => acks[m][x] # 0
  /\ \A d \in Device : pc[d] \in Receiving =>
       /\ acks[msg[d]][d] # 0
       /\ Within(msg[d]) => (pc[d] # "setRead" <=> status[msg[d]][d] = "READ")

\* With one receipt per device no handler repeats another's.
LEMMA OnceStep ==
  ASSUME FlowInv, Once, [Next]_vars
  PROVE  Once'
  <1>1. \A d \in Device : pc[d] \in Receiving => msg[d] \in Message
    BY DEF FlowInv, Answered
  <1>2. \A m \in Message, d \in Device : Within(m) /\ acks[m][d] # 0 => d \in ListedOnce
    BY DEF Within, FlowInv, TypeOK
  <1>3. CASE Aside
    <2>1. \A m \in Message, x \in Device : status'[m][x] = "READ" => acks'[m][x] # 0
      BY <1>3 DEF Aside, Once
    <2>2. ASSUME NEW d \in Device, pc'[d] \in Receiving
          PROVE  /\ acks'[msg'[d]][d] # 0
                 /\ Within(msg[d])' => (pc'[d] # "setRead" <=> status'[msg'[d]][d] = "READ")
      <3>1. pc[d] \in Receiving /\ pc'[d] = pc[d] /\ msg'[d] = msg[d] /\ msg[d] \in Message
        BY <1>1, <1>3, <2>2 DEF Aside
      <3>2. acks'[msg'[d]][d] # 0
        BY <1>3, <3>1 DEF Aside, Once
      <3>3. ASSUME Within(msg[d])' PROVE pc'[d] # "setRead" <=> status'[msg'[d]][d] = "READ"
        <4>1. Within(msg[d])
          BY <1>3, <3>1, <3>3 DEF Aside, Within, ListedOnce
        <4>2. d \in ListedOnce
          BY <1>2, <3>1, <4>1 DEF Once
        <4>3. status'[msg[d]][d] = "READ" <=> status[msg[d]][d] = "READ"
          BY <1>3, <3>1, <4>2 DEF Aside
        <4> QED BY <3>1, <4>1, <4>3 DEF Once
      <3> QED BY <3>2, <3>3
    <2> QED BY <2>1, <2>2 DEF Once
  <1>4. ASSUME NEW d \in Device, NEW m \in Message, Receive(d, m) PROVE Once'
    <2>1. /\ pc[d] = "idle"
          /\ acks' = [acks EXCEPT ![m][d] = acks[m][d] + 1]
          /\ \/ UNCHANGED <<pc, msg>>
             \/ pc' = [pc EXCEPT ![d] = "setRead"] /\ msg' = [msg EXCEPT ![d] = m]
          /\ UNCHANGED <<unread, status>>
      BY <1>4 DEF Receive, LoopFree, Goto, storeVars
    <2>2. \A n \in Message, x \in Device : acks[n][x] # 0 => acks'[n][x] # 0
      BY AcksGrow
    <2>3. acks[m][d] \in Nat /\ acks'[m][d] = acks[m][d] + 1
      BY <2>1, AcksGrow DEF FlowInv, TypeOK
    <2>4. Within(m)' => status[m][d] # "READ"
      BY <2>3 DEF Within, Once
    <2>5. \A e \in Device : e # d => pc'[e] = pc[e] /\ msg'[e] = msg[e]
      BY <2>1 DEF FlowInv, TypeOK
    <2>6. pc'[d] \in Receiving => pc'[d] = "setRead" /\ msg'[d] = m
      BY <2>1 DEF FlowInv, TypeOK, Receiving
    <2>7. \A n \in Message : Within(n)' => Within(n)
      BY AcksGrow
    <2>8. \A n \in Message, x \in Device : status'[n][x] = "READ" => acks'[n][x] # 0
      BY <2>1, <2>2 DEF Once
    <2>9. ASSUME NEW e \in Device, e # d, pc'[e] \in Receiving
          PROVE  /\ acks'[msg'[e]][e] # 0
                 /\ Within(msg[e])' => (pc'[e] # "setRead" <=> status'[msg'[e]][e] = "READ")
      <3>1. pc[e] \in Receiving /\ msg'[e] = msg[e] /\ pc'[e] = pc[e] /\ msg[e] \in Message
        BY <1>1, <2>5, <2>9
      <3>2. Within(msg[e])' => Within(msg[e])
        BY <2>7, <3>1 DEF Within, ListedOnce
      <3> QED BY <2>1, <2>2, <3>1, <3>2 DEF Once
    <2>10. ASSUME pc'[d] \in Receiving
           PROVE  /\ acks'[msg'[d]][d] # 0
                  /\ Within(msg[d])' => (pc'[d] # "setRead" <=> status'[msg'[d]][d] = "READ")
      BY <2>1, <2>3, <2>4, <2>6, <2>10 DEF Within
    <2> QED BY <2>8, <2>9, <2>10 DEF Once
  <1>5. ASSUME NEW d \in Device, SetRead(d) PROVE Once'
    <2>1. /\ pc[d] = "setRead" /\ pc' = [pc EXCEPT ![d] = "getMessage"]
          /\ UNCHANGED <<msg, acks>>
      BY <1>5 DEF SetRead, Goto, worldVars
    <2>2. \A e \in Device : e # d => pc'[e] = pc[e]
      BY <2>1 DEF FlowInv, TypeOK
    <2>3. pc'[d] = "getMessage" /\ pc[d] \in Receiving /\ acks[msg[d]][d] # 0
      BY <2>1 DEF FlowInv, TypeOK, Once, Receiving
    <2> QED BY <1>1, <1>5, <2>1, <2>2, <2>3, SetReadReads DEF Once, Within, ListedOnce
  <1>6. ASSUME NEW d \in Device, GetMessage(d) \/ SetUnread(d) PROVE Once'
    <2>1. /\ pc[d] \in Receiving /\ pc[d] # "setRead"
          /\ pc' \in {[pc EXCEPT ![d] = "setUnread"], [pc EXCEPT ![d] = "notify"]}
          /\ UNCHANGED <<status, msg, acks>>
      BY <1>6 DEF GetMessage, SetUnread, Goto, storeVars, worldVars, Receiving
    <2>2. pc'[d] # "setRead" /\ \A e \in Device : e # d => pc'[e] = pc[e]
      BY <2>1 DEF FlowInv, TypeOK
    <2> QED BY <2>1, <2>2 DEF Once, Within, ListedOnce
  <1> QED BY <1>3, <1>4, <1>5, <1>6, StepKinds DEF ReceiptStep

\* The count of m, and the copies of it that handlers hold, stay above a bound that falls
\* by one at least when a handler writes its copy back, and never rises.
LEMMA KeptAbove ==
  ASSUME FlowInv, [Next]_vars, NEW m \in Message,
         NEW floor \in Int, NEW next \in Int, next <= floor, floor <= Len(Members),
         unread[m] # None => unread[m] >= floor,
         \A d \in Device : pc[d] = "setUnread" /\ msg[d] = m => seen[d] >= floor,
         \A d \in Device : SetUnread(d) /\ msg[d] = m => next <= floor - 1
  PROVE  /\ unread'[m] # None => unread'[m] >= next
         /\ \A d \in Device : pc'[d] = "setUnread" /\ msg'[d] = m => seen'[d] >= next
  <1> DEFINE Good == /\ unread'[m] # None => unread'[m] >= next
                     /\ \A d \in Device : pc'[d] = "setUnread" /\ msg'[d] = m => seen'[d] >= next
  <1>1. Len(Members) \in Nat
    BY MembersAssumption
  <1>2. unread[m] # None => unread[m] \in Int
    BY DEF FlowInv, TypeOK
  <1>3. ASSUME NEW d \in Device, pc[d] = "setUnread", msg[d] = m PROVE seen[d] \in Int
    BY <1>3 DEF FlowInv, Answered, Receiving
  <1>4. ASSUME unread'[m] \in {unread[m], Len(Members)}, unread'[m] # None
        PROVE  unread'[m] >= next
    BY <1>1, <1>2, <1>4
  <1>5. ASSUME NEW d \in Device, pc[d] = "setUnread", msg[d] = m, seen'[d] = seen[d]
        PROVE  seen'[d] >= next
    BY <1>3, <1>5
  <1>6. ASSUME Aside PROVE Good
    BY <1>4, <1>5, <1>6 DEF Aside, Receiving
  <1>7. ASSUME NEW e \in Device, (\E n \in Message : Receive(e, n)) \/ SetRead(e)
         PROVE  Good
    <2>1. /\ UNCHANGED <<unread, seen>>
          /\ \A d \in Device : pc'[d] = "setUnread" => pc[d] = "setUnread" /\ msg'[d] = msg[d]
      BY <1>7 DEF Receive, SetRead, Goto, storeVars, worldVars, FlowInv, TypeOK
    <2> QED BY <1>4, <1>5, <2>1
  <1>8. ASSUME NEW e \in Device, GetMessage(e) PROVE Good
    <2>1. /\ pc[e] = "getMessage" /\ UNCHANGED <<unread, msg, status>>
          /\ seen' = [seen EXCEPT ![e] = unread[msg[e]]]
          /\ pc' = [pc EXCEPT ![e] = "setUnread"]
      BY <1>8 DEF GetMessage, Goto, storeVars, worldVars
    <2>2. msg[e] \in Message /\ unread[msg[e]] # None
      BY <2>1 DEF FlowInv, Answered, Stored, Receiving
    <2>3. seen'[e] = unread[msg[e]] /\ \A d \in Device : d # e => seen'[d] = seen[d] /\ pc'[d] = pc[d]
      BY <2>1 DEF FlowInv, TypeOK
    <2>4. unread'[m] # None => unread'[m] >= next
      BY <1>4, <2>1
    <2>5. msg'[e] = m => seen'[e] >= next
      BY <2>1, <2>2, <2>3, <2>4
    <2> QED BY <1>5, <2>1, <2>3, <2>4, <2>5
  <1>9. ASSUME NEW e \in Device, SetUnread(e) PROVE Good
    <2>1. /\ pc[e] = "setUnread" /\ UNCHANGED <<status, msg, seen>>
          /\ unread' = [unread EXCEPT ![msg[e]] = seen[e] - 1]
          /\ pc' = [pc EXCEPT ![e] = "notify"]
      BY <1>9 DEF SetUnread, Goto, worldVars
    <2>2. ASSUME msg[e] = m PROVE unread'[m] >= next
      <3>1. unread'[m] = seen[e] - 1
        BY <2>1, <2>2 DEF FlowInv, TypeOK
      <3>2. seen[e] \in Int /\ seen[e] >= floor
        BY <1>3, <2>1, <2>2
      <3>3. next <= floor - 1
        BY <1>9, <2>2
      <3> QED BY <3>1, <3>2, <3>3
    <2>3. ASSUME msg[e] # m, unread'[m] # None PROVE unread'[m] >= next
      <3>1. unread'[m] = unread[m]
        BY <2>1, <2>3 DEF FlowInv, TypeOK
      <3> QED BY <1>4, <2>3, <3>1
    <2>4. \A d \in Device : pc'[d] = "setUnread" => pc[d] = "setUnread"
      BY <2>1 DEF FlowInv, TypeOK
    <2> QED BY <1>5, <2>1, <2>2, <2>3, <2>4
  <1> QED
    BY <1>6, <1>7, <1>8, <1>9, StepKinds DEF ReceiptStep

\* The readers whose decrement is not still to come.
Pending(m) == {d \in Device : pc[d] \in {"getMessage", "setUnread"} /\ msg[d] = m}
Done(m) == Readers(m) \ Pending(m)

Counted ==
  \A m \in Message : Within(m) =>
    /\ unread[m] # None => unread[m] >= Len(Members) - Cardinality(Done(m))
    /\ \A d \in Device : pc[d] = "setUnread" /\ msg[d] = m =>
         seen[d] >= Len(Members) - Cardinality(Done(m))

\* A receipt that is done stays done.
LEMMA DoneStays ==
  ASSUME FlowInv, Once, [Next]_vars, NEW m \in Message, Within(m), NEW x \in Done(m)
  PROVE  x \in Done(m)'
  <1>1. x \in Device /\ status[m][x] = "READ" /\ ~(pc[x] \in {"getMessage", "setUnread"} /\ msg[x] = m)
    BY DEF Done, Readers, Pending
  <1>2. x \in Readers(m)'
    <2>1. x \in ListedOnce
      BY <1>1 DEF Once, Within, FlowInv, TypeOK
    <2> QED BY <2>1, ReadersStay DEF Done
  <1>3. ASSUME pc'[x] \in {"getMessage", "setUnread"}, msg'[x] = m PROVE FALSE
    <2>1. CASE Aside
      BY <1>1, <1>3, <2>1 DEF Aside, Receiving
    <2>2. ASSUME NEW d \in Device, NEW n \in Message, Receive(d, n) PROVE FALSE
      <3>1. pc'[x] \in {pc[x], "setRead"} /\ (pc'[x] = "setRead" \/ msg'[x] = msg[x])
        <4>1. \/ UNCHANGED <<pc, msg>>
              \/ pc' = [pc EXCEPT ![d] = "setRead"] /\ msg' = [msg EXCEPT ![d] = n]
          BY <2>2 DEF Receive, Goto
        <4>2. pc \in [Device -> {"idle"} \cup Creating \cup Receiving] /\ msg \in [Device -> Message \cup {None}]
          BY DEF FlowInv, TypeOK
        <4> QED BY <1>1, <4>1, <4>2
      <3> QED BY <1>1, <1>3, <3>1
    <2>3. ASSUME NEW d \in Device, SetRead(d) PROVE FALSE
      <3>1. pc[d] = "setRead" /\ msg' = msg /\ (x # d => pc'[x] = pc[x])
        BY <2>3 DEF SetRead, Goto, FlowInv, TypeOK
      <3>2. x = d => status[msg[x]][x] # "READ"
        <4>1. ASSUME x = d, msg[x] = m PROVE status[m][x] # "READ"
          BY <3>1, <4>1 DEF Once, Receiving
        <4>2. pc'[x] \in {"getMessage", "setUnread"} /\ msg[x] = m
          BY <1>3, <3>1
        <4> QED BY <4>1, <4>2
      <3> QED BY <1>1, <1>3, <3>1, <3>2
    <2>4. ASSUME NEW d \in Device, GetMessage(d) \/ SetUnread(d) PROVE FALSE
      <3>1. msg' = msg /\ (x # d => pc'[x] = pc[x]) /\ pc[d] \in {"getMessage", "setUnread"}
        <4>1. /\ pc[d] \in {"getMessage", "setUnread"} /\ msg' = msg
              /\ pc' \in {[pc EXCEPT ![d] = "setUnread"], [pc EXCEPT ![d] = "notify"]}
          BY <2>4 DEF GetMessage, SetUnread, Goto
        <4> QED BY <1>1, <4>1 DEF FlowInv, TypeOK
      <3> QED BY <1>1, <1>3, <3>1
    <2> QED BY <2>1, <2>2, <2>3, <2>4, StepKinds DEF ReceiptStep
  <1> QED BY <1>2, <1>3 DEF Done, Pending

\* The number of receipts done never falls.
LEMMA DoneGrows ==
  ASSUME IsFiniteSet(Device), FlowInv, Once, [Next]_vars, NEW m \in Message, Within(m)
  PROVE  /\ Cardinality(Done(m)) \in Nat /\ Cardinality(Done(m)') \in Nat
         /\ Cardinality(Done(m)) <= Cardinality(Done(m)')
         /\ \A d \in Done(m)' \ Done(m) : Cardinality(Done(m)) + 1 <= Cardinality(Done(m)')
  <1>1. Done(m) \subseteq Device /\ Done(m)' \subseteq Device
    BY DEF Done, Readers
  <1>2. IsFiniteSet(Done(m)) /\ IsFiniteSet(Done(m)')
    BY <1>1, FS_Subset
  <1>3. Done(m) \subseteq Done(m)'
    BY DoneStays
  <1>4. ASSUME NEW d \in Done(m)' \ Done(m)
        PROVE  Cardinality(Done(m)) + 1 <= Cardinality(Done(m)')
    <2>1. IsFiniteSet(Done(m) \cup {d}) /\ Cardinality(Done(m) \cup {d}) = Cardinality(Done(m)) + 1
      BY <1>2, FS_AddElement
    <2>2. Done(m) \cup {d} \subseteq Done(m)'
      BY <1>3
    <2> QED BY <1>2, <2>1, <2>2, FS_Subset
  <1> QED BY <1>2, <1>3, <1>4, FS_Subset, FS_CardinalityType

\* Every step keeps the count above the receipts still to come.
LEMMA CountedStep ==
  ASSUME IsFiniteSet(Device), FlowInv, Once, Counted, [Next]_vars
  PROVE  Counted'
  <1>1. SUFFICES ASSUME NEW m \in Message, Within(m)'
                 PROVE  /\ unread'[m] # None => unread'[m] >= Len(Members) - Cardinality(Done(m)')
                        /\ \A d \in Device : pc'[d] = "setUnread" /\ msg'[d] = m =>
                             seen'[d] >= Len(Members) - Cardinality(Done(m)')
    BY DEF Counted
  <1> DEFINE floor == Len(Members) - Cardinality(Done(m))
             next == Len(Members) - Cardinality(Done(m)')
  <1>2. Within(m)
    BY <1>1, AcksGrow
  <1>3. Len(Members) \in Nat
    BY MembersAssumption
  <1>4. /\ floor \in Int /\ next \in Int /\ next <= floor /\ floor <= Len(Members)
        /\ \A d \in Done(m)' \ Done(m) : next <= floor - 1
    BY <1>2, <1>3, DoneGrows
  <1>5. ASSUME NEW d \in Device, SetUnread(d), msg[d] = m PROVE next <= floor - 1
    <2>1. pc[d] = "setUnread" /\ pc'[d] = "notify" /\ status' = status
      BY <1>5 DEF SetUnread, Goto, FlowInv, TypeOK
    <2>2. status[m][d] = "READ"
      BY <1>2, <1>5, <2>1 DEF Once, Receiving
    <2>3. d \in Done(m)' \ Done(m)
      BY <1>5, <2>1, <2>2 DEF Done, Readers, Pending
    <2> QED BY <1>4, <2>3
  <1>6. /\ unread[m] # None => unread[m] >= floor
        /\ \A d \in Device : pc[d] = "setUnread" /\ msg[d] = m => seen[d] >= floor
    BY <1>2 DEF Counted
  <1> HIDE DEF floor, next
  <1>7. /\ unread'[m] # None => unread'[m] >= next
        /\ \A d \in Device : pc'[d] = "setUnread" /\ msg'[d] = m => seen'[d] >= next
    BY <1>4, <1>5, <1>6, KeptAbove
  <1> QED BY <1>7 DEF next

\* As long as no device has sent a receipt too many, the unread count of a message is
\* never below the number of its members that have not read it, however the receipts of
\* different event loops interleave and whichever steps fail.
THEOREM UnreadNeverTooLow ==
  ASSUME IsFiniteSet(Device)
  PROVE  Spec => []NeverUndercounts
  <1>1. Init => Once /\ Counted
    BY DEF Init, Once, Counted, Receiving
  <1>2. FlowInv /\ Once /\ [Next]_vars => Once'
    BY OnceStep
  <1>3. FlowInv /\ Once /\ Counted /\ [Next]_vars => Counted'
    BY CountedStep
  <1>4. FlowInv /\ Counted => NeverUndercounts
    <2> SUFFICES ASSUME FlowInv, Counted, NEW m \in Message, unread[m] # None, Within(m)
                 PROVE  unread[m] >= Len(Members) - Cardinality(Readers(m))
      BY DEF NeverUndercounts, Within
    <2>1. Done(m) \subseteq Readers(m) /\ IsFiniteSet(Readers(m))
      BY FS_Subset DEF Done, Readers
    <2>2. /\ Cardinality(Done(m)) <= Cardinality(Readers(m))
          /\ Cardinality(Done(m)) \in Nat /\ Cardinality(Readers(m)) \in Nat
      BY <2>1, FS_Subset, FS_CardinalityType
    <2>3. unread[m] >= Len(Members) - Cardinality(Done(m)) /\ unread[m] \in Int
      BY DEF Counted, FlowInv, TypeOK
    <2>4. Len(Members) \in Nat
      BY MembersAssumption
    <2> QED BY <2>2, <2>3, <2>4
  <1> QED
    BY <1>1, <1>2, <1>3, <1>4, FlowInvariance, PTL DEF Spec
--------------------------------------------------------------------------------
(* Statuses for the devices that got the message *)

\* A device that got a message has a status, or its creator still has it on its list.
Reachable ==
  /\ \A m \in Message : result[m] = "none" => delivered[m] = {}
  /\ \A d \in Device : pc[d] = "index" => delivered[msg[d]] = {}
  /\ \A d \in Device : pc[d] \in {"broadcast", "record"} => \A x \in delivered[msg[d]] :
       status[msg[d]][x] # "none" \/ \E i \in 1 .. Len(reached[d]) : reached[d][i] = x

Answerable == Reachable /\ CreatedMeansAnswerable

\* A step that creates nothing.
LEMMA NothingCreated ==
  ASSUME FlowInv, Answerable, UNCHANGED delivered,
         \A m \in Message, x \in Device : status[m][x] # "none" => status'[m][x] # "none",
         \A e \in Device : pc'[e] \in Creating =>
           pc'[e] = pc[e] /\ msg'[e] = msg[e] /\ reached'[e] = reached[e],
         \A m \in Message : result'[m] \in {"none", "ok"} => result'[m] = result[m]
  PROVE  Answerable'
  <1>1. \A m \in Message : delivered[m] \subseteq Device
    BY DEF FlowInv, TypeOK
  <1>2. \A e \in Device : pc[e] \in Creating => msg[e] \in Message
    BY DEF FlowInv, Creators
  <1>3. \A m \in Message : result'[m] = "none" => delivered'[m] = {}
    BY DEF Answerable, Reachable
  <1>4. \A d \in Device : pc'[d] = "index" => delivered'[msg'[d]] = {}
    BY DEF Answerable, Reachable, Creating
  <1>5. ASSUME NEW d \in Device, pc'[d] \in {"broadcast", "record"}, NEW x \in delivered'[msg'[d]]
        PROVE  status'[msg'[d]][x] # "none" \/ \E i \in 1 .. Len(reached'[d]) : reached'[d][i] = x
    <2>1. pc[d] = pc'[d] /\ msg'[d] = msg[d] /\ reached'[d] = reached[d] /\ msg[d] \in Message
      BY <1>2, <1>5 DEF Creating
    <2>2. x \in delivered[msg[d]] /\ x \in Device
      BY <1>1, <1>5, <2>1
    <2> QED BY <1>5, <2>1, <2>2 DEF Answerable, Reachable
  <1>6. CreatedMeansAnswerable'
    BY <1>1 DEF Answerable, CreatedMeansAnswerable
  <1> QED BY <1>3, <1>4, <1>5, <1>6 DEF Answerable, Reachable

\* A handler that ends otherwise than by EndCreate.
LEMMA ReturnsAnswerable ==
  ASSUME FlowInv, Answerable, NEW d \in Device, Return(d), UNCHANGED delivered,
         \A m \in Message, x \in Device : status[m][x] # "none" => status'[m][x] # "none",
         \A m \in Message : result'[m] \in {"none", "ok"} => result'[m] = result[m]
  PROVE  Answerable'
  <1>1. \A e \in Device : pc'[e] \in Creating =>
          pc'[e] = pc[e] /\ msg'[e] = msg[e] /\ reached'[e] = reached[e]
    BY DEF Return, Goto, Creating, FlowInv, TypeOK
  <1> QED BY <1>1, NothingCreated

\* Every step of the creator keeps account of the devices it has reached.
LEMMA AnswerableStep ==
  ASSUME FlowInv, Answerable, [Next]_vars
  PROVE  Answerable'
  <1>1. ASSUME NEW d \in Device, NEW m \in Message, CreateMessage(d, m) PROVE Answerable'
    <2>1. /\ result[m] = "none" /\ result' = [result EXCEPT ![m] = "running"]
          /\ msg' = [msg EXCEPT ![d] = m] /\ pc' = [pc EXCEPT ![d] = "index"]
          /\ UNCHANGED <<status, reached, delivered>>
      BY <1>1 DEF CreateMessage, Goto, Ends, storeVars
    <2>2. pc'[d] = "index" /\ msg'[d] = m /\ \A e \in Device : e # d => pc'[e] = pc[e] /\ msg'[e] = msg[e]
      BY <2>1 DEF FlowInv, TypeOK
    <2>3. result'[m] = "running" /\ \A n \in Message : n # m => result'[n] = result[n]
      BY <2>1 DEF FlowInv, TypeOK
    <2>4. delivered[m] = {}
      BY <2>1 DEF Answerable, Reachable
    <2>5. Reachable'
      <3>1. \A n \in Message : result'[n] = "none" => delivered'[n] = {}
        BY <2>1, <2>3 DEF Answerable, Reachable
      <3>2. ASSUME NEW e \in Device, pc'[e] = "index" PROVE delivered'[msg'[e]] = {}
        BY <2>1, <2>2, <2>4, <3>2 DEF Answerable, Reachable
      <3>3. ASSUME NEW e \in Device, pc'[e] \in {"broadcast", "record"}
            PROVE  e # d /\ pc[e] = pc'[e] /\ msg'[e] = msg[e]
        BY <2>2, <3>3
      <3>4. ASSUME NEW e \in Device, pc'[e] \in {"broadcast", "record"}, NEW y \in delivered'[msg'[e]]
            PROVE  status'[msg'[e]][y] # "none" \/ \E i \in 1 .. Len(reached'[e]) : reached'[e][i] = y
        BY <2>1, <3>3, <3>4 DEF Answerable, Reachable
      <3> QED BY <3>1, <3>2, <3>4 DEF Reachable
    <2>6. CreatedMeansAnswerable'
      BY <2>1, <2>3 DEF Answerable, CreatedMeansAnswerable
    <2> QED BY <2>5, <2>6 DEF Answerable
  <1>2. ASSUME NEW d \in Device, IndexMessage(d) PROVE Answerable'
    <2>1. pc[d] = "index" /\ pc' = [pc EXCEPT ![d] = "broadcast"]
          /\ UNCHANGED <<status, msg, reached, delivered, result>>
      BY <1>2 DEF IndexMessage, Goto, worldVars
    <2>2. delivered[msg[d]] = {} /\ \A e \in Device : e # d => pc'[e] = pc[e]
      BY <2>1 DEF Answerable, Reachable, FlowInv, TypeOK
    <2>3. pc'[d] = "broadcast"
      BY <2>1 DEF FlowInv, TypeOK
    <2>4. Reachable'
      BY <2>1, <2>2, <2>3 DEF Answerable, Reachable
    <2>5. CreatedMeansAnswerable'
      BY <2>1 DEF Answerable, CreatedMeansAnswerable
    <2> QED BY <2>4, <2>5 DEF Answerable
  <1>3. ASSUME NEW d \in Device, Broadcast(d) PROVE Answerable'
    <2> DEFINE x == Head(rest[d])
               m == msg[d]
    <2>1. /\ pc[d] = "broadcast" /\ m \in Message /\ result[m] = "running"
          /\ x \in Device /\ reached[d] \in Seq(Device)
      BY <1>3 DEF Broadcast, FlowInv, TypeOK, Creators, Creating
    <2>2. /\ UNCHANGED <<status, pc, msg, result>>
          /\ \/ UNCHANGED <<reached, delivered>>
             \/ /\ reached' = [reached EXCEPT ![d] = Append(@, x)]
                /\ delivered' = [delivered EXCEPT ![m] = @ \cup {x}] \/ delivered' = delivered
      BY <1>3 DEF Broadcast, storeVars
    <2>3. CASE UNCHANGED <<reached, delivered>>
      BY <2>2, <2>3, NothingCreated
    <2>4. CASE /\ reached' = [reached EXCEPT ![d] = Append(@, x)]
               /\ delivered' = [delivered EXCEPT ![m] = @ \cup {x}] \/ delivered' = delivered
      <3>1. /\ delivered'[m] \subseteq delivered[m] \cup {x}
            /\ \A n \in Message : n # m => delivered'[n] = delivered[n]
        BY <2>1, <2>4 DEF FlowInv, TypeOK
      <3>2. /\ Len(reached'[d]) = Len(reached[d]) + 1 /\ Len(reached[d]) \in Nat
            /\ reached'[d][Len(reached[d]) + 1] = x
            /\ \A i \in 1 .. Len(reached[d]) : reached'[d][i] = reached[d][i]
            /\ \A e \in Device : e # d => reached'[e] = reached[e]
        <4>1. reached'[d] = Append(reached[d], x) /\ \A e \in Device : e # d => reached'[e] = reached[e]
          BY <2>1, <2>4 DEF FlowInv, TypeOK
        <4> QED BY <2>1, <4>1
      <3>3. \A e \in Device : e # d /\ pc[e] \in Creating => msg[e] # m /\ msg[e] \in Message
        BY <2>1 DEF FlowInv, Creators, Creating
      <3>4. \A n \in Message : result'[n] = "none" => delivered'[n] = {}
        BY <2>1, <2>2, <3>1 DEF Answerable, Reachable
      <3>5. \A e \in Device : pc'[e] = "index" => delivered'[msg'[e]] = {}
        BY <2>1, <2>2, <3>1, <3>3 DEF Answerable, Reachable, Creating
      <3>6. ASSUME NEW e \in Device, pc[e] \in {"broadcast", "record"}, NEW y \in delivered'[msg[e]]
            PROVE  status[msg[e]][y] # "none" \/ \E i \in 1 .. Len(reached'[e]) : reached'[e][i] = y
        <4>1. CASE e # d
          <5>1. msg[e] # m /\ msg[e] \in Message
            BY <3>3, <3>6, <4>1 DEF Creating
          <5>2. delivered'[msg[e]] = delivered[msg[e]] /\ reached'[e] = reached[e]
            BY <3>1, <3>2, <4>1, <5>1
          <5> QED BY <3>6, <5>2 DEF Answerable, Reachable
        <4>2. CASE e = d /\ y = x
          <5>1. Len(reached[d]) + 1 \in 1 .. Len(reached'[d])
            BY <3>2
          <5> QED BY <3>2, <4>2, <5>1
        <4>3. CASE e = d /\ y # x
          <5>1. y \in delivered[m]
            BY <3>1, <3>6, <4>3
          <5>2. status[m][y] # "none" \/ \E i \in 1 .. Len(reached[d]) : reached[d][i] = y
            BY <2>1, <5>1 DEF Answerable, Reachable
          <5>3. \A i \in 1 .. Len(reached[d]) : i \in 1 .. Len(reached'[d]) /\ reached'[d][i] = reached[d][i]
            BY <3>2
          <5> QED BY <4>3, <5>2, <5>3
        <4> QED BY <4>1, <4>2, <4>3
      <3>7. Reachable'
        BY <2>2, <3>4, <3>5, <3>6 DEF Reachable
      <3>8. CreatedMeansAnswerable'
        BY <2>1, <2>2, <3>1 DEF Answerable, CreatedMeansAnswerable
      <3> QED BY <3>7, <3>8 DEF Answerable
    <2> QED BY <2>2, <2>3, <2>4
  <1>4. ASSUME NEW d \in Device, EndBroadcast(d) PROVE Answerable'
    <2>1. pc[d] = "broadcast" /\ pc' = [pc EXCEPT ![d] = "record"]
          /\ UNCHANGED <<status, msg, reached, delivered, result>>
      BY <1>4 DEF EndBroadcast, Goto, storeVars, worldVars
    <2>2. pc'[d] = "record" /\ \A e \in Device : e # d => pc'[e] = pc[e]
      BY <2>1 DEF FlowInv, TypeOK
    <2>3. Reachable'
      BY <2>1, <2>2 DEF Answerable, Reachable
    <2>4. CreatedMeansAnswerable'
      BY <2>1 DEF Answerable, CreatedMeansAnswerable
    <2> QED BY <2>3, <2>4 DEF Answerable
  <1>5. ASSUME NEW d \in Device, Record(d) PROVE Answerable'
    <2> DEFINE x == Head(reached[d])
               m == msg[d]
    <2>1. /\ pc[d] = "record" /\ m \in Message /\ result[m] = "running"
          /\ reached[d] \in Seq(Device) /\ Len(reached[d]) \in Nat \ {0} /\ x = reached[d][1]
          /\ x \in Device
          /\ status' = [status EXCEPT ![m][x] = "SENT"]
          /\ UNCHANGED delivered
      BY <1>5, Recording
    <2>2. /\ status'[m][x] # "none"
          /\ \A n \in Message, y \in Device : status[n][y] # "none" => status'[n][y] # "none"
      BY <2>1 DEF FlowInv, TypeOK
    <2>3. CASE Return(d) /\ Ends(m, "failed")
      <3>1. \A n \in Message : result'[n] \in {"none", "ok"} => result'[n] = result[n]
        BY <2>3 DEF Ends, FlowInv, TypeOK
      <3> QED BY <2>1, <2>2, <2>3, <3>1, ReturnsAnswerable
    <2>4. CASE /\ reached' = [reached EXCEPT ![d] = Tail(reached[d])]
               /\ UNCHANGED <<pc, msg, result>>
      <3>1. /\ \A e \in Device : e # d => reached'[e] = reached[e]
            /\ reached'[d] = Tail(reached[d])
        BY <2>4 DEF FlowInv, TypeOK
      <3>2. /\ Len(Tail(reached[d])) = Len(reached[d]) - 1
            /\ \A i \in 1 .. Len(reached[d]) - 1 : Tail(reached[d])[i] = reached[d][i + 1]
        BY <2>1
      <3>3. ASSUME NEW e \in Device, pc[e] \in {"broadcast", "record"}, NEW y \in delivered[msg[e]]
            PROVE  status'[msg[e]][y] # "none" \/ \E i \in 1 .. Len(reached'[e]) : reached'[e][i] = y
        <4>1. msg[e] \in Message /\ y \in Device
          BY <3>3 DEF FlowInv, TypeOK, Creators, Creating
        <4>2. status[msg[e]][y] # "none" \/ \E i \in 1 .. Len(reached[e]) : reached[e][i] = y
          BY <3>3 DEF Answerable, Reachable
        <4>3. CASE e # d \/ status[msg[e]][y] # "none"
          BY <2>2, <3>1, <4>1, <4>2, <4>3
        <4>4. CASE e = d /\ y = x
          BY <2>2, <4>4
        <4>5. CASE e = d /\ y # x /\ status[msg[e]][y] = "none"
          <5>1. PICK i \in 1 .. Len(reached[d]) : reached[d][i] = y
            BY <4>2, <4>5
          <5>2. i # 1 /\ i - 1 \in 1 .. Len(reached[d]) - 1 /\ (i - 1) + 1 = i
            BY <2>1, <4>5, <5>1
          <5>3. i - 1 \in 1 .. Len(reached'[d]) /\ reached'[d][i - 1] = y
            BY <3>1, <3>2, <5>1, <5>2
          <5> QED BY <4>5, <5>3
        <4> QED BY <4>3, <4>4, <4>5
      <3>4. Reachable'
        BY <2>1, <2>4, <3>3 DEF Answerable, Reachable
      <3>5. CreatedMeansAnswerable'
        <4>1. \A n \in Message : delivered[n] \subseteq Device
          BY DEF FlowInv, TypeOK
        <4> QED BY <2>1, <2>2, <2>4, <4>1 DEF Answerable, CreatedMeansAnswerable
      <3> QED BY <3>4, <3>5 DEF Answerable
    <2> QED BY <1>5, <2>3, <2>4 DEF Record
  <1>6. ASSUME NEW d \in Device, EndCreate(d) PROVE Answerable'
    <2> DEFINE m == msg[d]
    <2>1. /\ pc[d] = "record" /\ m \in Message /\ reached[d] = <<>>
          /\ Return(d) /\ result' = [result EXCEPT ![m] = "ok"]
          /\ UNCHANGED <<status, delivered>>
      BY <1>6 DEF EndCreate, Ends, storeVars, FlowInv, Creators, Creating
    <2>2. /\ pc'[d] = "idle"
          /\ \A e \in Device : e # d => pc'[e] = pc[e] /\ msg'[e] = msg[e] /\ reached'[e] = reached[e]
          /\ \A n \in Message : n # m => result'[n] = result[n]
          /\ result'[m] = "ok"
      BY <2>1 DEF Return, Goto, FlowInv, TypeOK
    <2>3. \A x \in delivered[m] : status[m][x] # "none"
      BY <2>1 DEF Answerable, Reachable
    <2>4. Reachable'
      BY <2>1, <2>2 DEF Answerable, Reachable
    <2>5. CreatedMeansAnswerable'
      BY <2>1, <2>2, <2>3 DEF Answerable, CreatedMeansAnswerable
    <2> QED BY <2>4, <2>5 DEF Answerable
  <1>7. ASSUME NEW d \in Device, NEW m \in Message, Receive(d, m) PROVE Answerable'
    <2>1. \A e \in Device : pc'[e] \in Creating => pc'[e] = pc[e] /\ msg'[e] = msg[e]
      BY <1>7 DEF Receive, Goto, Creating, FlowInv, TypeOK
    <2> QED BY <1>7, <2>1, NothingCreated DEF Receive, storeVars
  <1>8. ASSUME NEW d \in Device, SetRead(d) \/ GetMessage(d) \/ SetUnread(d) PROVE Answerable'
    <2>1. /\ UNCHANGED <<msg, reached, delivered, result>>
          /\ \A e \in Device : pc'[e] \in Creating => pc'[e] = pc[e]
      BY <1>8 DEF SetRead, GetMessage, SetUnread, Goto, Creating, worldVars, FlowInv, TypeOK
    <2>2. \A n \in Message, y \in Device : status[n][y] # "none" => status'[n][y] # "none"
      <3>1. CASE SetRead(d)
        BY <3>1 DEF SetRead, FlowInv, TypeOK
      <3>2. CASE GetMessage(d) \/ SetUnread(d)
        BY <3>2 DEF GetMessage, SetUnread, storeVars
      <3> QED BY <1>8, <3>1, <3>2
    <2> QED BY <2>1, <2>2, NothingCreated
  <1>9. ASSUME NEW d \in Device, Notify(d) PROVE Answerable'
    BY <1>9, ReturnsAnswerable DEF Notify, storeVars, worldVars
  <1>10. ASSUME NEW d \in Device, Fault(d) PROVE Answerable'
    <2>1. \A m \in Message : result'[m] \in {"none", "ok"} => result'[m] = result[m]
      BY <1>10 DEF Fault, Ends, FlowInv, TypeOK
    <2> QED BY <1>10, <2>1, ReturnsAnswerable DEF Fault, storeVars
  <1>11. CASE UNCHANGED vars
    BY <1>11, NothingCreated DEF vars, storeVars, threadVars, worldVars
  <1> QED
    BY <1>1, <1>2, <1>3, <1>4, <1>5, <1>6, <1>7, <1>8, <1>9, <1>10, <1>11
       DEF Next, Client, Handler, Create, Receipt

\* Every device that got a message that was created without an error can acknowledge
\* it, however receipts come in between.
THEOREM CreatedIsAnswerable == Spec => []CreatedMeansAnswerable
  <1>1. Init => Answerable
    BY DEF Init, Answerable, Reachable, CreatedMeansAnswerable
  <1>2. FlowInv /\ Answerable /\ [Next]_vars => Answerable'
    BY AnswerableStep
  <1>3. Answerable => CreatedMeansAnswerable
    BY DEF Answerable
  <1> QED
    BY <1>1, <1>2, <1>3, FlowInvariance, PTL DEF Spec

\* Every variable of MessageFlow keeps its type.
THEOREM TypeCorrect == Spec => []TypeOK
  <1>1. FlowInv => TypeOK
    BY DEF FlowInv
  <1> QED
    BY <1>1, FlowInvariance, PTL
--------------------------------------------------------------------------------
(* What a receipt takes from the count, whatever happens *)

\* The history makes no difference to the flow.
LEMMA HistoryFlows == HistorySpec => Spec
  <1>1. HistoryInit => Init
    BY DEF HistoryInit
  <1>2. [HistoryNext]_HistoryVars => [Next]_vars
    BY DEF HistoryNext, HistoryVars
  <1> QED
    BY <1>1, <1>2, PTL DEF HistorySpec, Spec

\* The receipts of m that may still lower its count, and the number of the others.
Underway(m) == {d \in Device : pc[d] \in {"setRead", "getMessage", "setUnread"} /\ msg[d] = m}
Finished(m) == receipts[m] - Cardinality(Underway(m))

Taken ==
  /\ receipts \in [Message -> Nat]
  /\ \A m \in Message :
       /\ Finished(m) >= 0
       /\ unread[m] # None => unread[m] >= Len(Members) - Finished(m)
       /\ \A d \in Device : pc[d] = "setUnread" /\ msg[d] = m => seen[d] >= Len(Members) - Finished(m)

\* One is added for the message whose receipt arrives, and for no other.
LEMMA ReceiptsAdd ==
  ASSUME FlowInv, receipts \in [Message -> Nat], [HistoryNext]_HistoryVars, NEW m \in Message
  PROVE  /\ receipts' \in [Message -> Nat]
         /\ receipts'[m] = receipts[m] + IF \E d \in Device : Arrives(m, d) THEN 1 ELSE 0
  <1>1. CASE HistoryNext
    BY <1>1 DEF HistoryNext
  <1>2. CASE UNCHANGED HistoryVars
    <2>1. receipts' = receipts /\ acks' = acks
      BY <1>2 DEF HistoryVars, vars, worldVars
    <2>2. \A d \in Device : ~Arrives(m, d)
      BY <2>1 DEF Arrives, FlowInv, TypeOK
    <2> QED BY <2>1, <2>2
  <1> QED BY <1>1, <1>2

\* What a step does to the receipts of m that are under way.
LEMMA UnderwayStep ==
  ASSUME FlowInv, receipts \in [Message -> Nat], [HistoryNext]_HistoryVars, NEW m \in Message
  PROVE  /\ \/ receipts'[m] = receipts[m] /\ Underway(m)' \subseteq Underway(m)
            \/ /\ receipts'[m] = receipts[m] + 1
               /\ \E d \in Device \ Underway(m) : Underway(m)' \subseteq Underway(m) \cup {d}
         /\ \A d \in Device : SetUnread(d) /\ msg[d] = m =>
              /\ d \in Underway(m)
              /\ receipts'[m] = receipts[m] /\ Underway(m)' \subseteq Underway(m) \ {d}
  <1>1. [Next]_vars
    BY DEF HistoryNext, HistoryVars
  <1>2. receipts'[m] = receipts[m] + IF \E d \in Device : Arrives(m, d) THEN 1 ELSE 0
    BY ReceiptsAdd
  <1>3. ASSUME acks' = acks PROVE receipts'[m] = receipts[m]
    BY <1>2, <1>3 DEF Arrives, FlowInv, TypeOK
  <1>4. CASE Aside
    <2>1. receipts'[m] = receipts[m] /\ Underway(m)' \subseteq Underway(m)
      BY <1>3, <1>4 DEF Aside, Underway, Receiving
    <2>2. ASSUME NEW d \in Device, SetUnread(d), msg[d] = m
          PROVE  d \in Underway(m) /\ Underway(m)' \subseteq Underway(m) \ {d}
      <3>1. pc[d] = "setUnread" /\ pc'[d] = "notify"
        BY <2>2 DEF SetUnread, Goto, FlowInv, TypeOK
      <3> QED BY <2>1, <2>2, <3>1 DEF Underway
    <2> QED BY <2>1, <2>2
  <1>5. ASSUME NEW d \in Device, NEW n \in Message, Receive(d, n)
        PROVE  /\ \/ receipts'[m] = receipts[m] /\ Underway(m)' \subseteq Underway(m)
                  \/ /\ receipts'[m] = receipts[m] + 1
                     /\ \E e \in Device \ Underway(m) : Underway(m)' \subseteq Underway(m) \cup {e}
               /\ \A e \in Device : ~SetUnread(e)
    <2>1. /\ pc[d] = "idle"
          /\ acks' = [acks EXCEPT ![n][d] = acks[n][d] + 1]
          /\ \/ UNCHANGED <<pc, msg>>
             \/ pc' = [pc EXCEPT ![d] = "setRead"] /\ msg' = [msg EXCEPT ![d] = n]
      BY <1>5 DEF Receive, LoopFree, Goto
    <2>2. \A e \in Device : e # d => pc'[e] = pc[e] /\ msg'[e] = msg[e]
      BY <2>1 DEF FlowInv, TypeOK
    <2>3. pc'[d] \in {"idle", "setRead"} /\ (pc'[d] = "setRead" => msg'[d] = n)
      BY <2>1 DEF FlowInv, TypeOK
    <2>4. \A e \in Device : ~SetUnread(e)
      <3>1. \A e \in Device : acks[n][d] \in Nat /\ acks'[n][d] = acks[n][d] + 1
        BY <2>1, AcksAssumption DEF FlowInv, TypeOK
      <3> QED BY <3>1 DEF SetUnread, worldVars
    <2>5. CASE n = m
      <3>1. Arrives(m, d)
        BY <2>1, <2>5, AcksAssumption DEF Arrives, FlowInv, TypeOK
      <3>2. d \in Device \ Underway(m) /\ Underway(m)' \subseteq Underway(m) \cup {d}
        BY <2>1, <2>2 DEF Underway
      <3> QED BY <1>2, <2>4, <3>1, <3>2
    <2>6. CASE n # m
      <3>1. \A e \in Device : ~Arrives(m, e)
        BY <2>1, <2>6 DEF Arrives, FlowInv, TypeOK
      <3>2. Underway(m)' \subseteq Underway(m)
        BY <2>2, <2>3, <2>6 DEF Underway
      <3>3. receipts[m] \in Nat
        OBVIOUS
      <3> QED BY <1>2, <2>4, <3>1, <3>2, <3>3
    <2> QED BY <2>5, <2>6
  <1>6. ASSUME NEW d \in Device, SetRead(d) \/ GetMessage(d) \/ SetUnread(d)
        PROVE  /\ receipts'[m] = receipts[m] /\ Underway(m)' \subseteq Underway(m)
               /\ \A e \in Device : SetUnread(e) /\ msg[e] = m =>
                    e \in Underway(m) /\ Underway(m)' \subseteq Underway(m) \ {e}
    <2>1. /\ acks' = acks /\ msg' = msg
          /\ pc[d] \in {"setRead", "getMessage", "setUnread"}
          /\ \A e \in Device : e # d => pc'[e] = pc[e]
      BY <1>6 DEF SetRead, GetMessage, SetUnread, Goto, storeVars, worldVars, FlowInv, TypeOK
    <2>2. Underway(m)' \subseteq Underway(m)
      BY <2>1 DEF Underway
    <2>3. ASSUME NEW e \in Device, SetUnread(e), msg[e] = m
          PROVE  e \in Underway(m) /\ Underway(m)' \subseteq Underway(m) \ {e}
      <3>1. pc[e] = "setUnread" /\ pc'[e] = "notify"
        BY <2>3 DEF SetUnread, Goto, FlowInv, TypeOK
      <3> QED BY <2>2, <2>3, <3>1 DEF Underway
    <2> QED BY <1>3, <2>1, <2>2, <2>3
  <1> QED BY <1>1, <1>4, <1>5, <1>6, StepKinds DEF ReceiptStep

\* The number of receipts that are done with never falls.
LEMMA FinishedGrows ==
  ASSUME IsFiniteSet(Device), FlowInv, receipts \in [Message -> Nat], [HistoryNext]_HistoryVars,
         NEW m \in Message
  PROVE  /\ Finished(m) \in Int /\ Finished(m)' \in Int /\ Finished(m) <= Finished(m)'
         /\ \A d \in Device : SetUnread(d) /\ msg[d] = m => Finished(m) + 1 <= Finished(m)'
  <1>1. IsFiniteSet(Underway(m)) /\ Cardinality(Underway(m)) \in Nat
    BY FS_Subset, FS_CardinalityType DEF Underway
  <1>2. IsFiniteSet(Underway(m)') /\ Cardinality(Underway(m)') \in Nat
    <2>1. Underway(m)' \subseteq Device
      BY DEF Underway
    <2> QED BY <2>1, FS_Subset, FS_CardinalityType
  <1>3. receipts[m] \in Nat /\ receipts'[m] \in Nat
    BY ReceiptsAdd
  <1>4. Finished(m)' = receipts'[m] - Cardinality(Underway(m)')
    BY DEF Finished
  <1>5. CASE receipts'[m] = receipts[m] /\ Underway(m)' \subseteq Underway(m)
    <2>1. Cardinality(Underway(m)') <= Cardinality(Underway(m))
      BY <1>1, <1>5, FS_Subset
    <2>2. ASSUME NEW d \in Device, SetUnread(d), msg[d] = m
          PROVE  Cardinality(Underway(m)') <= Cardinality(Underway(m)) - 1
      <3>1. d \in Underway(m) /\ Underway(m)' \subseteq Underway(m) \ {d}
        BY <2>2, UnderwayStep
      <3>2. /\ IsFiniteSet(Underway(m) \ {d})
            /\ Cardinality(Underway(m) \ {d}) = Cardinality(Underway(m)) - 1
        BY <1>1, <3>1, FS_RemoveElement
      <3>3. Cardinality(Underway(m)') <= Cardinality(Underway(m) \ {d})
        BY <3>1, <3>2, FS_Subset
      <3> QED BY <3>2, <3>3
    <2> QED BY <1>1, <1>2, <1>3, <1>4, <1>5, <2>1, <2>2 DEF Finished
  <1>6. ASSUME receipts'[m] = receipts[m] + 1, NEW d \in Device \ Underway(m),
               Underway(m)' \subseteq Underway(m) \cup {d}
        PROVE  /\ Finished(m) \in Int /\ Finished(m)' \in Int /\ Finished(m) <= Finished(m)'
               /\ \A e \in Device : ~(SetUnread(e) /\ msg[e] = m)
    <2>1. /\ IsFiniteSet(Underway(m) \cup {d})
          /\ Cardinality(Underway(m) \cup {d}) = Cardinality(Underway(m)) + 1
      BY <1>1, FS_AddElement
    <2>2. Cardinality(Underway(m)') <= Cardinality(Underway(m)) + 1
      BY <1>6, <2>1, FS_Subset
    <2>3. \A e \in Device : ~(SetUnread(e) /\ msg[e] = m)
      BY <1>3, <1>6, UnderwayStep
    <2> QED BY <1>1, <1>2, <1>3, <1>4, <1>6, <2>2, <2>3 DEF Finished
  <1> QED BY <1>5, <1>6, UnderwayStep

\* Every step keeps the count above the receipts that are done with.
LEMMA TakenStep ==
  ASSUME IsFiniteSet(Device), FlowInv, Taken, [HistoryNext]_HistoryVars
  PROVE  Taken'
  <1>1. receipts \in [Message -> Nat]
    BY DEF Taken
  <1>2. SUFFICES ASSUME NEW m \in Message
                 PROVE  /\ Finished(m)' >= 0
                        /\ unread'[m] # None => unread'[m] >= Len(Members) - Finished(m)'
                        /\ \A d \in Device : pc'[d] = "setUnread" /\ msg'[d] = m =>
                             seen'[d] >= Len(Members) - Finished(m)'
    <2>1. receipts' \in [Message -> Nat]
      <3>1. CASE Message = {}
        BY <1>1, <3>1 DEF HistoryNext, HistoryVars
      <3>2. CASE Message # {}
        BY <1>1, <3>2, ReceiptsAdd
      <3> QED BY <3>1, <3>2
    <2> QED BY <2>1 DEF Taken
  <1> DEFINE floor == Len(Members) - Finished(m)
             next == Len(Members) - Finished(m)'
  <1>3. [Next]_vars
    BY DEF HistoryNext, HistoryVars
  <1>4. Len(Members) \in Nat
    BY MembersAssumption
  <1>5. Finished(m) >= 0 /\ Finished(m) \in Int /\ Finished(m)' \in Int /\ Finished(m) <= Finished(m)'
    BY <1>1, FinishedGrows DEF Taken
  <1>6. floor \in Int /\ next \in Int /\ next <= floor /\ floor <= Len(Members)
    BY <1>4, <1>5
  <1>7. /\ unread[m] # None => unread[m] >= floor
        /\ \A d \in Device : pc[d] = "setUnread" /\ msg[d] = m => seen[d] >= floor
    BY DEF Taken
  <1>8. \A d \in Device : SetUnread(d) /\ msg[d] = m => next <= floor - 1
    BY <1>1, <1>4, <1>5, FinishedGrows
  <1> HIDE DEF floor, next
  <1>9. /\ unread'[m] # None => unread'[m] >= next
        /\ \A d \in Device : pc'[d] = "setUnread" /\ msg'[d] = m => seen'[d] >= next
    BY <1>3, <1>6, <1>7, <1>8, KeptAbove
  <1> QED
    BY <1>5, <1>9 DEF next

\* A receipt lowers the unread count by one at most: late, repeated, overlapped by the
\* receipts of other event loops, or failing half way.
THEOREM OneForEachReceipt ==
  ASSUME IsFiniteSet(Device)
  PROVE  HistorySpec => []ReceiptTakesOne
  <1>1. HistoryInit => Taken
    <2> SUFFICES ASSUME HistoryInit PROVE Taken
      OBVIOUS
    <2>1. /\ receipts = [m \in Message |-> 0]
          /\ unread = [m \in Message |-> None]
          /\ pc = [d \in Device |-> "idle"]
      BY DEF HistoryInit, Init
    <2>2. \A m \in Message : Underway(m) = {}
      BY <2>1 DEF Underway
    <2>3. \A m \in Message : Finished(m) = 0
      BY <2>1, <2>2, FS_EmptySet DEF Finished
    <2> QED BY <2>1, <2>3 DEF Taken
  <1>2. FlowInv /\ Taken /\ [HistoryNext]_HistoryVars => Taken'
    BY TakenStep
  <1>3. FlowInv /\ Taken => ReceiptTakesOne
    <2> SUFFICES ASSUME FlowInv, Taken, NEW m \in Message, unread[m] # None
                 PROVE  unread[m] >= Len(Members) - receipts[m]
      BY DEF ReceiptTakesOne
    <2>1. Cardinality(Underway(m)) \in Nat
      BY FS_Subset, FS_CardinalityType DEF Underway
    <2>2. /\ unread[m] \in Int /\ receipts[m] \in Nat
          /\ unread[m] >= Len(Members) - (receipts[m] - Cardinality(Underway(m)))
      BY DEF FlowInv, TypeOK, Taken, Finished
    <2>3. Len(Members) \in Nat
      BY MembersAssumption
    <2> QED BY <2>1, <2>2, <2>3
  <1> QED
    BY <1>1, <1>2, <1>3, HistoryFlows, FlowInvariance, PTL DEF HistorySpec
--------------------------------------------------------------------------------
(* What a message keeps that nothing got in the way of *)

\* Where messages that are created, receipts and idle handlers stand.
Accounted ==
  /\ \A m \in Message : result[m] = "running" => \E d \in Device : pc[d] \in Creating /\ msg[d] = m
  /\ \A m \in Message : result[m] = "none" => unread[m] = None
  /\ \A d \in Device : pc[d] = "idle" => msg[d] = None

\* A handler that ends, and its message with it if it was creating one.
LEMMA AccountedReturn ==
  ASSUME FlowInv, Accounted, NEW d \in Device, Return(d), UNCHANGED unread,
         \/ pc[d] \notin Creating /\ UNCHANGED result
         \/ /\ pc[d] \in Creating
            /\ \E how \in {"ok", "failed"} : result' = [result EXCEPT ![msg[d]] = how]
  PROVE  Accounted'
  <1>1. /\ pc'[d] = "idle" /\ msg'[d] = None
        /\ \A e \in Device : e # d => pc'[e] = pc[e] /\ msg'[e] = msg[e]
    BY DEF Return, Goto, FlowInv, TypeOK
  <1>2. ASSUME NEW m \in Message, result'[m] = "running"
        PROVE  \E e \in Device : pc'[e] \in Creating /\ msg'[e] = m
    <2>1. result[m] = "running" /\ ~(pc[d] \in Creating /\ msg[d] = m)
      BY <1>2 DEF FlowInv, TypeOK
    <2>2. PICK e \in Device : pc[e] \in Creating /\ msg[e] = m
      BY <2>1 DEF Accounted
    <2>3. e # d
      BY <2>1, <2>2
    <2> QED BY <1>1, <2>2, <2>3
  <1>3. \A e \in Device : pc'[e] = "idle" => msg'[e] = None
    BY <1>1 DEF Accounted
  <1>4. \A m \in Message : result'[m] = "none" => unread'[m] = None
    BY DEF Accounted, FlowInv, TypeOK
  <1> QED BY <1>2, <1>3, <1>4 DEF Accounted

\* A handler that goes on with its message.
LEMMA AccountedGoesOn ==
  ASSUME FlowInv, Accounted, UNCHANGED <<msg, result>>,
         \A e \in Device : pc[e] \in Creating => pc'[e] \in Creating,
         \A e \in Device : pc'[e] = "idle" => pc[e] = "idle",
         \A m \in Message : result[m] = "none" => unread'[m] = unread[m]
  PROVE  Accounted'
  <1>1. \A m \in Message : result'[m] = "none" => unread'[m] = None
    BY DEF Accounted
  <1>2. ASSUME NEW m \in Message, result'[m] = "running"
        PROVE  \E e \in Device : pc'[e] \in Creating /\ msg'[e] = m
    BY <1>2 DEF Accounted
  <1> QED BY <1>1, <1>2 DEF Accounted

LEMMA AccountedStep == FlowInv /\ Accounted /\ [Next]_vars => Accounted'
  <1> SUFFICES ASSUME FlowInv, Accounted, [Next]_vars PROVE Accounted'
    OBVIOUS
  <1>1. ASSUME NEW d \in Device, NEW m \in Message, CreateMessage(d, m) PROVE Accounted'
    <2>1. /\ pc[d] = "idle" /\ UNCHANGED unread
          /\ result' = [result EXCEPT ![m] = "running"]
          /\ pc'[d] = "index" /\ msg'[d] = m
          /\ \A e \in Device : e # d => pc'[e] = pc[e] /\ msg'[e] = msg[e]
      BY <1>1 DEF CreateMessage, LoopFree, Goto, Ends, storeVars, FlowInv, TypeOK
    <2>2. ASSUME NEW n \in Message, result'[n] = "running"
          PROVE  \E e \in Device : pc'[e] \in Creating /\ msg'[e] = n
      <3>1. CASE n = m
        BY <2>1, <3>1 DEF Creating
      <3>2. CASE n # m
        <4>1. result[n] = "running"
          BY <2>1, <2>2, <3>2 DEF FlowInv, TypeOK
        <4>2. PICK e \in Device : pc[e] \in Creating /\ msg[e] = n
          BY <4>1 DEF Accounted
        <4> QED BY <2>1, <4>2 DEF Creating
      <3> QED BY <3>1, <3>2
    <2>3. \A n \in Message : result'[n] = "none" => unread'[n] = None
      BY <2>1 DEF Accounted, FlowInv, TypeOK
    <2> QED BY <2>1, <2>2, <2>3 DEF Accounted
  <1>2. ASSUME NEW d \in Device, IndexMessage(d) \/ EndBroadcast(d) PROVE Accounted'
    <2>1. /\ pc[d] \in Creating /\ pc' \in {[pc EXCEPT ![d] = "broadcast"], [pc EXCEPT ![d] = "record"]}
          /\ unread' \in {unread, [unread EXCEPT ![msg[d]] = Len(Members)]}
          /\ UNCHANGED <<msg, result>>
      BY <1>2 DEF IndexMessage, EndBroadcast, Goto, Creating, storeVars, worldVars
    <2>2. /\ \A e \in Device : pc[e] \in Creating => pc'[e] \in Creating
          /\ \A e \in Device : pc'[e] = "idle" => pc[e] = "idle"
      BY <2>1 DEF Creating, FlowInv, TypeOK
    <2>3. \A m \in Message : result[m] = "none" => unread'[m] = unread[m]
      BY <2>1 DEF FlowInv, TypeOK, Creators
    <2> QED BY <2>1, <2>2, <2>3, AccountedGoesOn
  <1>3. ASSUME NEW d \in Device, Broadcast(d) PROVE Accounted'
    BY <1>3, AccountedGoesOn DEF Broadcast, storeVars
  <1>4. ASSUME NEW d \in Device, Record(d) PROVE Accounted'
    <2>1. pc[d] = "record" /\ UNCHANGED unread
      BY <1>4, Recording
    <2>2. CASE Return(d) /\ Ends(msg[d], "failed")
      BY <2>1, <2>2, AccountedReturn DEF Ends, Creating
    <2>3. CASE UNCHANGED <<pc, msg, result>>
      BY <2>1, <2>3, AccountedGoesOn
    <2> QED BY <1>4, <2>2, <2>3 DEF Record
  <1>5. ASSUME NEW d \in Device, EndCreate(d) PROVE Accounted'
    BY <1>5, AccountedReturn DEF EndCreate, Ends, Creating, storeVars
  <1>6. ASSUME NEW d \in Device, NEW m \in Message, Receive(d, m) PROVE Accounted'
    <2>1. /\ pc[d] = "idle" /\ UNCHANGED <<unread, result>>
          /\ \/ UNCHANGED <<pc, msg>>
             \/ pc' = [pc EXCEPT ![d] = "setRead"] /\ msg' = [msg EXCEPT ![d] = m]
      BY <1>6 DEF Receive, LoopFree, Goto, storeVars
    <2>2. /\ \A e \in Device : e # d => pc'[e] = pc[e] /\ msg'[e] = msg[e]
          /\ pc'[d] = "idle" => msg'[d] = msg[d]
      BY <2>1 DEF FlowInv, TypeOK
    <2>3. \A n \in Message : result'[n] = "none" => unread'[n] = None
      BY <2>1 DEF Accounted
    <2>4. ASSUME NEW n \in Message, result'[n] = "running"
          PROVE  \E e \in Device : pc'[e] \in Creating /\ msg'[e] = n
      <3>1. PICK e \in Device : pc[e] \in Creating /\ msg[e] = n
        BY <2>1, <2>4 DEF Accounted
      <3> QED BY <2>1, <2>2, <3>1 DEF Creating
    <2> QED BY <2>1, <2>2, <2>3, <2>4 DEF Accounted
  <1>7. ASSUME NEW d \in Device, SetRead(d) \/ GetMessage(d) \/ SetUnread(d) PROVE Accounted'
    <2>1. /\ pc[d] \in Receiving /\ UNCHANGED <<msg, result>>
          /\ \E step \in Receiving : pc' = [pc EXCEPT ![d] = step]
          /\ \A m \in Message : m # msg[d] => unread'[m] = unread[m]
      BY <1>7 DEF SetRead, GetMessage, SetUnread, Goto, Receiving, storeVars, worldVars, FlowInv, TypeOK
    <2>2. /\ \A e \in Device : pc[e] \in Creating => pc'[e] \in Creating
          /\ \A e \in Device : pc'[e] = "idle" => pc[e] = "idle"
      BY <2>1 DEF Creating, Receiving, FlowInv, TypeOK
    <2>3. result[msg[d]] # "none"
      BY <2>1 DEF FlowInv, Answered, Unsent
    <2> QED BY <2>1, <2>2, <2>3, AccountedGoesOn
  <1>8. ASSUME NEW d \in Device, Notify(d) PROVE Accounted'
    BY <1>8, AccountedReturn DEF Notify, Creating, storeVars, worldVars
  <1>9. ASSUME NEW d \in Device, Fault(d) PROVE Accounted'
    BY <1>9, AccountedReturn DEF Fault, Ends, storeVars
  <1>10. CASE UNCHANGED vars
    BY <1>10, AccountedGoesOn DEF vars, storeVars, threadVars, worldVars
  <1> QED
    BY <1>1, <1>2, <1>3, <1>4, <1>5, <1>6, <1>7, <1>8, <1>9, <1>10
       DEF Next, Client, Handler, Create, Receipt

Reading(m) == {d \in Device : pc[d] = "setRead" /\ msg[d] = m}

\* m is not stored yet, or is still being created.
Early(m) == unread[m] = None \/ \E d \in Device : msg[d] = m /\ pc[d] \in Creating

\* Of a clean message one frame is handled at a time, none before it is created; and its
\* statuses and its count are those of the receipts so far that found a status, but for
\* the one that is being handled.
Orderly(m) ==
  /\ \A d, e \in Device : msg[d] = m /\ msg[e] = m => d = e
  /\ result[m] # "failed"
  /\ Early(m) => Acked(m) = {}
  /\ Readers(m) = Heeded(m) \ Reading(m)
  /\ unread[m] # None => unread[m] = Len(Members) - Cardinality(Heeded(m) \ Underway(m))
  /\ \A d \in Device : pc[d] = "setUnread" /\ msg[d] = m => seen[d] = unread[m]

CleanInv == clean \subseteq Message /\ \A m \in clean : Orderly(m)

\* A step that leaves the receipts of m where they are.
LEMMA OrderlyStays ==
  ASSUME NEW m \in Message, Orderly(m),
         \A d, e \in Device : msg'[d] = m /\ msg'[e] = m => d = e,
         \A d \in Device : \A step \in {"setRead", "getMessage", "setUnread"} :
           pc'[d] = step /\ msg'[d] = m <=> pc[d] = step /\ msg[d] = m,
         \A d \in Device : pc'[d] = "setUnread" /\ msg'[d] = m => seen'[d] = seen[d],
         Early(m)' => Early(m) /\ Acked(m)' = Acked(m),
         Readers(m)' = Readers(m), Heeded(m)' = Heeded(m), unread'[m] = unread[m],
         result'[m] # "failed"
  PROVE  Orderly(m)'
  <1>1. Underway(m)' = Underway(m)
    BY DEF Underway
  <1>2. Reading(m)' = Reading(m)
    BY DEF Reading
  <1> QED BY <1>1, <1>2 DEF Orderly

\* In particular, when one handler goes on or ends that is at none of its receipts.
LEMMA OrderlyBeside ==
  ASSUME FlowInv, NEW m \in Message, Orderly(m), NEW d \in Device,
         ~(msg[d] = m /\ pc[d] \in {"setRead", "getMessage", "setUnread"}),
         ~(msg'[d] = m /\ pc'[d] \in {"setRead", "getMessage", "setUnread"}),
         msg'[d] = m => msg[d] = m /\ (pc'[d] \in Creating => pc[d] \in Creating),
         \A e \in Device : e # d => pc'[e] = pc[e] /\ msg'[e] = msg[e] /\ seen'[e] = seen[e],
         Readers(m)' = Readers(m), Heeded(m)' = Heeded(m), acks'[m] = acks[m], unread'[m] = unread[m],
         result'[m] # "failed"
  PROVE  Orderly(m)'
  <1>1. \A e, f \in Device : msg'[e] = m /\ msg'[f] = m => e = f
    BY DEF Orderly
  <1>2. \A e \in Device : \A step \in {"setRead", "getMessage", "setUnread"} :
          pc'[e] = step /\ msg'[e] = m <=> pc[e] = step /\ msg[e] = m
    OBVIOUS
  <1>3. \A e \in Device : pc'[e] = "setUnread" /\ msg'[e] = m => seen'[e] = seen[e]
    OBVIOUS
  <1>4. Acked(m)' = Acked(m)
    BY DEF Acked
  <1>5. Early(m)' => Early(m)
    BY DEF Early
  <1> QED BY <1>1, <1>2, <1>3, <1>4, <1>5, OrderlyStays

\* A handler that ends, but not in the middle of a receipt of m.
LEMMA OrderlyReturn ==
  ASSUME FlowInv, NEW m \in Message, Orderly(m), NEW d \in Device, Return(d),
         ~(msg[d] = m /\ pc[d] \in {"setRead", "getMessage", "setUnread"}),
         Readers(m)' = Readers(m), Heeded(m)' = Heeded(m), UNCHANGED <<acks, unread>>,
         result'[m] # "failed"
  PROVE  Orderly(m)'
  <1>1. /\ pc'[d] = "idle" /\ msg'[d] = None
        /\ \A e \in Device : e # d => pc'[e] = pc[e] /\ msg'[e] = msg[e] /\ seen'[e] = seen[e]
    BY DEF Return, Goto, FlowInv, TypeOK
  <1>2. msg'[d] # m
    BY <1>1, NoneAssumption
  <1> QED BY <1>1, <1>2, OrderlyBeside

\* A receipt that arrives when the message is created and nobody works on it: without a
\* status it changes nothing, with one it is the only receipt of the message.
LEMMA OrderlyReceive ==
  ASSUME IsFiniteSet(Device), FlowInv, NEW m \in Message, Orderly(m), ~Mishap(m),
         NEW d \in Device, Receive(d, m)
  PROVE  Orderly(m)'
  <1>1. /\ pc[d] = "idle"
        /\ acks' = [acks EXCEPT ![m][d] = acks[m][d] + 1]
        /\ \/ status[m][d] = "none" /\ UNCHANGED <<pc, msg>>
           \/ status[m][d] # "none" /\ pc' = [pc EXCEPT ![d] = "setRead"] /\ msg' = [msg EXCEPT ![d] = m]
        /\ UNCHANGED <<unread, status, seen, result>>
    BY DEF Receive, LoopFree, Goto, storeVars
  <1>2. acks[m][d] \in Nat /\ acks'[m][d] = acks[m][d] + 1 /\ \A e \in Device : e # d => acks'[m][e] = acks[m][e]
    <2>1. acks \in [Message -> [Device -> Nat]]
      BY AcksAssumption DEF FlowInv, TypeOK
    <2> QED BY <1>1, <2>1
  <1>3. ~Busy(m) /\ acks[m][d] = 0 /\ unread[m] # None
    BY <1>2 DEF Mishap, Arrives
  <1>4. d \notin Acked(m) /\ Acked(m)' = Acked(m) \cup {d}
    <2>1. acks'[m][d] > 0 /\ ~(acks[m][d] > 0)
      BY <1>2, <1>3
    <2> QED BY <1>2, <2>1 DEF Acked
  <1>5. result'[m] # "failed"
    BY <1>1 DEF Orderly
  <1>6. Readers(m)' = Readers(m)
    BY <1>1 DEF Readers
  <1>7. CASE status[m][d] = "none"
    <2>1. UNCHANGED <<pc, msg>>
      BY <1>1, <1>7
    <2>2. Heeded(m)' = Heeded(m)
      BY <1>1, <1>4, <1>7 DEF Heeded
    <2>3. ~Early(m)'
      BY <1>1, <1>3, <2>1 DEF Early, Busy
    <2>4. \A e, f \in Device : msg'[e] = m /\ msg'[f] = m => e = f
      BY <2>1 DEF Orderly
    <2> QED BY <1>1, <1>5, <1>6, <2>1, <2>2, <2>3, <2>4, OrderlyStays
  <1>8. CASE status[m][d] # "none"
    <2>1. /\ pc'[d] = "setRead" /\ msg'[d] = m
          /\ \A e \in Device : e # d => pc'[e] = pc[e] /\ msg'[e] = msg[e]
      BY <1>1, <1>8 DEF FlowInv, TypeOK
    <2>2. \A e \in Device : e # d => msg'[e] # m
      BY <1>3, <2>1 DEF Busy
    <2>3. Reading(m) = {} /\ Underway(m) = {} /\ Reading(m)' = {d} /\ Underway(m)' = {d}
      <3>1. Reading(m) = {} /\ Underway(m) = {}
        BY <1>3 DEF Busy, Reading, Underway
      <3>2. Reading(m)' = {d} /\ Underway(m)' = {d}
        BY <2>1, <2>2 DEF Reading, Underway
      <3> QED BY <3>1, <3>2
    <2>4. d \notin Heeded(m) /\ Heeded(m)' = Heeded(m) \cup {d}
      BY <1>1, <1>4, <1>8 DEF Heeded
    <2>5. Heeded(m)' \ {d} = Heeded(m) /\ Heeded(m) \ {} = Heeded(m)
      BY <2>4
    <2>6. Readers(m)' = Heeded(m)' \ Reading(m)'
      BY <1>6, <2>3, <2>5 DEF Orderly
    <2>7. unread'[m] # None => unread'[m] = Len(Members) - Cardinality(Heeded(m)' \ Underway(m)')
      BY <1>1, <2>3, <2>5 DEF Orderly
    <2>8. ~Early(m)'
      BY <1>1, <1>3, <2>1, <2>2 DEF Early, Creating
    <2>9. \A e, f \in Device : msg'[e] = m /\ msg'[f] = m => e = f
      BY <2>2
    <2>10. \A e \in Device : pc'[e] = "setUnread" /\ msg'[e] = m => seen'[e] = unread'[m]
      BY <2>1, <2>2
    <2> QED BY <1>5, <2>6, <2>7, <2>8, <2>9, <2>10 DEF Orderly
  <1> QED BY <1>7, <1>8

\* The only receipt of a message goes through its steps.
LEMMA OrderlyReceipt ==
  ASSUME IsFiniteSet(Device), FlowInv, Once, NEW m \in Message, Orderly(m),
         NEW d \in Device, msg[d] = m, SetRead(d) \/ GetMessage(d) \/ SetUnread(d)
  PROVE  Orderly(m)'
  <1>1. /\ pc[d] \in {"setRead", "getMessage", "setUnread"}
        /\ UNCHANGED <<msg, acks, result>>
        /\ \A e \in Device : e # d => pc'[e] = pc[e] /\ seen'[e] = seen[e]
    BY DEF SetRead, GetMessage, SetUnread, Goto, storeVars, worldVars, FlowInv, TypeOK
  <1>2. \A e \in Device : msg[e] = m <=> e = d
    BY DEF Orderly
  <1>3. Heeded(m)' = Heeded(m)
    <2>1. \A x \in Device : status'[m][x] = "none" <=> status[m][x] = "none"
      <3>1. status[m][d] # "none"
        BY <1>1 DEF FlowInv, Answered, Receiving
      <3> QED BY <3>1 DEF SetRead, GetMessage, SetUnread, storeVars, FlowInv, TypeOK
    <2> QED BY <1>1, <2>1 DEF Heeded, Acked
  <1>4. d \in Heeded(m) /\ unread[m] # None
    <2>1. status[m][d] # "none" /\ acks[m][d] # 0 /\ acks[m][d] \in Nat
      BY <1>1, AcksAssumption DEF FlowInv, Answered, Once, Receiving, TypeOK
    <2>2. acks[m][d] > 0
      BY <2>1
    <2> QED BY <2>1, <2>2 DEF Heeded, Acked, FlowInv, Stored
  <1>5. ~Early(m)'
    <2>1. unread'[m] # None
      <3>1. seen[d] - 1 # None \/ pc[d] # "setUnread"
        BY <1>1, NoneAssumption DEF FlowInv, Answered, Receiving
      <3> QED BY <1>4, <3>1 DEF SetRead, GetMessage, SetUnread, storeVars, FlowInv, TypeOK
    <2>2. pc'[d] \notin Creating
      BY DEF SetRead, GetMessage, SetUnread, Goto, Creating, FlowInv, TypeOK
    <2> QED BY <1>1, <1>2, <2>1, <2>2 DEF Early
  <1>6. result'[m] # "failed" /\ \A e, f \in Device : msg'[e] = m /\ msg'[f] = m => e = f
    BY <1>1 DEF Orderly
  <1>7. CASE SetRead(d)
    <2>1. pc[d] = "setRead" /\ pc'[d] = "getMessage" /\ unread' = unread
      BY <1>7 DEF SetRead, Goto, FlowInv, TypeOK
    <2>2. Reading(m) = {d} /\ Reading(m)' = {}
      BY <1>1, <1>2, <2>1 DEF Reading
    <2>3. Underway(m)' = Underway(m)
      BY <1>1, <1>2, <2>1 DEF Underway
    <2>4. Readers(m)' = Readers(m) \cup {d}
      BY <1>7, SetReadReads DEF Readers
    <2>5. Readers(m)' = Heeded(m) \ {}
      BY <1>4, <2>2, <2>4 DEF Orderly
    <2>6. \A e \in Device : ~(pc'[e] = "setUnread" /\ msg'[e] = m)
      BY <1>1, <1>2, <2>1
    <2> QED BY <1>3, <1>5, <1>6, <2>1, <2>2, <2>3, <2>5, <2>6 DEF Orderly
  <1>8. CASE GetMessage(d)
    <2>1. pc[d] = "getMessage" /\ pc'[d] = "setUnread" /\ seen'[d] = unread[m] /\ UNCHANGED <<unread, status>>
      BY <1>8 DEF GetMessage, Goto, storeVars, FlowInv, TypeOK
    <2>2. Reading(m)' = Reading(m) /\ Underway(m)' = Underway(m) /\ Readers(m)' = Readers(m)
      BY <1>1, <1>2, <2>1 DEF Reading, Underway, Readers
    <2>3. \A e \in Device : msg'[e] = m => seen'[e] = unread'[m]
      BY <1>1, <1>2, <2>1
    <2> QED BY <1>3, <1>5, <1>6, <2>1, <2>2, <2>3 DEF Orderly
  <1>9. CASE SetUnread(d)
    <2>1. pc[d] = "setUnread" /\ pc'[d] = "notify" /\ unread'[m] = seen[d] - 1 /\ status' = status
      BY <1>9 DEF SetUnread, Goto, FlowInv, TypeOK
    <2>2. Underway(m) = {d} /\ Underway(m)' = {}
      BY <1>1, <1>2, <2>1 DEF Underway
    <2>3. Reading(m)' = Reading(m) /\ Readers(m)' = Readers(m)
      BY <1>1, <1>2, <2>1 DEF Reading, Readers
    <2>4. seen[d] = unread[m] /\ unread[m] # None
      BY <2>1 DEF Orderly, FlowInv, Answered, Stored, Receiving
    <2>5. seen[d] = Len(Members) - Cardinality(Heeded(m) \ {d})
      BY <2>2, <2>4 DEF Orderly
    <2>6. IsFiniteSet(Heeded(m)) /\ Cardinality(Heeded(m)) \in Nat
      BY FS_Subset, FS_CardinalityType DEF Heeded, Acked
    <2>7. Cardinality(Heeded(m) \ {d}) = Cardinality(Heeded(m)) - 1
      BY <1>4, <2>6, FS_RemoveElement
    <2>8. Heeded(m)' \ Underway(m)' = Heeded(m)
      BY <1>3, <2>2
    <2>9. unread'[m] = Len(Members) - Cardinality(Heeded(m))
      BY <2>1, <2>5, <2>6, <2>7, MembersAssumption
    <2>10. \A e \in Device : ~(pc'[e] = "setUnread" /\ msg'[e] = m)
      BY <1>1, <1>2, <2>1
    <2> QED BY <1>3, <1>5, <1>6, <2>3, <2>8, <2>9, <2>10 DEF Orderly
  <1> QED BY <1>7, <1>8, <1>9

\* Every step keeps a message in order that is no mishap of it.
LEMMA OrderlyStep ==
  ASSUME IsFiniteSet(Device), FlowInv, Once, Accounted, Next,
         NEW m \in Message, Orderly(m), ~Mishap(m)
  PROVE  Orderly(m)'
  <1>1. ASSUME NEW d \in Device, NEW n \in Message, CreateMessage(d, n) PROVE Orderly(m)'
    <2>1. /\ pc[d] = "idle" /\ result[n] = "none" /\ UNCHANGED <<unread, status, seen, acks>>
          /\ result' = [result EXCEPT ![n] = "running"]
          /\ pc'[d] = "index" /\ msg'[d] = n
          /\ \A e \in Device : e # d => pc'[e] = pc[e] /\ msg'[e] = msg[e]
      BY <1>1 DEF CreateMessage, LoopFree, Goto, Ends, storeVars, FlowInv, TypeOK
    <2>2. result'[m] # "failed" /\ Readers(m)' = Readers(m) /\ Heeded(m)' = Heeded(m)
      BY <2>1 DEF Orderly, Readers, Heeded, Acked, FlowInv, TypeOK
    <2>3. CASE n = m
      <3>1. ASSUME NEW e \in Device, msg[e] = m PROVE FALSE
        <4>1. pc[e] # "idle"
          BY <3>1, NoneAssumption DEF Accounted
        <4>2. pc[e] \notin Creating
          BY <2>1, <2>3, <3>1 DEF FlowInv, Creators
        <4>3. pc[e] \notin Receiving
          BY <2>1, <2>3, <3>1 DEF FlowInv, Answered, Unsent
        <4> QED BY <4>1, <4>2, <4>3 DEF FlowInv, TypeOK
      <3>2. \A e, f \in Device : msg'[e] = m /\ msg'[f] = m => e = f
        BY <2>1, <3>1
      <3>3. \A e \in Device : \A step \in {"setRead", "getMessage", "setUnread"} :
              pc'[e] = step /\ msg'[e] = m <=> pc[e] = step /\ msg[e] = m
        BY <2>1, <3>1
      <3>4. Early(m) /\ Acked(m)' = Acked(m)
        BY <2>1, <2>3 DEF Accounted, Early, Acked
      <3> QED BY <2>1, <2>2, <3>2, <3>3, <3>4, OrderlyStays
    <2>4. CASE n # m
      BY <2>1, <2>2, <2>4, OrderlyBeside
    <2> QED BY <2>3, <2>4
  <1>2. ASSUME NEW d \in Device, IndexMessage(d) PROVE Orderly(m)'
    <2>1. /\ pc[d] = "index" /\ pc'[d] = "broadcast" /\ UNCHANGED <<status, msg, seen, acks, result>>
          /\ unread' = [unread EXCEPT ![msg[d]] = Len(Members)]
          /\ \A e \in Device : e # d => pc'[e] = pc[e]
      BY <1>2 DEF IndexMessage, Goto, worldVars, FlowInv, TypeOK
    <2>2. result'[m] # "failed" /\ Readers(m)' = Readers(m) /\ Heeded(m)' = Heeded(m)
      BY <2>1 DEF Orderly, Readers, Heeded, Acked
    <2>3. CASE msg[d] # m
      <3>1. unread'[m] = unread[m]
        BY <2>1, <2>3 DEF FlowInv, TypeOK
      <3> QED BY <2>1, <2>2, <2>3, <3>1, OrderlyBeside
    <2>4. CASE msg[d] = m
      <3>1. Acked(m) = {}
        BY <2>1, <2>4 DEF Orderly, Early, Creating
      <3>2. Acked(m)' = {} /\ Heeded(m) = {} /\ Heeded(m)' = {} /\ Reading(m)' = Reading(m)
        BY <2>1, <3>1 DEF Acked, Heeded, Reading
      <3>3. unread'[m] = Len(Members) /\ Len(Members) \in Nat
        BY <2>1, <2>4, MembersAssumption DEF FlowInv, TypeOK
      <3>4. Cardinality(Heeded(m)' \ Underway(m)') = 0
        <4>1. Heeded(m)' \ Underway(m)' = {}
          BY <3>2
        <4> QED BY <4>1, FS_EmptySet
      <3>5. \A e \in Device : ~(pc'[e] = "setUnread" /\ msg'[e] = m)
        BY <2>1, <2>4 DEF Orderly
      <3>6. unread'[m] = Len(Members) - Cardinality(Heeded(m)' \ Underway(m)')
        BY <3>3, <3>4
      <3>7. Readers(m)' = Heeded(m)' \ Reading(m)'
        BY <2>2, <3>1, <3>2 DEF Orderly
      <3>8. \A e, f \in Device : msg'[e] = m /\ msg'[f] = m => e = f
        BY <2>1 DEF Orderly
      <3> QED BY <2>2, <3>2, <3>5, <3>6, <3>7, <3>8 DEF Orderly
    <2> QED BY <2>3, <2>4
  <1>3. ASSUME NEW d \in Device, Broadcast(d) \/ EndBroadcast(d) PROVE Orderly(m)'
    <2>1. /\ pc[d] = "broadcast" /\ pc'[d] \in {"broadcast", "record"}
          /\ UNCHANGED <<unread, status, msg, seen, acks, result>>
          /\ \A e \in Device : e # d => pc'[e] = pc[e]
      BY <1>3 DEF Broadcast, EndBroadcast, Goto, storeVars, worldVars, FlowInv, TypeOK
    <2>2. result'[m] # "failed" /\ Readers(m)' = Readers(m) /\ Heeded(m)' = Heeded(m)
      BY <2>1 DEF Orderly, Readers, Heeded, Acked
    <2> QED BY <2>1, <2>2, OrderlyBeside DEF Creating
  <1>4. ASSUME NEW d \in Device, Record(d) PROVE Orderly(m)'
    <2> DEFINE x == Head(reached[d])
    <2>1. /\ pc[d] = "record" /\ msg[d] \in Message /\ result[msg[d]] = "running" /\ x \in Device
          /\ status' = [status EXCEPT ![msg[d]][x] = "SENT"]
          /\ UNCHANGED <<unread, delivered, acks>>
      BY <1>4, Recording
    <2>2. msg[d] # m => status'[m] = status[m]
      BY <2>1 DEF FlowInv, TypeOK
    <2>3. CASE Return(d) /\ Ends(msg[d], "failed")
      <3>1. msg[d] # m
        BY <2>1, <2>3 DEF Ends, Mishap, FlowInv, TypeOK
      <3>2. result'[m] # "failed" /\ Readers(m)' = Readers(m) /\ Heeded(m)' = Heeded(m)
        BY <2>1, <2>2, <2>3, <3>1 DEF Ends, Orderly, Readers, Heeded, Acked, FlowInv, TypeOK
      <3> QED BY <2>1, <2>3, <3>1, <3>2, OrderlyReturn
    <2>4. CASE status[msg[d]][x] = "none" /\ UNCHANGED <<pc, msg, seen, rest, result>>
      <3>1. Readers(m)' = Readers(m)
        BY <2>1, <2>2, <2>4 DEF Readers, FlowInv, TypeOK
      <3>3. Heeded(m)' = Heeded(m)
        <4>1. CASE msg[d] = m
          <5>1. Acked(m) = {}
            BY <2>1, <4>1 DEF Orderly, Early, Creating
          <5> QED BY <2>1, <5>1 DEF Heeded, Acked
        <4>2. CASE msg[d] # m
          BY <2>1, <2>2, <4>2 DEF Heeded, Acked
        <4> QED BY <4>1, <4>2
      <3>2. result'[m] # "failed"
        BY <2>4 DEF Orderly
      <3> QED BY <2>1, <2>4, <3>1, <3>2, <3>3, OrderlyBeside
    <2> QED BY <1>4, <2>3, <2>4 DEF Record
  <1>5. ASSUME NEW d \in Device, EndCreate(d) PROVE Orderly(m)'
    <2>1. /\ pc[d] = "record" /\ Return(d) /\ UNCHANGED <<unread, status, acks>>
          /\ result' = [result EXCEPT ![msg[d]] = "ok"]
      BY <1>5 DEF EndCreate, Ends, storeVars
    <2>2. result'[m] # "failed" /\ Readers(m)' = Readers(m) /\ Heeded(m)' = Heeded(m)
      BY <2>1 DEF Orderly, Readers, Heeded, Acked, FlowInv, TypeOK
    <2> QED BY <2>1, <2>2, OrderlyReturn
  <1>6. ASSUME NEW d \in Device, NEW n \in Message, Receive(d, n) PROVE Orderly(m)'
    <2>1. CASE n = m
      BY <1>6, <2>1, OrderlyReceive
    <2>2. CASE n # m
      <3>1. /\ pc[d] = "idle" /\ UNCHANGED <<unread, status, seen, result>>
            /\ acks' = [acks EXCEPT ![n][d] = acks[n][d] + 1]
            /\ \/ UNCHANGED <<pc, msg>>
               \/ pc' = [pc EXCEPT ![d] = "setRead"] /\ msg' = [msg EXCEPT ![d] = n]
        BY <1>6 DEF Receive, LoopFree, Goto, storeVars
      <3>2. /\ \A e \in Device : e # d => pc'[e] = pc[e] /\ msg'[e] = msg[e]
            /\ msg'[d] = m => msg[d] = m /\ pc'[d] = "idle"
        BY <2>2, <3>1 DEF FlowInv, TypeOK
      <3>3. acks'[m] = acks[m]
        BY <2>2, <3>1 DEF FlowInv, TypeOK
      <3>4. result'[m] # "failed" /\ Readers(m)' = Readers(m) /\ Heeded(m)' = Heeded(m)
        BY <3>1, <3>3 DEF Orderly, Readers, Heeded, Acked
      <3> QED BY <3>1, <3>2, <3>3, <3>4, OrderlyBeside
    <2> QED BY <2>1, <2>2
  <1>7. ASSUME NEW d \in Device, SetRead(d) \/ GetMessage(d) \/ SetUnread(d) PROVE Orderly(m)'
    <2>1. CASE msg[d] = m
      BY <1>7, <2>1, OrderlyReceipt
    <2>2. CASE msg[d] # m
      <3>1. /\ UNCHANGED <<msg, acks, result>>
            /\ \A e \in Device : e # d => pc'[e] = pc[e] /\ seen'[e] = seen[e]
        BY <1>7 DEF SetRead, GetMessage, SetUnread, Goto, storeVars, worldVars, FlowInv, TypeOK
      <3>2. unread'[m] = unread[m]
        BY <1>7, <2>2 DEF SetRead, GetMessage, SetUnread, storeVars, FlowInv, TypeOK
      <3>3. Readers(m)' = Readers(m)
        <4>1. CASE SetRead(d)
          BY <2>2, <4>1, SetReadReads DEF Readers
        <4>2. CASE GetMessage(d) \/ SetUnread(d)
          BY <4>2 DEF GetMessage, SetUnread, storeVars, Readers
        <4> QED BY <1>7, <4>1, <4>2
      <3>4. result'[m] # "failed" /\ Heeded(m)' = Heeded(m)
        <4>1. status'[m] = status[m]
          BY <1>7, <2>2 DEF SetRead, GetMessage, SetUnread, storeVars, FlowInv, TypeOK
        <4> QED BY <3>1, <4>1 DEF Orderly, Heeded, Acked
      <3> QED BY <2>2, <3>1, <3>2, <3>3, <3>4, OrderlyBeside
    <2> QED BY <2>1, <2>2
  <1>8. ASSUME NEW d \in Device, Notify(d) PROVE Orderly(m)'
    <2>1. pc[d] = "notify" /\ Return(d) /\ UNCHANGED <<unread, status, acks, result>>
      BY <1>8 DEF Notify, storeVars, worldVars
    <2>2. result'[m] # "failed" /\ Readers(m)' = Readers(m) /\ Heeded(m)' = Heeded(m)
      BY <2>1 DEF Orderly, Readers, Heeded, Acked
    <2> QED BY <2>1, <2>2, OrderlyReturn
  <1>9. ASSUME NEW d \in Device, Fault(d) PROVE Orderly(m)'
    <2>1. /\ Return(d) /\ UNCHANGED <<unread, status, acks>>
          /\ pc[d] \in {"index", "broadcast", "record", "setRead", "getMessage", "setUnread"}
      BY <1>9 DEF Fault, storeVars
    <2>2. pc'[d] = "idle"
      BY <2>1 DEF Return, Goto, FlowInv, TypeOK
    <2>3. IF pc[d] \in Creating THEN result' = [result EXCEPT ![msg[d]] = "failed"] ELSE result' = result
      BY <1>9 DEF Fault, Ends
    <2>4. msg[d] # m
      <3>1. CASE pc[d] \in Creating
        BY <2>3, <3>1 DEF Mishap, FlowInv, TypeOK, Creators
      <3>2. CASE pc[d] \notin Creating
        BY <2>1, <2>2, <3>2 DEF Mishap, Creating, Receiving
      <3> QED BY <3>1, <3>2
    <2>5. result'[m] # "failed" /\ Readers(m)' = Readers(m) /\ Heeded(m)' = Heeded(m)
      BY <2>1, <2>3, <2>4 DEF Orderly, Readers, Heeded, Acked, FlowInv, TypeOK
    <2> QED BY <2>1, <2>4, <2>5, OrderlyReturn
  <1> QED
    BY <1>1, <1>2, <1>3, <1>4, <1>5, <1>6, <1>7, <1>8, <1>9
       DEF Next, Client, Handler, Create, Receipt

LEMMA CleanStep ==
  ASSUME IsFiniteSet(Device), FlowInv, Once, Accounted, CleanInv, [HistoryNext]_HistoryVars
  PROVE  CleanInv'
  <1>1. CASE HistoryNext
    <2>1. Next /\ clean' = {m \in clean : ~Mishap(m)}
      BY <1>1 DEF HistoryNext
    <2>2. ASSUME NEW m \in clean' PROVE Orderly(m)'
      BY <2>1, OrderlyStep DEF CleanInv
    <2> QED BY <2>1, <2>2 DEF CleanInv
  <1>2. CASE UNCHANGED HistoryVars
    BY <1>2 DEF HistoryVars, vars, storeVars, threadVars, worldVars, CleanInv, Orderly, Early, Readers,
         Acked, Heeded, Reading, Underway
  <1> QED BY <1>1, <1>2

\* A message whose handlers neither overlapped nor failed counts each receipt that found
\* a status: its readers are the devices that sent these, and its count leaves out just
\* those.
THEOREM CleanCounts ==
  ASSUME IsFiniteSet(Device)
  PROVE  HistorySpec => []ReceiptsCount
  <1>1. HistoryInit => Once /\ Accounted
    BY DEF HistoryInit, Init, Once, Receiving, Accounted
  <1>2. HistoryInit => CleanInv
    BY NoneAssumption
       DEF HistoryInit, Init, CleanInv, Orderly, Readers, Acked, Heeded, Reading
  <1>3. FlowInv /\ Once /\ [HistoryNext]_HistoryVars => Once'
    BY OnceStep DEF HistoryNext, HistoryVars
  <1>4. FlowInv /\ Accounted /\ [HistoryNext]_HistoryVars => Accounted'
    BY AccountedStep DEF HistoryNext, HistoryVars
  <1>5. FlowInv /\ Once /\ Accounted /\ CleanInv /\ [HistoryNext]_HistoryVars => CleanInv'
    BY CleanStep
  <1>6. CleanInv => ReceiptsCount
    <2> SUFFICES ASSUME CleanInv, NEW m \in clean, unread[m] # None, ~Busy(m)
                 PROVE  Readers(m) = Heeded(m) /\ unread[m] = Len(Members) - Cardinality(Heeded(m))
      BY DEF ReceiptsCount
    <2>1. Reading(m) = {} /\ Underway(m) = {}
      BY DEF Busy, Reading, Underway
    <2>2. Heeded(m) \ {} = Heeded(m)
      OBVIOUS
    <2> QED BY <2>1, <2>2 DEF CleanInv, Orderly
  <1> QED
    BY <1>1, <1>2, <1>3, <1>4, <1>5, <1>6, HistoryFlows, FlowInvariance, PTL DEF HistorySpec
--------------------------------------------------------------------------------

\* The lists of a broadcast that runs are those of its caller.
Running(d) ==
  pc[d] = "broadcast" =>
    /\ msg[d] \in Message
    /\ StageOf(msg[d]) = "on"
    /\ Lefts[msg[d]] = rest[d]
    /\ Serveds[msg[d]] = reached[d]

Resting(m) == StageOf(m) # "on" => Lefts[m] = <<>> /\ Serveds[m] = <<>>

\* No handler is creating m.
Unattended(m) == \A d \in Device : pc[d] \in Creating => msg[d] # m

StageByResult(m) ==
  StageOf(m) = IF result[m] = "none" THEN "new" ELSE IF result[m] = "failed" THEN "failed" ELSE "done"

\* Where the round of a message stands, by its creator, or by its result without one.
RoundsStand ==
  /\ \A d \in Device :
       /\ Running(d)
       /\ pc[d] = "index" => StageOf(msg[d]) = "new"
       /\ pc[d] = "record" => StageOf(msg[d]) = "done"
  /\ \A m \in Message : Resting(m) /\ (Unattended(m) => StageByResult(m))

LEMMA RoundsFollow == FlowInv => RoundsStand
  <1> SUFFICES ASSUME FlowInv PROVE RoundsStand
    OBVIOUS
  <1>1. ASSUME NEW d \in Device PROVE Running(d)
    <2> SUFFICES ASSUME pc[d] = "broadcast"
                 PROVE  /\ msg[d] \in Message
                        /\ StageOf(msg[d]) = "on"
                        /\ Lefts[msg[d]] = rest[d]
                        /\ Serveds[msg[d]] = reached[d]
      BY DEF Running
    <2>1. msg[d] \in Message /\ StageOf(msg[d]) = "on"
      BY DEF FlowInv, Creators, Creating, StageOf, At
    <2>2. (CHOOSE e \in Device : At(e, msg[d], "broadcast")) = d
      BY DEF FlowInv, Creators, Creating, At
    <2> QED BY <2>1, <2>2 DEF Lefts, Serveds, OfCaller
  <1>2. ASSUME NEW d \in Device, pc[d] = "index" PROVE StageOf(msg[d]) = "new"
    <2>1. ~\E e \in Device : At(e, msg[d], "broadcast")
      BY <1>2 DEF FlowInv, Creators, Creating, At
    <2> QED BY <1>2, <2>1 DEF StageOf, At
  <1>3. ASSUME NEW d \in Device, pc[d] = "record" PROVE StageOf(msg[d]) = "done"
    <2>1. ~\E e \in Device : At(e, msg[d], "broadcast") \/ At(e, msg[d], "index")
      BY <1>3 DEF FlowInv, Creators, Creating, At
    <2> QED BY <1>3, <2>1 DEF StageOf, FlowInv, Creators, Creating
  <1>4. ASSUME NEW m \in Message PROVE Resting(m)
    BY DEF Resting, Lefts, Serveds, OfCaller
  <1>5. ASSUME NEW m \in Message, Unattended(m) PROVE StageByResult(m)
    <2>1. ~\E d \in Device : At(d, m, "broadcast") \/ At(d, m, "index")
      BY <1>5 DEF Unattended, Creating, At
    <2> QED BY <2>1 DEF StageOf, StageByResult
  <1> QED BY <1>1, <1>2, <1>3, <1>4, <1>5 DEF RoundsStand

LEMMA RoundsFollowAfter == FlowInv' => RoundsStand'
  BY RoundsFollow, PTL

\* The step of one handler.
Moves(d) ==
  \A e \in Device : e # d =>
    pc'[e] = pc[e] /\ msg'[e] = msg[e] /\ rest'[e] = rest[e] /\ reached'[e] = reached[e]

\* What a handler does is nothing to the rounds of messages it does not create.
LEMMA RoundsBeside ==
  ASSUME FlowInv, FlowInv', NEW d \in Device, Moves(d), NEW m \in Message,
         m # msg[d] \/ pc[d] \notin Creating, m # msg'[d] \/ pc'[d] \notin Creating,
         result'[m] = result[m]
  PROVE  StageOf(m)' = StageOf(m) /\ Lefts'[m] = Lefts[m] /\ Serveds'[m] = Serveds[m]
  <1>1. RoundsStand /\ RoundsStand'
    BY RoundsFollow, RoundsFollowAfter
  <1>2. CASE \E e \in Device : pc[e] \in Creating /\ msg[e] = m
    <2>1. PICK e \in Device : pc[e] \in Creating /\ msg[e] = m
      BY <1>2
    <2>2. /\ pc'[e] = pc[e] /\ msg'[e] = msg[e] /\ rest'[e] = rest[e] /\ reached'[e] = reached[e]
          /\ pc[e] \in {"index", "broadcast", "record"}
      BY <2>1 DEF Moves, Creating
    <2>3. CASE pc[e] = "broadcast"
      BY <1>1, <2>1, <2>2, <2>3 DEF RoundsStand, Running
    <2>4. CASE pc[e] = "index" \/ pc[e] = "record"
      <3>1. StageOf(m)' = StageOf(m) /\ StageOf(m) # "on"
        BY <1>1, <2>1, <2>2, <2>4 DEF RoundsStand
      <3> QED BY <1>1, <3>1 DEF RoundsStand, Resting
    <2> QED BY <2>2, <2>3, <2>4
  <1>3. CASE Unattended(m)
    <2>1. Unattended(m)'
      BY <1>3 DEF Unattended, Moves
    <2>2. StageOf(m)' = StageOf(m) /\ StageOf(m) # "on"
      BY <1>1, <1>3, <2>1 DEF RoundsStand, StageByResult
    <2> QED BY <1>1, <2>2 DEF RoundsStand, Resting
  <1> QED BY <1>2, <1>3 DEF Unattended

\* The step of a handler that creates a message changes the round of that message at most.
LEMMA OneRound ==
  ASSUME FlowInv, FlowInv', NEW d \in Device, Moves(d), NEW m \in Message,
         pc[d] \in Creating => msg[d] = m, pc'[d] \in Creating => msg'[d] = m,
         \A n \in Message : n # m => result'[n] = result[n]
  PROVE  /\ Stages' = [Stages EXCEPT ![m] = StageOf(m)']
         /\ Lefts' = [Lefts EXCEPT ![m] = Lefts'[m]]
         /\ Serveds' = [Serveds EXCEPT ![m] = Serveds'[m]]
         /\ Stages[m] = StageOf(m)
  <1>1. ASSUME NEW n \in Message, n # m
        PROVE  StageOf(n)' = StageOf(n) /\ Lefts'[n] = Lefts[n] /\ Serveds'[n] = Serveds[n]
    BY <1>1, RoundsBeside
  <1>2. Stages' = [n \in Message |-> StageOf(n)']
    BY DEF Stages
  <1>3. Stages = [n \in Message |-> StageOf(n)]
    BY DEF Stages
  <1>4. Lefts = [n \in Message |-> Lefts[n]] /\ Lefts' = [n \in Message |-> Lefts'[n]]
        /\ Serveds = [n \in Message |-> Serveds[n]] /\ Serveds' = [n \in Message |-> Serveds'[n]]
    BY DEF Lefts, Serveds
  <1> QED BY <1>1, <1>2, <1>3, <1>4

\* A step that moves no round.
LEMMA NoRound ==
  ASSUME FlowInv, FlowInv', NEW d \in Device, Moves(d), NEW m \in Message,
         pc[d] \in Creating => msg[d] = m, pc'[d] \in Creating => msg'[d] = m,
         \A n \in Message : n # m => result'[n] = result[n],
         StageOf(m)' = StageOf(m), StageOf(m) # "on"
  PROVE  UNCHANGED <<Stages, Lefts, Serveds>>
  <1>1. Lefts'[m] = Lefts[m] /\ Serveds'[m] = Serveds[m]
    BY RoundsFollow, RoundsFollowAfter DEF RoundsStand, Resting
  <1>2. Lefts = [n \in Message |-> Lefts[n]] /\ Serveds = [n \in Message |-> Serveds[n]]
        /\ Stages = [n \in Message |-> Stages[n]]
    BY DEF Lefts, Serveds, Stages
  <1> QED BY <1>1, <1>2, OneRound

\* Nor does the step of a receipt.
LEMMA NoCreator ==
  ASSUME FlowInv, FlowInv', NEW d \in Device, Moves(d), pc[d] \notin Creating, pc'[d] \notin Creating,
         UNCHANGED result
  PROVE  UNCHANGED <<Stages, Lefts, Serveds>>
  <1>1. ASSUME NEW n \in Message
        PROVE  StageOf(n)' = StageOf(n) /\ Lefts'[n] = Lefts[n] /\ Serveds'[n] = Serveds[n]
    BY RoundsBeside
  <1>2. Lefts = [n \in Message |-> Lefts[n]] /\ Lefts' = [n \in Message |-> Lefts'[n]]
        /\ Serveds = [n \in Message |-> Serveds[n]] /\ Serveds' = [n \in Message |-> Serveds'[n]]
    BY DEF Lefts, Serveds
  <1> QED BY <1>1, <1>2 DEF Stages

LEMMA CreateBeginsNoRound ==
  ASSUME FlowInv, FlowInv', NEW d \in Device, NEW m \in Message, CreateMessage(d, m)
  PROVE  UNCHANGED <<Stages, Lefts, Serveds>>
  <1>1. /\ pc[d] = "idle" /\ pc'[d] = "index" /\ msg'[d] = m
        /\ result[m] = "none" /\ \A n \in Message : n # m => result'[n] = result[n]
        /\ Moves(d)
    BY DEF CreateMessage, LoopFree, Goto, Ends, Moves, FlowInv, TypeOK
  <1>2. Unattended(m)
    BY <1>1 DEF Unattended, FlowInv, Creators
  <1>3. StageOf(m) = "new" /\ StageOf(m)' = "new"
    BY <1>1, <1>2, RoundsFollow, RoundsFollowAfter DEF RoundsStand, StageByResult
  <1> QED BY <1>1, <1>3, NoRound DEF Creating

LEMMA IndexBeginsRound ==
  ASSUME FlowInv, FlowInv', NEW d \in Device, IndexMessage(d)
  PROVE  Rounds!Begin(msg[d])
  <1>0. msg[d] \in Message /\ reached[d] = <<>>
    BY DEF IndexMessage, Creating, FlowInv, Creators, Reaching
  <1>1. /\ pc[d] = "index" /\ pc'[d] = "broadcast" /\ msg' = msg /\ msg[d] \in Message
        /\ rest'[d] = Members /\ reached'[d] = <<>> /\ UNCHANGED result
        /\ Moves(d)
    BY <1>0 DEF IndexMessage, Goto, worldVars, Moves, FlowInv, TypeOK
  <1>2. StageOf(msg[d]) = "new" /\ Serveds[msg[d]] = <<>>
    BY <1>1, RoundsFollow DEF RoundsStand, Resting
  <1>3. StageOf(msg[d])' = "on" /\ Lefts'[msg[d]] = Members /\ Serveds'[msg[d]] = <<>>
    BY <1>1, RoundsFollowAfter DEF RoundsStand, Running
  <1>4. Serveds = [n \in Message |-> Serveds[n]]
    BY DEF Serveds
  <1> QED BY <1>1, <1>2, <1>3, <1>4, OneRound DEF Rounds!Begin

LEMMA BroadcastTakesTurn ==
  ASSUME FlowInv, FlowInv', NEW d \in Device, Broadcast(d)
  PROVE  Rounds!PassOver(msg[d]) \/ Rounds!Serve(msg[d])
  <1>0. msg[d] \in Message
    BY DEF Broadcast, Creating, FlowInv, Creators
  <1>1. /\ pc[d] = "broadcast" /\ pc' = pc /\ msg' = msg /\ msg[d] \in Message
        /\ rest[d] # <<>> /\ rest'[d] = Tail(rest[d]) /\ UNCHANGED result
        /\ reached'[d] = reached[d] \/ reached'[d] = Append(reached[d], Head(rest[d]))
        /\ Moves(d)
    <2>1. \/ reached' = reached
          \/ reached' = [reached EXCEPT ![d] = Append(@, Head(rest[d]))]
      BY DEF Broadcast
    <2>2. rest' = [rest EXCEPT ![d] = Tail(@)] /\ UNCHANGED <<pc, msg, result>>
      BY DEF Broadcast
    <2> QED BY <1>0, <2>1, <2>2 DEF Broadcast, Moves, FlowInv, TypeOK
  <1>2. /\ StageOf(msg[d]) = "on" /\ Lefts[msg[d]] = rest[d] /\ Serveds[msg[d]] = reached[d]
        /\ StageOf(msg[d])' = "on" /\ Lefts'[msg[d]] = rest'[d] /\ Serveds'[msg[d]] = reached'[d]
    BY <1>1, RoundsFollow, RoundsFollowAfter DEF RoundsStand, Running
  <1>3. Serveds = [n \in Message |-> Serveds[n]] /\ Stages = [n \in Message |-> Stages[n]]
    BY DEF Serveds, Stages
  <1>4. Rounds!Turn(msg[d])
    BY <1>1, <1>2, <1>3, OneRound DEF Rounds!Turn
  <1>5. \/ UNCHANGED Serveds
        \/ Serveds' = [Serveds EXCEPT ![msg[d]] = Append(@, Head(Lefts[msg[d]]))]
    BY <1>1, <1>2, <1>3, OneRound
  <1> QED BY <1>4, <1>5 DEF Rounds!PassOver, Rounds!Serve

LEMMA EndFinishesRound ==
  ASSUME FlowInv, FlowInv', NEW d \in Device, EndBroadcast(d)
  PROVE  Rounds!Finish(msg[d])
  <1>1. /\ pc[d] = "broadcast" /\ pc'[d] = "record" /\ msg' = msg /\ msg[d] \in Message
        /\ rest[d] = <<>> /\ UNCHANGED result
        /\ Moves(d)
    BY DEF EndBroadcast, Goto, worldVars, Moves, Creating, FlowInv, TypeOK, Creators
  <1>2. StageOf(msg[d]) = "on" /\ Lefts[msg[d]] = <<>>
    BY <1>1, RoundsFollow DEF RoundsStand, Running
  <1>3. StageOf(msg[d])' = "done" /\ Lefts'[msg[d]] = <<>> /\ Serveds'[msg[d]] = <<>>
    BY <1>1, RoundsFollowAfter DEF RoundsStand, Resting
  <1> QED BY <1>1, <1>2, <1>3, OneRound DEF Rounds!Finish, Rounds!Close

\* The creator is done with its message, one way or the other.
LEMMA CreatorReturns ==
  ASSUME FlowInv, FlowInv', NEW d \in Device, pc[d] \in Creating, Return(d),
         NEW m \in Message, m = msg[d], NEW how \in {"ok", "failed"}, Ends(m, how)
  PROVE  /\ Moves(d) /\ pc'[d] \notin Creating
         /\ \A n \in Message : n # m => result'[n] = result[n]
         /\ StageOf(m)' = IF how = "failed" THEN "failed" ELSE "done"
         /\ Lefts'[m] = <<>> /\ Serveds'[m] = <<>>
  <1>1. /\ Moves(d) /\ pc'[d] \notin Creating
        /\ \A n \in Message : n # m => result'[n] = result[n]
        /\ result'[m] = how
    BY DEF Return, Goto, Ends, Moves, Creating, FlowInv, TypeOK
  <1>2. Unattended(m)'
    BY <1>1 DEF Unattended, Moves, FlowInv, Creators
  <1>3. StageOf(m)' = IF how = "failed" THEN "failed" ELSE "done"
    BY <1>1, <1>2, RoundsFollowAfter DEF RoundsStand, StageByResult
  <1> QED BY <1>1, <1>3, RoundsFollowAfter DEF RoundsStand, Resting

LEMMA CallerFailsRound ==
  ASSUME FlowInv, FlowInv', NEW d \in Device, pc[d] \in {"index", "record"}, Return(d),
         NEW m \in Message, m = msg[d], Ends(m, "failed")
  PROVE  Rounds!CallerFails(m)
  <1>1. /\ Moves(d) /\ pc'[d] \notin Creating
        /\ \A n \in Message : n # m => result'[n] = result[n]
        /\ StageOf(m)' = "failed" /\ Lefts'[m] = <<>> /\ Serveds'[m] = <<>>
    BY CreatorReturns DEF Creating
  <1>2. StageOf(m) \in {"new", "done"} /\ Lefts[m] = <<>> /\ Serveds[m] = <<>>
    BY RoundsFollow DEF RoundsStand, Resting
  <1>3. Serveds = [n \in Message |-> Serveds[n]] /\ Lefts = [n \in Message |-> Lefts[n]]
    BY DEF Serveds, Lefts
  <1> QED BY <1>1, <1>2, <1>3, OneRound DEF Rounds!CallerFails

LEMMA FaultBreaksRound ==
  ASSUME FlowInv, FlowInv', NEW d \in Device, pc[d] = "broadcast", rest[d] # <<>>, Return(d),
         NEW m \in Message, m = msg[d], Ends(m, "failed")
  PROVE  Rounds!BreakOff(m)
  <1>1. /\ Moves(d) /\ pc'[d] \notin Creating
        /\ \A n \in Message : n # m => result'[n] = result[n]
        /\ StageOf(m)' = "failed" /\ Lefts'[m] = <<>> /\ Serveds'[m] = <<>>
    BY CreatorReturns DEF Creating
  <1>2. StageOf(m) = "on" /\ Lefts[m] # <<>>
    BY RoundsFollow DEF RoundsStand, Running
  <1> QED BY <1>1, <1>2, OneRound DEF Rounds!BreakOff, Rounds!Close

\* A receipt touches no broadcast.
LEMMA ReceiptKeepsRounds ==
  ASSUME FlowInv, FlowInv', NEW d \in Device,
         (\E m \in Message : Receive(d, m)) \/ Receipt(d) \/ (Fault(d) /\ pc[d] \notin Creating)
  PROVE  UNCHANGED <<Stages, Lefts, Serveds>>
  <1> USE DEF Moves, Goto, Creating, FlowInv, TypeOK
  <1>1. ASSUME NEW m \in Message, Receive(d, m)
        PROVE  Moves(d) /\ pc[d] \notin Creating /\ pc'[d] \notin Creating /\ UNCHANGED result
    BY <1>1 DEF Receive, LoopFree
  <1>2. ASSUME Receipt(d)
        PROVE  Moves(d) /\ pc[d] \notin Creating /\ pc'[d] \notin Creating /\ UNCHANGED result
    <2>1. CASE SetRead(d) \/ GetMessage(d) \/ SetUnread(d)
      BY <2>1 DEF SetRead, GetMessage, SetUnread, worldVars
    <2>2. CASE Notify(d)
      BY <2>2 DEF Notify, Return, worldVars
    <2> QED BY <1>2, <2>1, <2>2 DEF Receipt
  <1>3. ASSUME Fault(d), pc[d] \notin Creating
        PROVE  Moves(d) /\ pc'[d] \notin Creating /\ UNCHANGED result
    BY <1>3 DEF Fault, Return
  <1> QED BY <1>1, <1>2, <1>3, NoCreator

\* A recorded status moves no round; one that was there already fails the caller.
LEMMA RecordInRounds ==
  ASSUME FlowInv, FlowInv', NEW d \in Device, Record(d)
  PROVE  UNCHANGED <<Stages, Lefts, Serveds>> \/ Rounds!CallerFails(msg[d])
  <1>1. PICK m \in Message : pc[d] = "record" /\ msg[d] = m
    BY DEF Record, FlowInv, Creators, Creating
  <1>2. CASE UNCHANGED <<pc, msg, seen, rest, result>>
    <2>1. reached' = [reached EXCEPT ![d] = Tail(@)]
      <3>1. ~Return(d)
        BY <1>1, <1>2 DEF Return, Goto, FlowInv, TypeOK
      <3> QED BY <3>1 DEF Record
    <2>2. Moves(d)
      BY <1>2, <2>1 DEF Moves, FlowInv, TypeOK
    <2>3. StageOf(m) = "done" /\ StageOf(m)' = "done"
      BY <1>1, <1>2, RoundsFollow, RoundsFollowAfter DEF RoundsStand
    <2> QED BY <1>1, <1>2, <2>2, <2>3, NoRound
  <1>3. CASE Return(d) /\ Ends(msg[d], "failed")
    BY <1>1, <1>3, CallerFailsRound
  <1> QED BY <1>2, <1>3 DEF Record

LEMMA EndKeepsRounds ==
  ASSUME FlowInv, FlowInv', NEW d \in Device, EndCreate(d)
  PROVE  UNCHANGED <<Stages, Lefts, Serveds>>
  <1>1. PICK m \in Message : m = msg[d]
    BY DEF EndCreate, FlowInv, Creators, Creating
  <1>2. pc[d] = "record" /\ Return(d) /\ Ends(m, "ok")
    BY <1>1 DEF EndCreate
  <1>3. /\ Moves(d) /\ pc'[d] \notin Creating
        /\ \A n \in Message : n # m => result'[n] = result[n]
        /\ StageOf(m)' = "done"
    BY <1>1, <1>2, CreatorReturns DEF Creating
  <1>4. StageOf(m) = "done"
    BY <1>1, <1>2, RoundsFollow DEF RoundsStand
  <1> QED BY <1>1, <1>2, <1>3, <1>4, NoRound

\* A failing creator breaks its broadcast off, or fails before or after it.
LEMMA FaultInRounds ==
  ASSUME FlowInv, FlowInv', NEW d \in Device, Fault(d), pc[d] \in Creating
  PROVE  Rounds!CallerFails(msg[d]) \/ Rounds!BreakOff(msg[d])
  <1>1. Return(d) /\ Ends(msg[d], "failed")
    BY DEF Fault
  <1>2. pc[d] \in {"index", "record"} \/ (pc[d] = "broadcast" /\ rest[d] # <<>>)
    BY DEF Fault, Creating
  <1>3. PICK m \in Message : m = msg[d]
    BY DEF FlowInv, Creators
  <1>4. Ends(m, "failed")
    BY <1>1, <1>3
  <1> QED BY <1>1, <1>2, <1>3, <1>4, CallerFailsRound, FaultBreaksRound

LEMMA StepInRounds ==
  FlowInv /\ FlowInv' /\ [Next]_vars => [Rounds!RoundsNext]_(Rounds!roundVars)
  <1> SUFFICES ASSUME FlowInv, FlowInv', [Next]_vars
               PROVE  Rounds!RoundsNext \/ UNCHANGED <<Stages, Lefts, Serveds>>
    BY DEF Rounds!roundVars
  <1>1. ASSUME NEW d \in Device, pc[d] \in Creating PROVE msg[d] \in Message
    BY <1>1 DEF FlowInv, Creators
  <1>2. ASSUME NEW d \in Device, NEW m \in Message, CreateMessage(d, m)
        PROVE  UNCHANGED <<Stages, Lefts, Serveds>>
    BY <1>2, CreateBeginsNoRound
  <1>3. ASSUME NEW d \in Device, IndexMessage(d) \/ Broadcast(d) \/ EndBroadcast(d)
        PROVE  Rounds!RoundsNext
    <2>1. msg[d] \in Message
      BY <1>1, <1>3 DEF IndexMessage, Broadcast, EndBroadcast, Creating
    <2> QED BY <1>3, <2>1, IndexBeginsRound, BroadcastTakesTurn, EndFinishesRound DEF Rounds!RoundsNext
  <1>4. ASSUME NEW d \in Device, Record(d) \/ EndCreate(d)
        PROVE  Rounds!RoundsNext \/ UNCHANGED <<Stages, Lefts, Serveds>>
    <2>1. msg[d] \in Message
      BY <1>1, <1>4 DEF Record, EndCreate, Creating
    <2> QED BY <1>4, <2>1, RecordInRounds, EndKeepsRounds DEF Rounds!RoundsNext
  <1>5. ASSUME NEW d \in Device, Fault(d)
        PROVE  Rounds!RoundsNext \/ UNCHANGED <<Stages, Lefts, Serveds>>
    BY <1>1, <1>5, FaultInRounds, ReceiptKeepsRounds DEF Rounds!RoundsNext
  <1>6. ASSUME NEW d \in Device, (\E m \in Message : Receive(d, m)) \/ Receipt(d)
        PROVE  UNCHANGED <<Stages, Lefts, Serveds>>
    BY <1>6, ReceiptKeepsRounds
  <1>7. CASE UNCHANGED vars
    BY <1>7 DEF vars, storeVars, threadVars, worldVars, Stages, Lefts, Serveds, OfCaller, StageOf, At
  <1> QED
    BY <1>2, <1>3, <1>4, <1>5, <1>6, <1>7 DEF Next, Client, Handler, Create

\* MessageFlow implements BroadcastRounds, whatever the members, event loops and failures:
\* a message's statuses are recorded only after a broadcast that went through the whole
\* list, and one that was broken off fails the creation.
THEOREM ImplementsRounds == Spec => BroadcastAsCalled
  <1>1. Init => Rounds!RoundsInit
    BY DEF Init, Rounds!RoundsInit, Stages, Lefts, Serveds, OfCaller, StageOf, At
  <1> QED
    BY <1>1, FlowInvariance, StepInRounds, PTL DEF Spec, BroadcastAsCalled, Rounds!RoundsSpec
================================================================================
