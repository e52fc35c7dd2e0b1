----------------------------- MODULE DeliveryProofs -----------------------------
(***************************************************************************)
(* Theorems about Delivery, for any members, devices, sessions, broadcasts *)
(* and any width of the ids.                                               *)
(***************************************************************************)
EXTENDS Delivery, FiniteSetTheorems, WellFoundedInduction, TLAPS

\* A broadcast that has picked a recipient still has that member at the head of its
\* list, and one that will send has a session.
Aimed ==
  \A b \in Broadcast :
    /\ pc[b] \in {"lookup", "stamp", "send", "push"} => rest[b] # <<>>
    /\ pc[b] \in {"stamp", "send"} => target[b] \in Session

Typed == TypeOK /\ Aimed
--------------------------------------------------------------------------------

\* What goes on around a broadcast keeps the types.
LEMMA WorldTyped ==
  ASSUME Typed, World
  PROVE  Typed'
  <1> USE DEF Typed, TypeOK, IndexTypeOK, Aimed, worldVars, indexVars, sessionVars, threadVars
  <1>1. CASE GatewayStarts
    BY <1>1 DEF GatewayStarts, BuildManager, ManagerState
  <1>2. ASSUME NEW d \in Device, Flip(d) PROVE Typed'
    <2>1. flips' \in 0 .. MaxFlips
      BY <1>2, FlipsAssumption DEF Flip
    <2>2. active' \in [Device -> BOOLEAN]
      BY <1>2 DEF Flip
    <2>3. steady' \in [Broadcast -> [flag : SUBSET Device, way : SUBSET Device]]
      BY <1>2 DEF Flip
    <2> QED BY <1>2, <2>1, <2>2, <2>3 DEF Flip
  <1>3. ASSUME NEW s \in Session, NEW d \in Device, PutBegins(s, d) PROVE Typed'
    BY <1>3 DEF PutBegins, BeginPut
  <1>4. ASSUME NEW s \in Session, PutEnds(s) PROVE Typed'
    BY <1>4 DEF PutEnds, EndPut, WayChanges
  <1>5. ASSUME NEW s \in Session, Disposes(s) PROVE Typed'
    BY <1>5 DEF Disposes, RemoveEntry, WayChanges
  <1> QED BY <1>1, <1>2, <1>3, <1>4, <1>5 DEF World

\* What a handing over sets.
LEMMA HandTyped ==
  ASSUME Typed, NEW b \in Broadcast, NEW how \in Session \cup {None}, rest[b] # <<>>,
         Hand(b, how)
  PROVE  /\ handed' \in [Broadcast -> Seq(Handing)]
         /\ rest' \in [Broadcast -> Seq(Device)]
         /\ target' \in [Broadcast -> Session \cup {None}]
         /\ pc' \in [Broadcast -> Steps]
         /\ pc'[b] = "member"
         /\ \A c \in Broadcast : c # b => pc'[c] = pc[c] /\ rest'[c] = rest[c] /\ target'[c] = target[c]
  <1>1. Head(rest[b]) \in Device /\ Tail(rest[b]) \in Seq(Device)
    BY DEF Typed, TypeOK
  <1>2. [to |-> Head(rest[b]), via |-> how, address |-> frame[b]] \in Handing
    BY <1>1 DEF Typed, TypeOK, Handing
  <1> QED BY <1>1, <1>2 DEF Typed, TypeOK, Hand, Goto, Steps

\* The end of a broadcast, by return or throw.
LEMMA OverTyped ==
  ASSUME Typed, NEW b \in Broadcast, NEW how \in {"done", "failed"}, Over(b, how)
  PROVE  Typed'
  <1> USE DEF Typed, TypeOK, IndexTypeOK, Aimed, Goto, Steps, Over
  <1>1. pc' \in [Broadcast -> Steps] /\ rest' \in [Broadcast -> Seq(Device)]
        /\ target' \in [Broadcast -> Session \cup {None}]
    OBVIOUS
  <1>2. frame' \in [Broadcast -> Address]
    BY DEF Blank, Address
  <1>3. reached' \in [Broadcast -> Seq(Device)] /\ handed' \in [Broadcast -> Seq(Handing)]
    OBVIOUS
  <1>4. steady' \in [Broadcast -> [flag : SUBSET Device, way : SUBSET Device]]
    OBVIOUS
  <1> QED BY <1>1, <1>2, <1>3, <1>4 DEF worldVars, indexVars, sessionVars

\* A step of a broadcast keeps the types.
LEMMA RunTyped ==
  ASSUME Typed, NEW b \in Broadcast, Run(b)
  PROVE  Typed'
  <1> USE DEF Typed, TypeOK, IndexTypeOK, Aimed, Goto, Steps, worldVars, indexVars, sessionVars,
             threadVars
  <1>1. CASE Start(b)
    <2>1. frame' \in [Broadcast -> Address]
      BY <1>1 DEF Start, Blank, Address
    <2>2. steady' \in [Broadcast -> [flag : SUBSET Device, way : SUBSET Device]]
      BY <1>1 DEF Start
    <2>3. pc' \in [Broadcast -> Steps] /\ rest' \in [Broadcast -> Seq(Device)]
      BY <1>1, MembersAssumption DEF Start
    <2>4. Aimed'
      BY <1>1 DEF Start
    <2> QED BY <1>1, <2>1, <2>2, <2>3, <2>4 DEF Start
  <1>2. CASE NextMember(b)
    <2>1. Head(rest[b]) \in Device /\ Tail(rest[b]) \in Seq(Device)
      BY <1>2 DEF NextMember
    <2>2. CASE active[Head(rest[b])]
      <3>1. Append(reached[b], Head(rest[b])) \in Seq(Device)
        BY <2>1
      <3>2. reached' = [reached EXCEPT ![b] = Append(@, Head(rest[b]))]
        BY <1>2, <2>2 DEF NextMember
      <3>3. reached' \in [Broadcast -> Seq(Device)]
        BY <3>1, <3>2
      <3>4. pc' = [pc EXCEPT ![b] = "lookup"] /\ rest' = rest /\ rest[b] # <<>>
        BY <1>2, <2>2 DEF NextMember
      <3> QED BY <1>2, <3>3, <3>4 DEF NextMember
    <2>3. CASE ~active[Head(rest[b])]
      <3>1. /\ rest' = [rest EXCEPT ![b] = Tail(@)] /\ UNCHANGED <<pc, reached, target, frame, handed>>
            /\ UNCHANGED <<worldVars, sessionVars, steady>> /\ pc[b] = "member"
        BY <1>2, <2>3 DEF NextMember
      <3>2. rest' \in [Broadcast -> Seq(Device)]
        BY <2>1, <3>1
      <3> QED BY <3>1, <3>2
    <2> QED BY <2>2, <2>3
  <1>3. CASE Lookup(b)
    <2>1. Head(rest[b]) \in Device
      BY <1>3 DEF Lookup
    <2>2. leads[Head(rest[b])] \in Session \cup {None}
      BY <2>1
    <2> QED BY <1>3, <2>2, NoneAssumption DEF Lookup, Found
  <1>4. CASE Stamp(b)
    <2>1. target[b] \in Session
      BY <1>4 DEF Stamp
    <2>2. [session |-> target[b], id |-> drawn[target[b]] % IdSpan] \in Address
      BY <2>1, SpanAssumption DEF Address
    <2> QED BY <1>4, <2>1, <2>2 DEF Stamp
  <1>5. CASE Send(b)
    <2>1. target[b] \in Session /\ rest[b] # <<>> /\ Hand(b, target[b])
      BY <1>5 DEF Send
    <2>2. frames' \in [Session -> Seq(Address)]
      BY <1>5, <2>1 DEF Send
    <2> HIDE DEF Typed
    <2>3. /\ handed' \in [Broadcast -> Seq(Handing)]
          /\ rest' \in [Broadcast -> Seq(Device)]
          /\ target' \in [Broadcast -> Session \cup {None}]
          /\ pc' \in [Broadcast -> Steps]
          /\ pc'[b] = "member"
          /\ \A c \in Broadcast : c # b => pc'[c] = pc[c] /\ rest'[c] = rest[c] /\ target'[c] = target[c]
      BY <2>1, HandTyped
    <2> QED BY <1>5, <2>2, <2>3 DEF Send, Typed
  <1>6. CASE Push(b)
    <2>1. rest[b] # <<>> /\ Hand(b, None)
      BY <1>6 DEF Push
    <2> HIDE DEF Typed
    <2>2. /\ handed' \in [Broadcast -> Seq(Handing)]
          /\ rest' \in [Broadcast -> Seq(Device)]
          /\ target' \in [Broadcast -> Session \cup {None}]
          /\ pc' \in [Broadcast -> Steps]
          /\ pc'[b] = "member"
          /\ \A c \in Broadcast : c # b => pc'[c] = pc[c] /\ rest'[c] = rest[c] /\ target'[c] = target[c]
      BY <2>1, HandTyped
    <2> QED BY <1>6, <2>2 DEF Push, Typed
  <1>7. CASE Throw(b)
    BY <1>7, OverTyped DEF Throw
  <1>8. CASE End(b)
    BY <1>8, OverTyped DEF End
  <1> QED BY <1>1, <1>2, <1>3, <1>4, <1>5, <1>6, <1>7, <1>8 DEF Run

\* The types are inductive.
LEMMA TypedInvariance == Spec => []Typed
  <1>1. Init => Typed
    <2> SUFFICES ASSUME Init PROVE Typed
      OBVIOUS
    <2>1. frame \in [Broadcast -> Address]
      BY DEF Init, Blank, Address
    <2>2. steady \in [Broadcast -> [flag : SUBSET Device, way : SUBSET Device]]
      BY DEF Init
    <2>3. /\ manager \in ManagerState /\ flips \in 0 .. MaxFlips /\ drawn \in [Session -> Nat]
          /\ IndexTypeOK
      BY FlipsAssumption DEF Init, IndexInit, IndexTypeOK, ManagerState
    <2> QED BY <2>1, <2>2, <2>3 DEF Init, Typed, TypeOK, Aimed, Steps
  <1>2. Typed /\ [Next]_vars => Typed'
    <2>1. CASE UNCHANGED vars
      BY <2>1 DEF vars, worldVars, indexVars, sessionVars, threadVars, Typed, TypeOK, IndexTypeOK,
         Aimed
    <2> QED BY <2>1, WorldTyped, RunTyped DEF Next
  <1> QED BY <1>1, <1>2, PTL DEF Spec

\* Every variable of Delivery keeps its type.
THEOREM TypeCorrect == Spec => []TypeOK
  <1>1. Typed => TypeOK
    BY DEF Typed
  <1> QED BY <1>1, TypedInvariance, PTL
--------------------------------------------------------------------------------
(* The addresses of the frames *)

\* The frames of a connection, and those about to be written to it, are its session's.
Addressed ==
  /\ \A s \in Session : \A i \in DOMAIN frames[s] : frames[s][i].session = s
  /\ \A b \in Broadcast : pc[b] = "send" => frame[b].session = target[b]

\* Until the generator of session s wraps, the ids written and about to be written
\* have been drawn, each once.
Numbered(s) ==
  /\ \A i \in DOMAIN frames[s] : frames[s][i].id \in 0 .. drawn[s] - 1
  /\ \A i, j \in DOMAIN frames[s] : frames[s][i].id = frames[s][j].id => i = j
  /\ \A b \in Broadcast : pc[b] = "send" /\ target[b] = s =>
       /\ frame[b].id \in 0 .. drawn[s] - 1
       /\ \A i \in DOMAIN frames[s] : frames[s][i].id # frame[b].id
       /\ \A c \in Broadcast \ {b} : pc[c] = "send" /\ target[c] = s => frame[c].id # frame[b].id

Framed == Typed /\ Addressed /\ \A s \in Session : drawn[s] <= IdSpan => Numbered(s)

\* A step that neither writes a frame nor stamps one.
LEMMA QuietStep ==
  ASSUME Framed, Typed', UNCHANGED sessionVars,
         \A b \in Broadcast : pc'[b] = "send" =>
           pc[b] = "send" /\ target'[b] = target[b] /\ frame'[b] = frame[b]
  PROVE  Framed'
  <1>1. Addressed'
    BY DEF Framed, Addressed, sessionVars
  <1>2. ASSUME NEW s \in Session, drawn'[s] <= IdSpan PROVE Numbered(s)'
    <2>1. Numbered(s)
      BY <1>2 DEF Framed, sessionVars
    <2> QED BY <2>1 DEF Numbered, sessionVars
  <1> QED BY <1>1, <1>2 DEF Framed

\* A stamp takes the next id.
LEMMA StampStep ==
  ASSUME Framed, Typed', NEW b \in Broadcast, Stamp(b)
  PROVE  Framed'
  <1> DEFINE t == target[b]
  <1>1. /\ t \in Session /\ pc[b] = "stamp" /\ drawn[t] \in Nat
        /\ \A c \in Broadcast : frame[c] \in Address
    BY DEF Stamp, Framed, Typed, TypeOK, Aimed
  <1>2. /\ frames' = frames /\ target' = target
        /\ pc'[b] = "send" /\ frame'[b] = [session |-> t, id |-> drawn[t] % IdSpan]
        /\ \A c \in Broadcast : c # b => pc'[c] = pc[c] /\ frame'[c] = frame[c]
        /\ drawn'[t] = drawn[t] + 1
        /\ \A s \in Session : s # t => drawn'[s] = drawn[s]
    BY <1>1 DEF Stamp, Goto, Framed, Typed, TypeOK
  <1>3. Addressed'
    BY <1>1, <1>2 DEF Framed, Addressed
  <1>4. ASSUME NEW s \in Session, drawn'[s] <= IdSpan PROVE Numbered(s)'
    <2>1. CASE s # t
      <3>1. Numbered(s)
        BY <1>2, <1>4, <2>1 DEF Framed
      <3> QED BY <1>1, <1>2, <2>1, <3>1 DEF Numbered
    <2>2. CASE s = t
      <3>1. drawn[t] % IdSpan = drawn[t] /\ drawn[t] <= IdSpan
        BY <1>1, <1>2, <1>4, <2>2, SpanAssumption
      <3>2. Numbered(t)
        BY <1>1, <3>1 DEF Framed
      <3>3. frame'[b].id = drawn[t]
        BY <1>2, <3>1
      <3>4. /\ \A i \in DOMAIN frames[t] : frames[t][i].id \in 0 .. drawn[t] - 1
            /\ \A c \in Broadcast \ {b} : pc'[c] = "send" /\ target[c] = t =>
                 frame'[c].id \in 0 .. drawn[t] - 1
        BY <1>2, <3>2 DEF Numbered
      <3>5. /\ \A i \in DOMAIN frames[t] : frames[t][i].id \in 0 .. drawn[t] /\ frames[t][i].id # drawn[t]
            /\ \A c \in Broadcast \ {b} : pc'[c] = "send" /\ target[c] = t =>
                 frame'[c].id \in 0 .. drawn[t] /\ frame'[c].id # drawn[t]
        BY <1>1, <3>4
      <3>6. ASSUME NEW c \in Broadcast, pc'[c] = "send", target[c] = t
            PROVE  /\ frame'[c].id \in 0 .. drawn[t]
                   /\ \A i \in DOMAIN frames[t] : frames[t][i].id # frame'[c].id
                   /\ \A k \in Broadcast \ {c} : pc'[k] = "send" /\ target[k] = t =>
                        frame'[k].id # frame'[c].id
        <4>1. CASE c = b
          BY <1>1, <3>3, <3>5, <4>1
        <4>2. CASE c # b
          BY <1>2, <3>2, <3>3, <3>5, <3>6, <4>2 DEF Numbered
        <4> QED BY <4>1, <4>2
      <3>7. drawn'[t] - 1 = drawn[t]
        BY <1>1, <1>2
      <3> QED BY <1>2, <2>2, <3>2, <3>5, <3>6, <3>7 DEF Numbered
    <2> QED BY <2>1, <2>2
  <1> QED BY <1>3, <1>4 DEF Framed

\* A write appends the frame that was stamped for the connection.
LEMMA SendStep ==
  ASSUME Framed, Typed', NEW b \in Broadcast, Send(b)
  PROVE  Framed'
  <1> DEFINE t == target[b]
             n == Len(frames[t]) + 1
  <1>1. /\ t \in Session /\ pc[b] = "send" /\ rest[b] # <<>> /\ frame[b] \in Address
        /\ \A s \in Session : frames[s] \in Seq(Address)
    BY DEF Send, Framed, Typed, TypeOK, Aimed
  <1>2. /\ drawn' = drawn /\ frame' = frame /\ frames' = [frames EXCEPT ![t] = Append(@, frame[b])]
        /\ pc'[b] = "member"
        /\ \A c \in Broadcast : c # b => pc'[c] = pc[c] /\ target'[c] = target[c]
    BY DEF Send, Hand, Goto, Framed, Typed, TypeOK
  <1>3. /\ DOMAIN frames'[t] = 1 .. n /\ n \in Nat /\ DOMAIN frames[t] = 1 .. n - 1
        /\ frames'[t][n] = frame[b]
        /\ \A i \in 1 .. n - 1 : frames'[t][i] = frames[t][i]
        /\ \A s \in Session : s # t => frames'[s] = frames[s]
    <2>1. frames'[t] = Append(frames[t], frame[b]) /\ \A s \in Session : s # t => frames'[s] = frames[s]
      BY <1>1, <1>2 DEF Framed, Typed, TypeOK
    <2> QED BY <1>1, <2>1
  <1>4. Addressed'
    <2>1. ASSUME NEW s \in Session, NEW i \in DOMAIN frames'[s] PROVE frames'[s][i].session = s
      <3>1. CASE s # t
        BY <1>3, <2>1, <3>1 DEF Framed, Addressed
      <3>2. CASE s = t /\ i = n
        BY <1>1, <1>3, <3>2 DEF Framed, Addressed
      <3>3. CASE s = t /\ i # n
        <4>1. i \in 1 .. n - 1
          BY <1>3, <2>1, <3>3
        <4> QED BY <1>1, <1>3, <3>3, <4>1 DEF Framed, Addressed
      <3> QED BY <3>1, <3>2, <3>3
    <2> QED BY <1>2, <2>1 DEF Framed, Addressed
  <1>5. ASSUME NEW s \in Session, drawn'[s] <= IdSpan PROVE Numbered(s)'
    <2>1. Numbered(s)
      BY <1>2, <1>5 DEF Framed
    <2>2. CASE s # t
      BY <1>2, <1>3, <2>1, <2>2 DEF Numbered
    <2>3. CASE s = t
      <3>1. /\ frame[b].id \in 0 .. drawn[t] - 1
            /\ \A i \in 1 .. n - 1 : /\ frames[t][i].id \in 0 .. drawn[t] - 1
                                     /\ frames[t][i].id # frame[b].id
            /\ \A i, j \in 1 .. n - 1 : frames[t][i].id = frames[t][j].id => i = j
        BY <1>1, <1>3, <2>1, <2>3 DEF Numbered
      <3>2. ASSUME NEW i \in 1 .. n
            PROVE  /\ frames'[t][i].id \in 0 .. drawn[t] - 1
                   /\ i # n => i \in 1 .. n - 1 /\ frames'[t][i] = frames[t][i]
        BY <1>3, <3>1, <3>2
      <3>3. ASSUME NEW i \in 1 .. n, NEW j \in 1 .. n, frames'[t][i].id = frames'[t][j].id
            PROVE  i = j
        <4>1. CASE i # n /\ j # n
          <5>1. i \in 1 .. n - 1 /\ j \in 1 .. n - 1 /\ frames[t][i].id = frames[t][j].id
            BY <3>2, <3>3, <4>1
          <5> QED BY <3>1, <5>1
        <4>2. CASE i = n /\ j # n
          BY <1>3, <3>1, <3>2, <3>3, <4>2
        <4>3. CASE j = n /\ i # n
          BY <1>3, <3>1, <3>2, <3>3, <4>3
        <4> QED BY <4>1, <4>2, <4>3
      <3>4. ASSUME NEW c \in Broadcast, pc'[c] = "send", target'[c] = t
            PROVE  /\ frame[c].id \in 0 .. drawn[t] - 1
                   /\ \A i \in 1 .. n : frames'[t][i].id # frame[c].id
                   /\ \A k \in Broadcast \ {c} : pc'[k] = "send" /\ target'[k] = t =>
                        frame[k].id # frame[c].id
        <4>1. c # b /\ pc[c] = "send" /\ target[c] = t
          BY <1>2, <3>4
        <4>2. /\ frame[c].id \in 0 .. drawn[t] - 1
              /\ \A i \in 1 .. n - 1 : frames[t][i].id # frame[c].id
              /\ \A k \in Broadcast \ {c} : pc[k] = "send" /\ target[k] = t => frame[k].id # frame[c].id
          BY <1>3, <2>1, <2>3, <4>1 DEF Numbered
        <4>3. \A k \in Broadcast \ {c} : pc'[k] = "send" /\ target'[k] = t =>
                pc[k] = "send" /\ target[k] = t
          BY <1>2
        <4> QED BY <1>1, <1>3, <3>2, <4>1, <4>2, <4>3
      <3> QED BY <1>2, <1>3, <2>3, <3>2, <3>3, <3>4 DEF Numbered
    <2> QED BY <2>2, <2>3
  <1> QED BY <1>4, <1>5 DEF Framed

\* No broadcast, however many run at once, writes a frame to a connection it is not
\* addressed to, and until a generator wraps no id is written twice.
THEOREM FramesHold == Spec => []FramesAddressed
  <1>1. Init /\ Typed => Framed
    BY DEF Init, Framed, Addressed, Numbered
  <1>2. Framed /\ Typed' /\ [Next]_vars => Framed'
    <2> SUFFICES ASSUME Framed, Typed', [Next]_vars PROVE Framed'
      OBVIOUS
    <2>1. CASE UNCHANGED vars
      BY <2>1, QuietStep DEF vars, sessionVars, threadVars
    <2>2. CASE World
      BY <2>2, QuietStep DEF World, GatewayStarts, Flip, PutBegins, PutEnds, Disposes, WayChanges,
         threadVars, sessionVars
    <2>3. ASSUME NEW b \in Broadcast, Start(b) \/ NextMember(b) \/ Lookup(b) \/ Push(b) \/ Throw(b) \/ End(b)
          PROVE  Framed'
      <3>1. UNCHANGED sessionVars
        BY <2>3 DEF Start, NextMember, Lookup, Push, Throw, End, Over
      <3>2. pc'[b] # "send" /\ \A c \in Broadcast : c # b =>
              pc'[c] = pc[c] /\ target'[c] = target[c] /\ frame'[c] = frame[c]
        <4> USE DEF Goto, Framed, Typed, TypeOK
        <4>1. CASE Start(b) \/ NextMember(b) \/ Lookup(b)
          BY <4>1 DEF Start, NextMember, Lookup
        <4>2. CASE Push(b)
          BY <4>2 DEF Push, Hand
        <4>3. CASE Throw(b) \/ End(b)
          BY <4>3 DEF Throw, End, Over
        <4> QED BY <2>3, <4>1, <4>2, <4>3
      <3> QED BY <3>1, <3>2, QuietStep
    <2> QED BY <2>1, <2>2, <2>3, StampStep, SendStep DEF Next, Run
  <1>3. Framed => FramesAddressed
    <2> SUFFICES ASSUME Framed, NEW s \in Session, drawn[s] <= IdSpan PROVE IsInjective(frames[s])
      BY DEF Framed, Addressed, FramesAddressed
    <2>1. \A i, j \in DOMAIN frames[s] : frames[s][i].id = frames[s][j].id => i = j
      BY DEF Framed, Numbered
    <2> QED BY <2>1 DEF IsInjective
  <1> QED BY <1>1, <1>2, <1>3, TypedInvariance, PTL DEF Spec
--------------------------------------------------------------------------------
(* The way a frame takes *)

\* One put runs at a time, and none that may move entries leaves a way steady.
OnePut ==
  /\ \A s, t \in Session : life[s] = "putting" /\ life[t] = "putting" => s = t
  /\ Growing => \A b \in Broadcast : steady[b].way = {}

\* Whom broadcast b has reached, or has in hand, goes the way deviceMap shows, if that
\* way is steady.
Way(b) ==
  /\ \A i \in DOMAIN handed[b] :
       handed[b][i].to \in steady[b].way => handed[b][i].via = leads[handed[b][i].to]
  /\ pc[b] \in {"stamp", "send", "push"} /\ Head(rest[b]) \in steady[b].way =>
       target[b] = leads[Head(rest[b])]
  /\ pc[b] = "push" => target[b] = None
  /\ pc[b] = "new" => handed[b] = <<>>

Routed == Typed /\ OnePut /\ \A b \in Broadcast : Way(b)

\* A way that stays steady is as it was: what goes on around disturbs nothing.
LEMMA WorldRouted ==
  ASSUME Routed, Typed', World
  PROVE  Routed'
  <1> DEFINE Undisturbed ==
         /\ UNCHANGED threadVars
         /\ \A b \in Broadcast : steady'[b].way \subseteq steady[b].way
         /\ \A b \in Broadcast : \A d \in steady'[b].way : leads'[d] = leads[d]
  <1>1. CASE GatewayStarts
    BY <1>1 DEF GatewayStarts, Routed, OnePut, Growing, Way, threadVars, indexVars
  <1>2. ASSUME NEW d \in Device, Flip(d) PROVE Undisturbed /\ OnePut'
    <2>1. \A b \in Broadcast : steady'[b].way = steady[b].way
      BY <1>2 DEF Flip, Routed, Typed, TypeOK
    <2> QED BY <1>2, <2>1 DEF Flip, Routed, OnePut, Growing, indexVars
  <1>3. ASSUME NEW s \in Session, NEW e \in Device, PutBegins(s, e) PROVE Undisturbed /\ OnePut'
    <2>1. /\ \A b \in Broadcast : steady'[b].way =
               IF leads[e] = None THEN {} ELSE steady[b].way
          /\ \A t \in Session : life'[t] = "putting" => t = s
          /\ leads' = leads /\ device'[s] = e /\ UNCHANGED threadVars
      <3>1. /\ life' = [life EXCEPT ![s] = "putting"] /\ leads' = leads /\ UNCHANGED threadVars
            /\ \A t \in Session : life[t] # "putting"
            /\ device' = [device EXCEPT ![s] = e] /\ device \in [Session -> Device \cup {None}]
        BY <1>3 DEF PutBegins, BeginPut, NoPut, Routed, Typed, TypeOK, IndexTypeOK
      <3>2. ASSUME NEW b \in Broadcast
            PROVE  steady'[b].way = IF leads[e] = None THEN {} ELSE steady[b].way
        <4>1. steady'[b] = [steady[b] EXCEPT !.way = IF leads[e] = None THEN {} ELSE @]
          BY <1>3 DEF PutBegins
        <4>2. steady[b] \in [flag : SUBSET Device, way : SUBSET Device]
          BY DEF Routed, Typed, TypeOK
        <4> QED BY <4>1, <4>2
      <3>3. \A t \in Session : life'[t] = "putting" => t = s
        BY <3>1 DEF Routed, Typed, TypeOK, IndexTypeOK
      <3> QED BY <3>1, <3>2, <3>3
    <2> QED BY <2>1 DEF OnePut, Growing
  <1>4. ASSUME NEW s \in Session, PutEnds(s) PROVE Undisturbed /\ OnePut'
    <2>1. /\ \A b \in Broadcast : steady'[b].way = steady[b].way \ {device[s]}
          /\ \A t \in Session : life'[t] # "putting"
          /\ \A d \in Device : d # device[s] => leads'[d] = leads[d]
          /\ UNCHANGED threadVars
      <3>1. /\ life[s] = "putting" /\ life' = [life EXCEPT ![s] = "up"]
            /\ leads' = [leads EXCEPT ![device[s]] = s]
            /\ steady' = [b \in Broadcast |-> [steady[b] EXCEPT !.way = @ \ {device[s]}]]
            /\ UNCHANGED threadVars
        BY <1>4 DEF PutEnds, EndPut, WayChanges
      <3>2. \A b \in Broadcast : steady'[b].way = steady[b].way \ {device[s]}
        BY <3>1 DEF Routed, Typed, TypeOK
      <3>3. \A t \in Session : life'[t] # "putting"
        BY <3>1 DEF Routed, OnePut, Typed, TypeOK, IndexTypeOK
      <3>4. \A d \in Device : d # device[s] => leads'[d] = leads[d]
        BY <3>1 DEF Routed, Typed, TypeOK, IndexTypeOK
      <3> QED BY <3>1, <3>2, <3>3, <3>4
    <2>2. OnePut'
      BY <2>1 DEF OnePut, Growing
    <2>3. \A b \in Broadcast : steady[b].way \subseteq Device
      BY DEF Routed, Typed, TypeOK
    <2> QED BY <2>1, <2>2, <2>3
  <1>5. ASSUME NEW s \in Session, Disposes(s) PROVE Undisturbed /\ OnePut'
    <2>1. /\ \A b \in Broadcast : steady'[b].way = steady[b].way \ {device[s]}
          /\ \A t \in Session : life'[t] # "putting"
          /\ \A d \in Device : d # device[s] => leads'[d] = leads[d]
          /\ UNCHANGED threadVars
      <3>1. /\ life' = [life EXCEPT ![s] = "gone"] /\ \A t \in Session : life[t] # "putting"
            /\ leads' = [leads EXCEPT ![device[s]] = None]
            /\ steady' = [b \in Broadcast |-> [steady[b] EXCEPT !.way = @ \ {device[s]}]]
            /\ UNCHANGED threadVars
        BY <1>5 DEF Disposes, RemoveEntry, NoPut, WayChanges
      <3>2. \A b \in Broadcast : steady'[b].way = steady[b].way \ {device[s]}
        BY <3>1 DEF Routed, Typed, TypeOK
      <3>3. \A t \in Session : life'[t] # "putting"
        BY <3>1 DEF Routed, Typed, TypeOK, IndexTypeOK
      <3>4. \A d \in Device : d # device[s] => leads'[d] = leads[d]
        BY <3>1 DEF Routed, Typed, TypeOK, IndexTypeOK
      <3> QED BY <3>1, <3>2, <3>3, <3>4
    <2>2. OnePut'
      BY <2>1 DEF OnePut, Growing
    <2>3. \A b \in Broadcast : steady[b].way \subseteq Device
      BY DEF Routed, Typed, TypeOK
    <2> QED BY <2>1, <2>2, <2>3
  <1>6. ASSUME Undisturbed, OnePut' PROVE Routed'
    <2>1. ASSUME NEW b \in Broadcast PROVE Way(b)'
      BY <1>6 DEF Routed, Way, threadVars
    <2> QED BY <1>6, <2>1 DEF Routed
  <1> QED BY <1>1, <1>2, <1>3, <1>4, <1>5, <1>6 DEF World

\* The device handed to goes the way that was looked up.
LEMMA HandRouted ==
  ASSUME Routed, NEW b \in Broadcast, Hand(b, target[b]), pc[b] \in {"send", "push"},
         leads' = leads, steady' = steady
  PROVE  Way(b)'
  <1> DEFINE item == [to |-> Head(rest[b]), via |-> target[b], address |-> frame[b]]
             n == Len(handed[b]) + 1
  <1>1. rest[b] # <<>> /\ rest[b] \in Seq(Device) /\ handed[b] \in Seq(Handing)
    BY DEF Routed, Typed, TypeOK, Aimed
  <1>2. item \in Handing
    BY <1>1 DEF Handing, Routed, Typed, TypeOK
  <1>3. handed'[b] = Append(handed[b], item) /\ pc'[b] = "member"
    BY DEF Hand, Goto, Routed, Typed, TypeOK
  <1>4. /\ DOMAIN handed'[b] = 1 .. n /\ DOMAIN handed[b] = 1 .. n - 1 /\ n \in Nat
        /\ handed'[b][n] = item
        /\ \A i \in 1 .. n - 1 : handed'[b][i] = handed[b][i]
    BY <1>1, <1>2, <1>3
  <1>5. item.to \in steady[b].way => item.via = leads[item.to]
    BY DEF Routed, Way
  <1>6. ASSUME NEW i \in 1 .. n, handed'[b][i].to \in steady[b].way
        PROVE  handed'[b][i].via = leads[handed'[b][i].to]
    <2>1. CASE i = n
      BY <1>4, <1>5, <1>6, <2>1
    <2>2. CASE i # n
      <3>1. i \in 1 .. n - 1
        BY <1>4, <2>2
      <3> QED BY <1>4, <1>6, <3>1 DEF Routed, Way
    <2> QED BY <2>1, <2>2
  <1> QED BY <1>3, <1>4, <1>6 DEF Way

\* A step of a broadcast keeps to the ways that are steady.
LEMMA RunRouted ==
  ASSUME Routed, Typed', NEW b \in Broadcast, Run(b)
  PROVE  Routed'
  <1>1. UNCHANGED worldVars
    BY DEF Run, Start, NextMember, Lookup, Stamp, Send, Push, Throw, End, Over, worldVars, indexVars
  <1>2. \A c \in Broadcast : c # b =>
          /\ pc'[c] = pc[c] /\ rest'[c] = rest[c] /\ target'[c] = target[c]
          /\ handed'[c] = handed[c] /\ steady'[c] = steady[c]
    <2>1. CASE Start(b)
      BY <2>1 DEF Start, Goto, Routed, Typed, TypeOK
    <2>2. CASE NextMember(b) \/ Lookup(b) \/ Stamp(b)
      BY <2>2 DEF NextMember, Lookup, Stamp, Goto, Routed, Typed, TypeOK
    <2>3. CASE Send(b) \/ Push(b)
      BY <2>3 DEF Send, Push, Hand, Goto, Routed, Typed, TypeOK
    <2>4. CASE Throw(b) \/ End(b)
      BY <2>4 DEF Throw, End, Over, Goto, Routed, Typed, TypeOK
    <2> QED BY <2>1, <2>2, <2>3, <2>4 DEF Run
  <1>3. steady'[b].way \in {{}, steady[b].way} \/ (steady'[b].way = Device /\ ~Growing)
    <2>1. CASE Start(b)
      <3>1. steady'[b] = [flag |-> Device, way |-> IF Growing THEN {} ELSE Device]
        BY <2>1 DEF Start, Routed, Typed, TypeOK
      <3> QED BY <3>1
    <2>2. CASE NextMember(b) \/ Lookup(b) \/ Stamp(b) \/ Send(b) \/ Push(b)
      BY <2>2 DEF NextMember, Lookup, Stamp, Send, Push
    <2>3. CASE Throw(b) \/ End(b)
      <3>1. steady'[b] = [flag |-> {}, way |-> {}]
        BY <2>3 DEF Throw, End, Over, Routed, Typed, TypeOK
      <3> QED BY <3>1
    <2> QED BY <2>1, <2>2, <2>3 DEF Run
  <1>4. OnePut'
    BY <1>1, <1>2, <1>3 DEF OnePut, Growing, Routed, worldVars, indexVars
  <1>5. ASSUME NEW c \in Broadcast, c # b PROVE Way(c)'
    BY <1>1, <1>2, <1>5 DEF Way, Routed, worldVars, indexVars
  <1>6. Way(b)'
    <2>1. CASE Start(b)
      <3>1. pc'[b] = "member" /\ handed'[b] = <<>>
        BY <2>1 DEF Start, Goto, Routed, Way, Typed, TypeOK
      <3> QED BY <3>1 DEF Way
    <2>2. CASE NextMember(b)
      <3>1. pc'[b] \in {"member", "lookup"} /\ handed' = handed /\ steady' = steady
        BY <2>2 DEF NextMember, Goto, Routed, Typed, TypeOK
      <3> QED BY <1>1, <3>1 DEF Way, Routed, worldVars, indexVars
    <2>3. CASE Lookup(b)
      <3>1. /\ handed' = handed /\ steady' = steady /\ rest' = rest
            /\ pc'[b] \in {"push", "stamp"}
            /\ pc'[b] = "push" => target'[b] = None
            /\ target'[b] = leads[Head(rest[b])] \/ Growing
        BY <2>3 DEF Lookup, Found, Goto, Routed, Typed, TypeOK
      <3>2. Growing => steady[b].way = {}
        BY DEF Routed, OnePut
      <3>3. Head(rest[b]) \in steady[b].way => target'[b] = leads'[Head(rest[b])]
        BY <1>1, <3>1, <3>2 DEF worldVars, indexVars
      <3>4. pc'[b] # "new" /\ leads' = leads /\ Way(b)
        BY <1>1, <3>1 DEF Routed, worldVars, indexVars
      <3> QED BY <3>1, <3>3, <3>4 DEF Way
    <2>4. CASE Stamp(b)
      <3>1. /\ handed' = handed /\ steady' = steady /\ rest' = rest /\ target' = target
            /\ pc[b] = "stamp" /\ pc'[b] = "send"
        BY <2>4 DEF Stamp, Goto, Routed, Typed, TypeOK
      <3> QED BY <1>1, <3>1 DEF Way, Routed, worldVars, indexVars
    <2>5. CASE Send(b)
      BY <1>1, <2>5, HandRouted DEF Send, worldVars, indexVars
    <2>6. CASE Push(b)
      <3>1. target[b] = None
        BY <2>6 DEF Push, Routed, Way
      <3> QED BY <1>1, <2>6, <3>1, HandRouted DEF Push, worldVars, indexVars
    <2>7. ASSUME NEW how \in {"done", "failed"}, Over(b, how) PROVE Way(b)'
      <3>1. pc'[b] = how /\ handed'[b] = <<>>
        BY <2>7 DEF Over, Goto, Routed, Typed, TypeOK
      <3> QED BY <3>1 DEF Way
    <2> QED BY <2>1, <2>2, <2>3, <2>4, <2>5, <2>6, <2>7 DEF Run, Throw, End
  <1> QED BY <1>4, <1>5, <1>6 DEF Routed

\* A device whose session nobody registers or disposes meanwhile is never pushed to
\* while it has a session, nor written to when it has none.
THEOREM WayHolds == Spec => HandedTheRightWay
  <1>1. Init /\ Typed => Routed
    BY DEF Init, IndexInit, Routed, OnePut, Growing, Way
  <1>2. Routed /\ Typed' /\ [Next]_vars => Routed'
    <2> SUFFICES ASSUME Routed, Typed', [Next]_vars PROVE Routed'
      OBVIOUS
    <2>1. CASE UNCHANGED vars
      BY <2>1 DEF vars, worldVars, indexVars, threadVars, Routed, OnePut, Growing, Way
    <2> QED BY <2>1, WorldRouted, RunRouted DEF Next
  <1>3. Routed /\ [Next]_vars =>
          [\A b \in Broadcast : Ends(b) =>
             \A i \in DOMAIN handed[b] :
               handed[b][i].to \in steady[b].way => handed[b][i].via = leads[handed[b][i].to]]_vars
    BY DEF Routed, Way
  <1> QED BY <1>1, <1>2, <1>3, TypedInvariance, PTL DEF Spec, HandedTheRightWay
--------------------------------------------------------------------------------
(* The address a push carries *)

\* The address that the last of the first n frames handed over with a session got.
LastOf(seq, n) ==
  LET before == {j \in 1 .. n : seq[j].via # None}
  IN  IF before = {} THEN Blank
      ELSE seq[CHOOSE j \in before : \A k \in before : k <= j].address

\* The frame of a broadcast between two recipients is as the last session left it.
Carries ==
  \A b \in Broadcast :
    /\ pc[b] \in {"member", "lookup", "push"} => frame[b] = LastOf(handed[b], Len(handed[b]))
    /\ pc[b] = "new" => handed[b] = <<>>
    /\ pc[b] = "push" => target[b] = None

Borrowed == Typed /\ Carries /\ PushBorrowsItsOwn

\* A set of positions has a last one.
LEMMA LastPosition ==
  ASSUME NEW n \in Nat, NEW S \in SUBSET (1 .. n), S # {}
  PROVE  \E j \in S : \A k \in S : k <= j
  <1> DEFINE T == {n - k : k \in S}
  <1>1. T \in SUBSET Nat /\ T # {}
    <2>1. ASSUME NEW k \in S PROVE n - k \in Nat
      <3>1. k \in 1 .. n
        OBVIOUS
      <3> QED BY <3>1
    <2> QED BY <2>1
  <1>2. PICK x \in T : \A y \in T : ~(<<y, x>> \in OpToRel(<, Nat))
    BY <1>1, WFMin, NatLessThanWellFounded
  <1>3. \A y \in T : <<y, x>> \in Nat \X Nat => ~(y < x)
    BY <1>2, Zenon DEF OpToRel
  <1>4. PICK j \in S : x = n - j
    OBVIOUS
  <1>5. ASSUME NEW k \in S PROVE k <= j
    <2>1. n - k \in T /\ n - k \in Nat /\ x \in Nat
      BY <1>1
    <2>2. ~(n - k < x)
      BY <1>3, <2>1
    <2> QED BY <1>4, <2>1, <2>2
  <1> QED BY <1>5

\* LastOf looks at nothing behind its position.
LEMMA LastOfAgrees ==
  ASSUME NEW n \in Nat, NEW seq, NEW more, \A j \in 1 .. n : more[j] = seq[j]
  PROVE  LastOf(more, n) = LastOf(seq, n)
  <1> DEFINE before == {j \in 1 .. n : seq[j].via # None}
             last == CHOOSE j \in before : \A k \in before : k <= j
  <1>1. {j \in 1 .. n : more[j].via # None} = before
    OBVIOUS
  <1>2. CASE before = {}
    BY <1>1, <1>2 DEF LastOf
  <1>3. CASE before # {}
    <2>1. last \in before
      <3>1. before \in SUBSET (1 .. n)
        OBVIOUS
      <3>2. \E j \in before : \A k \in before : k <= j
        BY <1>3, <3>1, LastPosition
      <3> QED BY <3>2
    <2>2. more[last].address = seq[last].address
      BY <2>1
    <2> QED BY <1>1, <1>3, <2>2 DEF LastOf
  <1> QED BY <1>2, <1>3

\* One position further it is the frame there, if that had a session.
LEMMA LastOfNext ==
  ASSUME NEW n \in Nat, NEW seq
  PROVE  LastOf(seq, n + 1) = IF seq[n + 1].via = None THEN LastOf(seq, n) ELSE seq[n + 1].address
  <1> DEFINE before == {j \in 1 .. n : seq[j].via # None}
             upTo == {j \in 1 .. n + 1 : seq[j].via # None}
  <1>1. CASE seq[n + 1].via = None
    <2>1. 1 .. n + 1 = (1 .. n) \cup {n + 1}
      OBVIOUS
    <2>2. upTo = before
      BY <1>1, <2>1, Zenon
    <2>3. LastOf(seq, n) = IF before = {} THEN Blank
                           ELSE seq[CHOOSE j \in before : \A k \in before : k <= j].address
      BY Zenon DEF LastOf
    <2>4. LastOf(seq, n + 1) = IF upTo = {} THEN Blank
                               ELSE seq[CHOOSE j \in upTo : \A k \in upTo : k <= j].address
      BY Zenon DEF LastOf
    <2> HIDE DEF before, upTo
    <2> QED BY <1>1, <2>2, <2>3, <2>4
  <1>2. CASE seq[n + 1].via # None
    <2>1. n + 1 \in upTo /\ \A k \in upTo : k <= n + 1
      BY <1>2
    <2>2. \A j \in upTo : (\A k \in upTo : k <= j) => j = n + 1
      BY <2>1
    <2>3. (CHOOSE j \in upTo : \A k \in upTo : k <= j) = n + 1
      BY <2>1, <2>2
    <2> QED BY <1>2, <2>1, <2>3 DEF LastOf
  <1> QED BY <1>1, <1>2

\* What one broadcast has handed over, in the words of LastOf.
BorrowsItsOwn(b) ==
  \A i \in DOMAIN handed[b] : handed[b][i].via = None => handed[b][i].address = LastOf(handed[b], i - 1)

\* The property in the words of LastOf.
LEMMA BorrowsDef == PushBorrowsItsOwn <=> \A b \in Broadcast : BorrowsItsOwn(b)
  BY DEF PushBorrowsItsOwn, BorrowsItsOwn, LastOf

\* A push takes the address of the last session, a write sets it.
LEMMA HandBorrows ==
  ASSUME Borrowed, NEW b \in Broadcast, NEW how \in Session \cup {None}, Hand(b, how),
         rest[b] # <<>>, how = None => pc[b] = "push"
  PROVE  /\ BorrowsItsOwn(b)'
         /\ frame[b] = LastOf(handed'[b], Len(handed'[b]))
         /\ pc'[b] = "member"
  <1> DEFINE item == [to |-> Head(rest[b]), via |-> how, address |-> frame[b]]
             n == Len(handed[b])
  <1>1. rest[b] \in Seq(Device) /\ handed[b] \in Seq(Handing)
    BY DEF Borrowed, Typed, TypeOK
  <1>2. item \in Handing
    BY <1>1 DEF Handing, Borrowed, Typed, TypeOK
  <1>3. handed'[b] = Append(handed[b], item) /\ pc'[b] = "member"
    BY DEF Hand, Goto, Borrowed, Typed, TypeOK
  <1>4. /\ Len(handed'[b]) = n + 1 /\ DOMAIN handed'[b] = 1 .. n + 1
        /\ DOMAIN handed[b] = 1 .. n /\ n \in Nat
        /\ handed'[b][n + 1] = item
        /\ \A i \in 1 .. n : handed'[b][i] = handed[b][i]
    BY <1>1, <1>2, <1>3
  <1>5. \A i \in 0 .. n : LastOf(handed'[b], i) = LastOf(handed[b], i)
    <2>1. ASSUME NEW i \in 0 .. n PROVE i \in Nat /\ \A j \in 1 .. i : handed'[b][j] = handed[b][j]
      BY <1>4
    <2> QED BY <2>1, LastOfAgrees
  <1>6. how = None => frame[b] = LastOf(handed[b], n)
    BY DEF Borrowed, Carries
  <1>7. frame[b] = LastOf(handed'[b], n + 1)
    <2>1. LastOf(handed'[b], n + 1) = IF handed'[b][n + 1].via = None THEN LastOf(handed'[b], n)
                                      ELSE handed'[b][n + 1].address
      BY <1>4, LastOfNext
    <2>2. LastOf(handed'[b], n) = LastOf(handed[b], n)
      BY <1>4, <1>5
    <2> QED BY <1>4, <1>6, <2>1, <2>2
  <1>8. ASSUME NEW i \in 1 .. n + 1, handed'[b][i].via = None
        PROVE  handed'[b][i].address = LastOf(handed'[b], i - 1)
    <2>1. CASE i = n + 1
      <3>1. i - 1 = n /\ n \in 0 .. n
        BY <1>4, <2>1
      <3> QED BY <1>4, <1>5, <1>6, <1>8, <2>1, <3>1
    <2>2. CASE i # n + 1
      <3>1. i \in 1 .. n /\ i - 1 \in 0 .. n
        BY <1>4, <2>2
      <3>2. handed[b][i].via = None => handed[b][i].address = LastOf(handed[b], i - 1)
        BY <1>4, <3>1, BorrowsDef DEF Borrowed, BorrowsItsOwn
      <3> QED BY <1>4, <1>5, <1>8, <3>1, <3>2
    <2> QED BY <2>1, <2>2
  <1> QED BY <1>3, <1>4, <1>7, <1>8 DEF BorrowsItsOwn

\* What the other broadcasts have is left alone.
LEMMA RunLocal ==
  ASSUME Typed, NEW b \in Broadcast, Run(b)
  PROVE  \A c \in Broadcast : c # b =>
           /\ pc'[c] = pc[c] /\ frame'[c] = frame[c] /\ handed'[c] = handed[c] /\ target'[c] = target[c]
           /\ rest'[c] = rest[c] /\ reached'[c] = reached[c] /\ steady'[c] = steady[c]
           /\ active' = active
  <1> USE DEF worldVars, indexVars
  <1>1. CASE Start(b)
    BY <1>1 DEF Start, Goto, Typed, TypeOK
  <1>2. CASE NextMember(b) \/ Lookup(b) \/ Stamp(b)
    BY <1>2 DEF NextMember, Lookup, Stamp, Goto, Typed, TypeOK
  <1>3. CASE Send(b) \/ Push(b)
    BY <1>3 DEF Send, Push, Hand, Goto, Typed, TypeOK
  <1>4. CASE Throw(b) \/ End(b)
    BY <1>4 DEF Throw, End, Over, Goto, Typed, TypeOK
  <1> QED BY <1>1, <1>2, <1>3, <1>4 DEF Run

\* A step of a broadcast keeps the addresses its own.
LEMMA RunBorrows ==
  ASSUME Borrowed, Typed', NEW b \in Broadcast, Run(b)
  PROVE  Borrowed'
  <1> DEFINE CarriesHere ==
         /\ pc'[b] \in {"member", "lookup", "push"} =>
              frame'[b] = LastOf(handed'[b], Len(handed'[b]))
         /\ pc'[b] = "new" => handed'[b] = <<>>
         /\ pc'[b] = "push" => target'[b] = None
  <1>1. BorrowsItsOwn(b)
    BY BorrowsDef DEF Borrowed
  <1>2. ASSUME handed'[b] = <<>>, pc'[b] # "push", frame'[b] = Blank
        PROVE  CarriesHere /\ BorrowsItsOwn(b)'
    <2>1. LastOf(<<>>, 0) = Blank
      BY DEF LastOf
    <2> QED BY <1>2, <2>1 DEF BorrowsItsOwn
  <1>3. CarriesHere /\ BorrowsItsOwn(b)'
    <2>1. CASE Start(b)
      <3>1. handed'[b] = <<>> /\ pc'[b] = "member" /\ frame'[b] = Blank
        BY <2>1 DEF Start, Goto, Borrowed, Carries, Typed, TypeOK
      <3> QED BY <1>2, <3>1
    <2>2. CASE NextMember(b)
      <3>1. /\ handed' = handed /\ frame' = frame /\ pc[b] = "member"
            /\ pc'[b] \in {"member", "lookup"}
        BY <2>2 DEF NextMember, Goto, Borrowed, Typed, TypeOK
      <3> QED BY <1>1, <3>1 DEF Borrowed, Carries, BorrowsItsOwn
    <2>3. CASE Lookup(b)
      <3>1. /\ handed' = handed /\ frame' = frame /\ pc[b] = "lookup"
            /\ pc'[b] \in {"push", "stamp"}
            /\ pc'[b] = "push" => target'[b] = None
        BY <2>3 DEF Lookup, Goto, Borrowed, Typed, TypeOK
      <3> QED BY <1>1, <3>1 DEF Borrowed, Carries, BorrowsItsOwn
    <2>4. CASE Stamp(b)
      <3>1. handed' = handed /\ pc'[b] = "send"
        BY <2>4 DEF Stamp, Goto, Borrowed, Typed, TypeOK
      <3> QED BY <1>1, <3>1 DEF BorrowsItsOwn
    <2>5. CASE Send(b)
      <3>1. target[b] \in Session /\ target[b] # None /\ rest[b] # <<>> /\ frame' = frame
        BY <2>5, NoneAssumption DEF Send, Borrowed, Typed, Aimed
      <3>2. Hand(b, target[b])
        BY <2>5 DEF Send
      <3> QED BY <3>1, <3>2, HandBorrows
    <2>6. CASE Push(b)
      <3>1. Hand(b, None) /\ pc[b] = "push" /\ rest[b] # <<>> /\ frame' = frame
        BY <2>6 DEF Push, Borrowed, Typed, Aimed
      <3> QED BY <3>1, HandBorrows
    <2>7. ASSUME NEW how \in {"done", "failed"}, Over(b, how)
          PROVE  CarriesHere /\ BorrowsItsOwn(b)'
      <3>1. handed'[b] = <<>> /\ pc'[b] = how /\ frame'[b] = Blank
        BY <2>7 DEF Over, Goto, Borrowed, Typed, TypeOK
      <3> QED BY <1>2, <3>1
    <2> QED BY <2>1, <2>2, <2>3, <2>4, <2>5, <2>6, <2>7 DEF Run, Throw, End
  <1>4. ASSUME NEW c \in Broadcast, c # b
        PROVE  /\ pc'[c] = pc[c] /\ frame'[c] = frame[c] /\ handed'[c] = handed[c]
               /\ target'[c] = target[c] /\ BorrowsItsOwn(c)'
    <2>1. pc'[c] = pc[c] /\ frame'[c] = frame[c] /\ handed'[c] = handed[c] /\ target'[c] = target[c]
      BY <1>4, RunLocal DEF Borrowed
    <2>2. BorrowsItsOwn(c)
      BY BorrowsDef DEF Borrowed
    <2> QED BY <2>1, <2>2 DEF BorrowsItsOwn
  <1>5. Carries'
    BY <1>3, <1>4 DEF Borrowed, Carries
  <1>6. \A c \in Broadcast : BorrowsItsOwn(c)'
    BY <1>3, <1>4
  <1>7. PushBorrowsItsOwn'
    BY <1>6 DEF PushBorrowsItsOwn, BorrowsItsOwn, LastOf
  <1> QED BY <1>5, <1>7 DEF Borrowed

\* A push carries no address, or the one its own broadcast gave the frame for the last
\* recipient with a session.
THEOREM PushesHold == Spec => []PushBorrowsItsOwn
  <1>1. Init /\ Typed => Borrowed
    BY DEF Init, Borrowed, Carries, PushBorrowsItsOwn
  <1>2. Borrowed /\ Typed' /\ [Next]_vars => Borrowed'
    <2> SUFFICES ASSUME Borrowed, Typed', [Next]_vars PROVE Borrowed'
      OBVIOUS
    <2>1. CASE UNCHANGED threadVars
      <3>1. Carries'
        BY <2>1 DEF threadVars, Borrowed, Carries
      <3>2. \A b \in Broadcast : BorrowsItsOwn(b)
        BY BorrowsDef DEF Borrowed
      <3>3. \A b \in Broadcast : BorrowsItsOwn(b)'
        BY <2>1, <3>2 DEF threadVars, BorrowsItsOwn
      <3>4. PushBorrowsItsOwn'
        BY <3>3 DEF PushBorrowsItsOwn, BorrowsItsOwn, LastOf
      <3> QED BY <3>1, <3>4 DEF Borrowed
    <2>2. UNCHANGED vars \/ World => UNCHANGED threadVars
      BY DEF vars, World, GatewayStarts, Flip, PutBegins, PutEnds, Disposes, WayChanges
    <2> QED BY <2>1, <2>2, RunBorrows DEF Next
  <1>3. Borrowed => PushBorrowsItsOwn
    BY DEF Borrowed
  <1> QED BY <1>1, <1>2, <1>3, TypedInvariance, PTL DEF Spec
--------------------------------------------------------------------------------
(* How often a list names a device *)

\* Counting one position more.
LEMMA CountAppend ==
  ASSUME NEW seq \in Seq(Device), NEW x \in Device, NEW d \in Device
  PROVE  /\ Count(seq, d) \in Nat
         /\ Count(Append(seq, x), d) = IF x = d THEN Count(seq, d) + 1 ELSE Count(seq, d)
  <1> DEFINE n == Len(seq)
             here == {i \in DOMAIN seq : seq[i] = d}
             there == {i \in DOMAIN Append(seq, x) : Append(seq, x)[i] = d}
  <1>1. /\ n \in Nat /\ DOMAIN seq = 1 .. n /\ DOMAIN Append(seq, x) = 1 .. n + 1
        /\ Append(seq, x)[n + 1] = x
        /\ \A i \in 1 .. n : Append(seq, x)[i] = seq[i]
    OBVIOUS
  <1>2. IsFiniteSet(here) /\ n + 1 \notin here
    <2>1. IsFiniteSet(1 .. n)
      BY <1>1, FS_Interval
    <2>2. here \in SUBSET (1 .. n) /\ n + 1 \notin 1 .. n
      BY <1>1
    <2> QED BY <2>1, <2>2, FS_Subset
  <1>3. Cardinality(here) \in Nat
    BY <1>2, FS_CardinalityType
  <1>4. there = IF x = d THEN here \cup {n + 1} ELSE here
    <2>1. 1 .. n + 1 = (1 .. n) \cup {n + 1}
      BY <1>1
    <2>2. \A i : i \in there <=> i \in here \/ (i = n + 1 /\ x = d)
      BY <1>1, <2>1
    <2> QED BY <2>2
  <1>5. Cardinality(here \cup {n + 1}) = Cardinality(here) + 1
    BY <1>2, FS_AddElement
  <1> QED BY <1>3, <1>4, <1>5 DEF Count

\* Counting the head apart.
LEMMA CountTail ==
  ASSUME NEW seq \in Seq(Device), seq # <<>>, NEW d \in Device
  PROVE  Count(seq, d) = IF Head(seq) = d THEN Count(Tail(seq), d) + 1 ELSE Count(Tail(seq), d)
  <1> DEFINE n == Len(Tail(seq))
             all == {i \in DOMAIN seq : seq[i] = d}
             behind == {i \in DOMAIN Tail(seq) : Tail(seq)[i] = d}
             later == {i \in 2 .. n + 1 : seq[i] = d}
             shift == [i \in behind |-> i + 1]
  <1>1. /\ n \in Nat /\ DOMAIN seq = 1 .. n + 1 /\ DOMAIN Tail(seq) = 1 .. n
        /\ \A i \in 1 .. n : Tail(seq)[i] = seq[i + 1]
        /\ Head(seq) = seq[1]
    OBVIOUS
  <1>2. IsFiniteSet(behind)
    <2>1. behind \in SUBSET (1 .. n)
      BY <1>1
    <2>2. IsFiniteSet(1 .. n)
      BY <1>1, FS_Interval
    <2> QED BY <2>1, <2>2, FS_Subset
  <1>3. shift \in Bijection(behind, later)
    <2>1. ASSUME NEW i \in behind PROVE i + 1 \in later
      BY <1>1
    <2>2. \A i, j \in behind : i + 1 = j + 1 => i = j
      BY <1>1
    <2>3. ASSUME NEW k \in later PROVE \E i \in behind : k = i + 1
      <3>1. k - 1 \in 1 .. n /\ (k - 1) + 1 = k /\ seq[k] = d
        BY <1>1
      <3>2. k - 1 \in behind
        BY <1>1, <3>1
      <3> QED BY <3>1, <3>2
    <2> HIDE DEF behind, later
    <2>4. shift \in [behind -> later] /\ \A i \in behind : shift[i] = i + 1
      BY <2>1
    <2>5. \A i, j \in behind : shift[i] = shift[j] => i = j
      BY <2>2, <2>4
    <2>6. \A k \in later : \E i \in behind : shift[i] = k
      BY <2>3, <2>4
    <2> HIDE DEF shift
    <2> QED BY <2>4, <2>5, <2>6 DEF Bijection, Injection, Surjection, IsInjective
  <1>4. IsFiniteSet(later) /\ Cardinality(later) = Cardinality(behind)
    <2>1. ExistsBijection(behind, later)
      BY <1>3, Zenon DEF ExistsBijection
    <2> QED BY <1>2, <2>1, FS_Bijection, Zenon
  <1>5. Cardinality(behind) \in Nat
    BY <1>2, FS_CardinalityType
  <1>6. all = IF Head(seq) = d THEN later \cup {1} ELSE later
    <2>1. \A i : i \in all <=> i \in later \/ (i = 1 /\ Head(seq) = d)
      BY <1>1
    <2> QED BY <2>1
  <1>7. Cardinality(later \cup {1}) = Cardinality(later) + 1
    <2>1. 1 \notin later
      OBVIOUS
    <2> QED BY <1>4, <2>1, FS_AddElement
  <1> QED BY <1>4, <1>5, <1>6, <1>7 DEF Count

\* An empty list names none.
LEMMA CountEmpty ==
  ASSUME NEW seq, seq = <<>>, NEW d
  PROVE  Count(seq, d) = 0
  <1>1. {i \in DOMAIN seq : seq[i] = d} = {}
    OBVIOUS
  <1> QED BY <1>1, FS_EmptySet DEF Count
--------------------------------------------------------------------------------
(* Who is handed a frame, and who is returned *)

\* A broadcast that has picked its next recipient, and one that is under way.
Picked(b) == pc[b] \in {"lookup", "stamp", "send", "push"}
Going(b) == pc[b] = "member" \/ Picked(b)

\* The list a broadcast returns is that of its recipients, with the one it has picked.
Lists(b) ==
  /\ pc[b] = "new" => handed[b] = <<>> /\ reached[b] = <<>>
  /\ pc[b] = "member" => reached[b] = Recipients(b)
  /\ Picked(b) => reached[b] = Append(Recipients(b), Head(rest[b]))

\* Of a device whose flag stayed as it was, a broadcast has served, or passed over, every
\* mention it has come to.
Serves(b) ==
  Going(b) => \A d \in steady[b].flag :
    /\ active[d] => Count(Recipients(b), d) + Count(rest[b], d) = Count(Members, d)
    /\ ~active[d] => Count(Recipients(b), d) = 0 /\ (Picked(b) => Head(rest[b]) # d)

Dealt == Typed /\ \A b \in Broadcast : Lists(b) /\ Serves(b)

\* What a broadcast has to count.
LEMMA Lengths ==
  ASSUME Typed, NEW b \in Broadcast
  PROVE  /\ Recipients(b) \in Seq(Device) /\ rest[b] \in Seq(Device)
         /\ steady[b].flag \in SUBSET Device
         /\ rest[b] # <<>> => Head(rest[b]) \in Device /\ Tail(rest[b]) \in Seq(Device)
  <1>1. handed[b] \in Seq(Handing) /\ rest[b] \in Seq(Device) /\ steady[b].flag \in SUBSET Device
    BY DEF Typed, TypeOK
  <1>2. \A i \in 1 .. Len(handed[b]) : handed[b][i].to \in Device
    <2>1. \A i \in 1 .. Len(handed[b]) : handed[b][i] \in Handing
      BY <1>1
    <2> QED BY <2>1 DEF Handing
  <1>3. Recipients(b) \in Seq(Device)
    BY <1>1, <1>2 DEF Recipients
  <1> QED BY <1>1, <1>3

\* A change of a flag takes its device out of the account; the rest of the world has no
\* part in it.
LEMMA WorldDeals ==
  ASSUME Dealt, Typed', World
  PROVE  Dealt'
  <1>1. UNCHANGED threadVars
    BY DEF World, GatewayStarts, Flip, PutBegins, PutEnds, Disposes, WayChanges
  <1>2. ASSUME NEW b \in Broadcast, NEW d \in steady'[b].flag
        PROVE  d \in steady[b].flag /\ active'[d] = active[d]
    <2>1. CASE GatewayStarts
      BY <1>2, <2>1 DEF GatewayStarts
    <2>2. ASSUME NEW e \in Device, Flip(e) PROVE d \in steady[b].flag /\ active'[d] = active[d]
      <3>1. d \in steady[b].flag \ {e}
        BY <1>2, <2>2 DEF Flip, Dealt, Typed, TypeOK
      <3> QED BY <2>2, <3>1 DEF Flip, Dealt, Typed, TypeOK
    <2>3. ASSUME NEW s \in Session, (\E e \in Device : PutBegins(s, e)) \/ PutEnds(s) \/ Disposes(s)
          PROVE  d \in steady[b].flag /\ active'[d] = active[d]
      <3>1. active' = active /\ steady[b] \in [flag : SUBSET Device, way : SUBSET Device]
        BY <2>3 DEF PutBegins, PutEnds, Disposes, WayChanges, Dealt, Typed, TypeOK
      <3>2. \E way : steady'[b] = [steady[b] EXCEPT !.way = way]
        BY <2>3 DEF PutBegins, PutEnds, Disposes, WayChanges
      <3>3. steady'[b].flag = steady[b].flag
        BY <3>1, <3>2
      <3> QED BY <1>2, <3>1, <3>3
    <2> QED BY <2>1, <2>2, <2>3 DEF World
  <1>3. ASSUME NEW b \in Broadcast PROVE Lists(b)' /\ Serves(b)'
    <2>1. /\ pc' = pc /\ handed' = handed /\ reached' = reached /\ rest' = rest
          /\ Lists(b) /\ Serves(b)
      BY <1>1 DEF threadVars, Dealt
    <2>2. Lists(b)'
      BY <2>1 DEF Lists, Picked, Recipients
    <2>3. Serves(b)'
      BY <1>2, <2>1 DEF Serves, Going, Picked, Recipients
    <2> QED BY <2>2, <2>3
  <1> QED BY <1>3 DEF Dealt

\* A handing over adds the head of the list to the recipients.
LEMMA HandAppends ==
  ASSUME Typed, NEW b \in Broadcast, NEW how \in Session \cup {None}, rest[b] # <<>>, Hand(b, how)
  PROVE  Recipients(b)' = Append(Recipients(b), Head(rest[b]))
  <1> DEFINE x == Head(rest[b])
             item == [to |-> x, via |-> how, address |-> frame[b]]
             n == Len(handed[b])
  <1>1. /\ Recipients(b) \in Seq(Device) /\ handed[b] \in Seq(Handing) /\ x \in Device
        /\ item \in Handing /\ n \in Nat
    <2>1. handed[b] \in Seq(Handing) /\ frame[b] \in Address
      BY DEF Typed, TypeOK
    <2>2. Recipients(b) \in Seq(Device) /\ x \in Device
      BY Lengths
    <2>3. item \in Handing
      BY <2>1, <2>2 DEF Handing
    <2> QED BY <2>1, <2>2, <2>3
  <1>2. handed'[b] = Append(handed[b], item)
    BY DEF Hand, Typed, TypeOK
  <1>3. /\ DOMAIN handed'[b] = 1 .. n + 1 /\ DOMAIN handed[b] = 1 .. n
        /\ handed'[b][n + 1] = item
        /\ \A i \in 1 .. n : handed'[b][i] = handed[b][i]
    BY <1>1, <1>2
  <1>4. /\ Recipients(b)' = [i \in 1 .. n + 1 |-> handed'[b][i].to]
        /\ Recipients(b) = [i \in 1 .. n |-> handed[b][i].to]
        /\ Len(Recipients(b)) = n
    BY <1>1, <1>3 DEF Recipients
  <1>5. /\ Append(Recipients(b), x) \in Seq(Device)
        /\ DOMAIN Append(Recipients(b), x) = 1 .. n + 1
        /\ Append(Recipients(b), x)[n + 1] = x
        /\ \A i \in 1 .. n : Append(Recipients(b), x)[i] = Recipients(b)[i]
    BY <1>1, <1>4
  <1>6. \A i \in 1 .. n + 1 : handed'[b][i].to = Append(Recipients(b), x)[i]
    BY <1>3, <1>4, <1>5, <1>1
  <1>7. Append(Recipients(b), x) = [i \in 1 .. n + 1 |-> Append(Recipients(b), x)[i]]
    BY <1>5
  <1> QED BY <1>4, <1>6, <1>7

\* A handing over moves the head of the list to the recipients.
LEMMA HandDeals ==
  ASSUME Dealt, NEW b \in Broadcast, NEW how \in Session \cup {None}, Picked(b), Hand(b, how),
         reached' = reached, steady' = steady, active' = active
  PROVE  Lists(b)' /\ Serves(b)'
  <1> DEFINE x == Head(rest[b])
  <1>1. /\ rest[b] # <<>> /\ x \in Device /\ rest[b] \in Seq(Device) /\ Recipients(b) \in Seq(Device)
        /\ steady[b].flag \in SUBSET Device
    <2>1. Typed /\ rest[b] # <<>>
      BY DEF Dealt, Typed, Aimed, Picked
    <2> QED BY <2>1, Lengths
  <1>2. rest'[b] = Tail(rest[b]) /\ pc'[b] = "member"
    BY DEF Hand, Goto, Dealt, Typed, TypeOK
  <1>3. Recipients(b)' = Append(Recipients(b), x)
    BY <1>1, HandAppends DEF Dealt
  <1>4. Lists(b)'
    BY <1>2, <1>3 DEF Dealt, Lists, Picked
  <1>5. ASSUME NEW d \in steady[b].flag
        PROVE  /\ active[d] => Count(Append(Recipients(b), x), d) + Count(Tail(rest[b]), d) = Count(Members, d)
               /\ ~active[d] => Count(Append(Recipients(b), x), d) = 0
    <2>1. /\ active[d] => Count(Recipients(b), d) + Count(rest[b], d) = Count(Members, d)
          /\ ~active[d] => Count(Recipients(b), d) = 0 /\ x # d
      BY DEF Dealt, Serves, Going
    <2>2. /\ Count(Recipients(b), d) \in Nat
          /\ Count(Append(Recipients(b), x), d) =
               IF x = d THEN Count(Recipients(b), d) + 1 ELSE Count(Recipients(b), d)
      BY <1>1, CountAppend
    <2>3. Count(rest[b], d) = IF x = d THEN Count(Tail(rest[b]), d) + 1 ELSE Count(Tail(rest[b]), d)
      BY <1>1, CountTail
    <2>4. Count(Tail(rest[b]), d) \in Nat
      <3>1. Tail(rest[b]) \in Seq(Device)
        BY <1>1
      <3> QED BY <1>1, <3>1, CountAppend
    <2> QED BY <2>1, <2>2, <2>3, <2>4
  <1>6. Serves(b)'
    BY <1>2, <1>3, <1>5 DEF Serves, Going, Picked
  <1> QED BY <1>4, <1>6

\* A step of a broadcast keeps its own account.
LEMMA RunDeals ==
  ASSUME Dealt, Typed', NEW b \in Broadcast, Run(b)
  PROVE  Lists(b)' /\ Serves(b)'
  <1>1. CASE Start(b)
    <2>1. /\ handed'[b] = <<>> /\ reached'[b] = <<>> /\ pc'[b] = "member" /\ rest'[b] = Members
      BY <1>1 DEF Start, Goto, Dealt, Lists, Typed, TypeOK
    <2>2. Recipients(b)' = <<>>
      BY <2>1 DEF Recipients
    <2>3. Lists(b)'
      BY <2>1, <2>2 DEF Lists, Picked
    <2>4. \A d : Count(<<>>, d) = 0
      BY CountEmpty
    <2>5. \A d \in Device : Count(Members, d) \in Nat
      BY MembersAssumption, CountAppend
    <2>6. steady'[b].flag \in SUBSET Device
      BY Lengths DEF Typed, TypeOK
    <2>7. Serves(b)'
      BY <2>1, <2>2, <2>4, <2>5, <2>6 DEF Serves, Picked
    <2> QED BY <2>3, <2>7
  <1>2. CASE NextMember(b)
    <2> DEFINE x == Head(rest[b])
    <2>1. /\ handed' = handed /\ steady' = steady /\ active' = active
          /\ pc[b] = "member" /\ rest[b] # <<>> /\ reached[b] = Recipients(b)
      BY <1>2 DEF NextMember, Dealt, Lists, worldVars, indexVars
    <2>2. Recipients(b)' = Recipients(b)
      BY <2>1 DEF Recipients
    <2>3. ASSUME NEW d \in steady[b].flag
          PROVE  /\ active[d] => Count(Recipients(b), d) + Count(rest[b], d) = Count(Members, d)
                 /\ ~active[d] => Count(Recipients(b), d) = 0
      BY <2>1 DEF Dealt, Serves, Going
    <2>4. CASE active[x]
      <3>1. /\ reached'[b] = Append(Recipients(b), x) /\ pc'[b] = "lookup" /\ rest' = rest
        BY <1>2, <2>1, <2>4 DEF NextMember, Goto, Dealt, Typed, TypeOK
      <3>2. Lists(b)'
        BY <2>2, <3>1 DEF Lists, Picked
      <3>3. Serves(b)'
        BY <2>1, <2>2, <2>3, <2>4, <3>1 DEF Serves, Going, Picked
      <3> QED BY <3>2, <3>3
    <2>5. CASE ~active[x]
      <3>1. /\ rest'[b] = Tail(rest[b]) /\ pc' = pc /\ reached' = reached
        BY <1>2, <2>1, <2>5 DEF NextMember, Dealt, Typed, TypeOK
      <3>2. Lists(b)'
        BY <2>1, <2>2, <3>1 DEF Lists, Picked
      <3>3. \A d \in steady[b].flag : active[d] => Count(Tail(rest[b]), d) = Count(rest[b], d)
        BY <2>1, <2>5, Lengths, CountTail DEF Dealt
      <3>4. Serves(b)'
        BY <2>1, <2>2, <2>3, <3>1, <3>3 DEF Serves, Going, Picked
      <3> QED BY <3>2, <3>4
    <2> QED BY <2>4, <2>5
  <1>3. CASE Lookup(b) \/ Stamp(b)
    <2>1. /\ handed' = handed /\ steady' = steady /\ active' = active /\ rest' = rest
          /\ reached' = reached
          /\ pc[b] \in {"lookup", "stamp"} /\ pc'[b] \in {"push", "stamp", "send"}
      BY <1>3 DEF Lookup, Stamp, Goto, Dealt, Typed, TypeOK, worldVars, indexVars
    <2>2. Lists(b)'
      BY <2>1 DEF Dealt, Lists, Picked, Recipients
    <2>3. Serves(b)'
      BY <2>1 DEF Dealt, Serves, Going, Picked, Recipients
    <2> QED BY <2>2, <2>3
  <1>4. CASE Send(b)
    <2>1. /\ target[b] \in Session /\ Picked(b) /\ Hand(b, target[b])
          /\ reached' = reached /\ steady' = steady /\ active' = active
      BY <1>4 DEF Send, Picked, Dealt, Typed, Aimed, worldVars, indexVars
    <2> QED BY <2>1, HandDeals
  <1>5. CASE Push(b)
    <2>1. /\ Picked(b) /\ Hand(b, None)
          /\ reached' = reached /\ steady' = steady /\ active' = active
      BY <1>5 DEF Push, Picked, worldVars, indexVars
    <2> QED BY <2>1, HandDeals
  <1>6. CASE Throw(b) \/ End(b)
    <2>1. pc'[b] \in {"done", "failed"}
      BY <1>6 DEF Throw, End, Over, Goto, Dealt, Typed, TypeOK
    <2> QED BY <2>1 DEF Lists, Serves, Going, Picked
  <1> QED BY <1>1, <1>2, <1>3, <1>4, <1>5, <1>6 DEF Run

\* The account is inductive.
LEMMA DealtStep == Dealt /\ Typed' /\ [Next]_vars => Dealt'
  <1> SUFFICES ASSUME Dealt, Typed', [Next]_vars PROVE Dealt'
    OBVIOUS
  <1>1. CASE UNCHANGED vars
    BY <1>1 DEF vars, worldVars, indexVars, threadVars, Dealt, Lists, Serves, Going, Picked, Recipients
  <1>2. ASSUME NEW b \in Broadcast, Run(b) PROVE Dealt'
    <2>1. ASSUME NEW c \in Broadcast, c # b PROVE Lists(c)' /\ Serves(c)'
      <3>1. /\ pc'[c] = pc[c] /\ handed'[c] = handed[c] /\ rest'[c] = rest[c]
            /\ reached'[c] = reached[c] /\ steady'[c] = steady[c] /\ active' = active
            /\ Lists(c) /\ Serves(c)
        BY <1>2, <2>1, RunLocal DEF Dealt
      <3> QED BY <3>1 DEF Lists, Serves, Going, Picked, Recipients
    <2> QED BY <1>2, <2>1, RunDeals DEF Dealt
  <1> QED BY <1>1, <1>2, WorldDeals DEF Next

\* Only a broadcast that has come to the end of its list ends without a fault.
LEMMA EndsAtTheEnd ==
  ASSUME Typed, [Next]_vars, NEW b \in Broadcast, Ends(b)
  PROVE  rest[b] = <<>> /\ handed[b] \in Seq(Handing)
  <1>1. pc[b] = "member" /\ pc'[b] = "done"
    BY DEF Ends
  <1>2. Run(b)
    <2>1. pc' # pc
      BY <1>1
    <2>2. ~World /\ ~UNCHANGED vars
      BY <2>1 DEF World, GatewayStarts, Flip, PutBegins, PutEnds, Disposes, WayChanges, vars, threadVars
    <2> QED BY <1>1, <2>2, RunLocal DEF Next
  <1>3. CASE End(b)
    BY <1>3 DEF End, Typed, TypeOK
  <1>4. CASE Throw(b)
    BY <1>1, <1>4 DEF Throw, Over, Goto, Typed, TypeOK
  <1>5. CASE Start(b) \/ NextMember(b) \/ Lookup(b) \/ Stamp(b) \/ Send(b) \/ Push(b)
    BY <1>1, <1>5 DEF Start, NextMember, Lookup, Stamp, Send, Push, Goto, Typed, TypeOK
  <1> QED BY <1>2, <1>3, <1>4, <1>5 DEF Run

\* A broadcast that ends without a fault has handed its frame to each device whose flag
\* stayed as it was, as often as the channel lists it if it is active and never if it is
\* not, and returns those it handed it to: whatever the members and their repetitions.
THEOREM HandedHolds == Spec => HandedToActive
  <1>1. Init /\ Typed => Dealt
    BY DEF Init, Dealt, Lists, Serves, Going, Picked
  <1>2. ASSUME Dealt, [Next]_vars, NEW b \in Broadcast, Ends(b)
        PROVE  /\ reached[b] = Recipients(b)
               /\ \A d \in steady[b].flag :
                    Count(Recipients(b), d) = IF active[d] THEN Count(Members, d) ELSE 0
    <2>1. pc[b] = "member" /\ Lists(b) /\ Serves(b) /\ Typed
      BY <1>2 DEF Ends, Dealt
    <2>2. rest[b] = <<>> /\ \A d : Count(rest[b], d) = 0
      BY <1>2, <2>1, EndsAtTheEnd, CountEmpty
    <2>3. \A d \in steady[b].flag : Count(Recipients(b), d) \in Nat
      BY <2>1, Lengths, CountAppend
    <2>4. reached[b] = Recipients(b)
      BY <2>1 DEF Lists
    <2>5. ASSUME NEW d \in steady[b].flag
          PROVE  Count(Recipients(b), d) = IF active[d] THEN Count(Members, d) ELSE 0
      BY <2>1, <2>2, <2>3 DEF Serves, Going
    <2> QED BY <2>4, <2>5
  <1>3. Dealt /\ [Next]_vars =>
          [\A b \in Broadcast : Ends(b) =>
             /\ reached[b] = Recipients(b)
             /\ \A d \in steady[b].flag :
                  Count(Recipients(b), d) = IF active[d] THEN Count(Members, d) ELSE 0]_vars
    BY <1>2
  <1> QED BY <1>1, <1>3, DealtStep, TypedInvariance, PTL DEF Spec, HandedToActive
--------------------------------------------------------------------------------
(* That a broadcast goes through its list once *)

\* A step of a broadcast is a step of its own round.
LEMMA OneRound ==
  ASSUME Typed, NEW b \in Broadcast, Run(b), pc' \in [Broadcast -> Steps], rest' \in [Broadcast -> Seq(Device)]
  PROVE  /\ Stages' = [Stages EXCEPT ![b] = Stages'[b]]
         /\ rest' = [rest EXCEPT ![b] = rest'[b]]
         /\ Serveds' = [Serveds EXCEPT ![b] = Serveds'[b]]
         /\ Serveds[b] = Recipients(b) /\ Serveds'[b] = Recipients(b)'
  <1>1. \A c \in Broadcast : c # b => pc'[c] = pc[c] /\ rest'[c] = rest[c] /\ handed'[c] = handed[c]
    BY RunLocal
  <1>2. \A c \in Broadcast : c # b => Recipients(c)' = Recipients(c)
    BY <1>1 DEF Recipients
  <1>3. rest' = [rest EXCEPT ![b] = rest'[b]]
    BY <1>1 DEF Typed, TypeOK
  <1>4. Stages' = [Stages EXCEPT ![b] = Stages'[b]]
    BY <1>1 DEF Stages
  <1>5. Serveds' = [Serveds EXCEPT ![b] = Serveds'[b]]
    BY <1>2 DEF Serveds
  <1> QED BY <1>3, <1>4, <1>5 DEF Serveds

\* A step that moves no round.
LEMMA SameRound ==
  ASSUME UNCHANGED <<rest, handed>>, Stages' = Stages
  PROVE  UNCHANGED <<Stages, rest, Serveds>>
  BY DEF Serveds, Recipients

LEMMA StartBegins ==
  ASSUME Dealt, Typed', NEW b \in Broadcast, Start(b)
  PROVE  Rounds!Begin(b)
  <1>1. /\ pc[b] = "new" /\ pc'[b] = "member" /\ handed' = handed
        /\ rest' = [rest EXCEPT ![b] = Members]
    BY DEF Start, Goto, Dealt, Typed, TypeOK
  <1>2. Stages[b] = "new" /\ Stages'[b] = "on" /\ UNCHANGED Serveds
    BY <1>1 DEF Stages, Serveds, Recipients
  <1>3. Stages' = [Stages EXCEPT ![b] = "on"]
    BY <1>2, OneRound DEF Dealt, Typed, TypeOK, Run
  <1> QED BY <1>1, <1>2, <1>3 DEF Rounds!Begin

LEMMA NextMemberPasses ==
  ASSUME Dealt, Typed', NEW b \in Broadcast, NextMember(b)
  PROVE  UNCHANGED <<Stages, rest, Serveds>> \/ Rounds!PassOver(b)
  <1>1. pc[b] = "member" /\ rest[b] # <<>> /\ handed' = handed
    BY DEF NextMember
  <1>2. CASE Goto(b, "lookup") /\ UNCHANGED rest
    <2>1. Stages' = Stages
      BY <1>1, <1>2 DEF Goto, Stages, Dealt, Typed, TypeOK
    <2> QED BY <1>1, <1>2, <2>1, SameRound
  <1>3. CASE rest' = [rest EXCEPT ![b] = Tail(@)] /\ UNCHANGED pc
    <2>1. Stages[b] = "on" /\ UNCHANGED <<Stages, Serveds>>
      BY <1>1, <1>3 DEF Stages, Serveds, Recipients
    <2> QED BY <1>1, <1>3, <2>1 DEF Rounds!PassOver, Rounds!Turn
  <1> QED BY <1>2, <1>3 DEF NextMember

LEMMA HandServes ==
  ASSUME Dealt, Typed', NEW b \in Broadcast, Send(b) \/ Push(b)
  PROVE  Rounds!Serve(b)
  <1>1. PICK how \in Session \cup {None} : Hand(b, how)
    BY DEF Send, Push, Dealt, Typed, Aimed
  <1>2. pc[b] \in {"send", "push"} /\ rest[b] # <<>> /\ Run(b)
    BY DEF Send, Push, Run, Dealt, Typed, Aimed
  <1>3. pc'[b] = "member" /\ rest' = [rest EXCEPT ![b] = Tail(@)]
    BY <1>1 DEF Hand, Goto, Dealt, Typed, TypeOK
  <1>4. Recipients(b)' = Append(Recipients(b), Head(rest[b]))
    BY <1>1, <1>2, HandAppends DEF Dealt
  <1>5. Stages[b] = "on" /\ Stages'[b] = "on" /\ DOMAIN Stages = Broadcast
    BY <1>2, <1>3 DEF Stages
  <1>6. /\ Stages' = [Stages EXCEPT ![b] = "on"]
        /\ Serveds' = [Serveds EXCEPT ![b] = Append(Recipients(b), Head(rest[b]))]
        /\ Serveds[b] = Recipients(b)
    <2>1. Typed /\ pc' \in [Broadcast -> Steps] /\ rest' \in [Broadcast -> Seq(Device)]
      BY DEF Dealt, Typed, TypeOK
    <2>2. /\ Stages' = [Stages EXCEPT ![b] = Stages'[b]]
          /\ Serveds' = [Serveds EXCEPT ![b] = Serveds'[b]]
          /\ Serveds[b] = Recipients(b) /\ Serveds'[b] = Recipients(b)'
      BY <1>2, <2>1, OneRound
    <2> QED BY <1>4, <1>5, <2>2
  <1>7. Stages' = Stages
    BY <1>5, <1>6 DEF Stages
  <1>8. Serveds' = [Serveds EXCEPT ![b] = Append(@, Head(rest[b]))]
    BY <1>6 DEF Serveds
  <1> QED BY <1>2, <1>3, <1>5, <1>7, <1>8 DEF Rounds!Serve, Rounds!Turn

LEMMA OverCloses ==
  ASSUME Dealt, Typed', NEW b \in Broadcast, Run(b), pc[b] \in {"member", "push"},
         NEW how \in {"done", "failed"}, Over(b, how)
  PROVE  Rounds!Close(b, how)
  <1>1. pc'[b] = how /\ rest' = [rest EXCEPT ![b] = <<>>] /\ handed'[b] = <<>>
    BY DEF Over, Goto, Dealt, Typed, TypeOK
  <1>2. Stages[b] = "on" /\ Stages'[b] = how /\ Serveds'[b] = <<>>
    BY <1>1 DEF Stages, Serveds, Recipients
  <1>3. Stages' = [Stages EXCEPT ![b] = how] /\ Serveds' = [Serveds EXCEPT ![b] = <<>>]
    BY <1>2, OneRound DEF Dealt, Typed, TypeOK
  <1> QED BY <1>1, <1>2, <1>3 DEF Rounds!Close

LEMMA StepRuns ==
  Dealt /\ Typed' /\ [Next]_vars => [Rounds!RoundsNext]_(Rounds!roundVars)
  <1> SUFFICES ASSUME Dealt, Typed', [Next]_vars
               PROVE  Rounds!RoundsNext \/ UNCHANGED <<Stages, rest, Serveds>>
    BY DEF Rounds!roundVars
  <1>1. CASE World \/ UNCHANGED vars
    <2>1. UNCHANGED <<pc, rest, handed>>
      BY <1>1 DEF World, GatewayStarts, Flip, PutBegins, PutEnds, Disposes, WayChanges, vars, threadVars
    <2> QED BY <2>1, SameRound DEF Stages
  <1>2. ASSUME NEW b \in Broadcast, Start(b) \/ NextMember(b) \/ Send(b) \/ Push(b)
        PROVE  Rounds!RoundsNext \/ UNCHANGED <<Stages, rest, Serveds>>
    BY <1>2, StartBegins, NextMemberPasses, HandServes DEF Rounds!RoundsNext
  <1>3. ASSUME NEW b \in Broadcast, Lookup(b) \/ Stamp(b)
        PROVE  UNCHANGED <<Stages, rest, Serveds>>
    <2>1. /\ UNCHANGED <<rest, handed>>
          /\ pc[b] \in {"lookup", "stamp"}
          /\ \E step \in {"push", "stamp", "send"} : Goto(b, step)
      BY <1>3 DEF Lookup, Stamp
    <2>2. Stages' = Stages
      BY <2>1 DEF Goto, Stages, Dealt, Typed, TypeOK
    <2> QED BY <2>1, <2>2, SameRound
  <1>4. ASSUME NEW b \in Broadcast, End(b) PROVE Rounds!RoundsNext
    <2>1. rest[b] = <<>> /\ Rounds!Close(b, "done")
      BY <1>4, OverCloses DEF End, Run
    <2> QED BY <2>1 DEF Rounds!Finish, Rounds!RoundsNext
  <1>5. ASSUME NEW b \in Broadcast, Throw(b) PROVE Rounds!RoundsNext
    <2>1. rest[b] # <<>> /\ Rounds!Close(b, "failed")
      BY <1>5, OverCloses DEF Throw, Run, Dealt, Typed, Aimed
    <2> QED BY <2>1 DEF Rounds!BreakOff, Rounds!RoundsNext
  <1> QED BY <1>1, <1>2, <1>3, <1>4, <1>5 DEF Next, Run

\* Delivery implements BroadcastRounds, whatever the members, sessions and push gateways:
\* each member is passed over or handed the frame once, in the order of the list, and a
\* broadcast that returns has come to its end.
THEOREM RunsRounds == Spec => BroadcastAsRun
  <1>1. Init => Rounds!RoundsInit
    BY DEF Init, Rounds!RoundsInit, Stages, Serveds, Recipients
  <1>2. Init /\ Typed => Dealt
    BY DEF Init, Dealt, Lists, Serves, Going, Picked
  <1> QED
    BY <1>1, <1>2, DealtStep, StepRuns, TypedInvariance, PTL DEF Spec, BroadcastAsRun, Rounds!RoundsSpec
================================================================================
