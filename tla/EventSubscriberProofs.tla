----------------------- MODULE EventSubscriberProofs -----------------------
(***************************************************************************)
(* Proofs about EventSubscriber, for any number of events, handlers,       *)
(* processes, deliveries, crashes and failures of the database.            *)
(***************************************************************************)
EXTENDS EventSubscriber, TLAPS

\* The handlers of an event, as tasks and as turns.
LEMMA TurnFacts ==
    /\ \A a \in Attempts : Ev(a) \in Events /\ HandlerCount[Ev(a)] \in Nat
    /\ \A a \in Attempts : \A h \in 1..HandlerCount[Ev(a)] :
           <<a, h>> \in Turns /\ <<Ev(a), h>> \in Tasks
    /\ \A t \in Tasks : t = <<t[1], t[2]>> /\ t[1] \in Events /\ t[2] \in 1..HandlerCount[t[1]]
    /\ \A t \in Turns : t = <<t[1], t[2]>> /\ t[1] \in Attempts /\ t[2] \in 1..HandlerCount[Ev(t[1])]
<1>1. \A a \in Attempts : Ev(a) \in Events /\ HandlerCount[Ev(a)] \in Nat
    BY EventsAssumption DEF Attempts, Ev
<1>2. \A a \in Attempts : \A h \in 1..HandlerCount[Ev(a)] :
          <<a, h>> \in Turns /\ <<Ev(a), h>> \in Tasks
    BY <1>1 DEF Turns, Tasks
<1>3. \A t \in Tasks : t = <<t[1], t[2]>> /\ t[1] \in Events /\ t[2] \in 1..HandlerCount[t[1]]
    BY DEF Tasks
<1>4. \A t \in Turns : t = <<t[1], t[2]>> /\ t[1] \in Attempts /\ t[2] \in 1..HandlerCount[Ev(t[1])]
    BY DEF Turns
<1> QED
    BY <1>1, <1>2, <1>3, <1>4

Loop == {"check", "handle", "fail", "send"}
Labels == Loop \cup {"idle", "finish", "done", "over"}

LEMMA TypeInit == Init => TypeOK
BY LimitsAssumption DEF Init, TypeOK

\* An attempt at a handler is in the loop: its turn and its task are of the right type.
LEMMA InLoop ==
    ASSUME TypeOK, NEW a \in Attempts, pc[a] \in Loop
    PROVE  /\ Task(a) \in Tasks /\ <<a, at[a]>> \in Turns
           /\ at[a] \in 1..HandlerCount[Ev(a)] /\ HandlerCount[Ev(a)] \in Nat
           /\ \A k \in Kinds : Msg(k, a) \in Messages
<1>1. Task(a) \in Tasks
    BY DEF TypeOK, Loop
<1>2. at[a] \in 1..HandlerCount[Ev(a)]
    <2>1. /\ <<Ev(a), at[a]>>[1] \in Events
          /\ <<Ev(a), at[a]>>[2] \in 1..HandlerCount[<<Ev(a), at[a]>>[1]]
        BY <1>1, TurnFacts DEF Task
    <2> QED
        BY <2>1
<1>3. <<a, at[a]>> \in Turns
    BY <1>2, TurnFacts
<1> QED
    BY <1>1, <1>2, <1>3, TurnFacts DEF Msg, Messages

LEMMA RaisedMessages ==
    ASSUME TypeOK, NEW a \in Attempts, pc[a] \in Loop, NEW sagaResult \in BOOLEAN
    PROVE  /\ MessagesOfSuccess(a, sagaResult) \subseteq Messages
           /\ MessagesOfFailure(a, sagaResult) \subseteq Messages
<1>1. \A k \in Kinds : Msg(k, a) \in Messages
    BY InLoop
<1>2. \A k : GetSagaReplyMessageStates(a, k, sagaResult) \subseteq {Msg(k, a)}
    BY DEF GetSagaReplyMessageStates, If
<1>3. MessagesOfSuccess(a, sagaResult) \subseteq Messages
    BY <1>1, <1>2, RaisedAssumption DEF MessagesOfSuccess, Kinds, RaisedKinds
<1>4. MessagesOfFailure(a, sagaResult) \subseteq
          {Msg(k, a) : k \in {"anywayEvent", "exceptionEvent", "failSagaReply"}}
    BY DEF MessagesOfFailure, GetSagaReplyMessageStates, If
<1> QED
    BY <1>1, <1>3, <1>4 DEF Kinds, RaisedKinds

\* What Advance does to the attempt.
LEMMA AdvanceType ==
    ASSUME TypeOK, NEW a \in Attempts, pc[a] \in Loop, Advance(a)
    PROVE  /\ pc' \in [Attempts -> Labels] /\ at' \in [Attempts -> Nat]
           /\ ended' \in [Attempts -> {"no", "complete", "exists", "database", "crash"}]
           /\ \A b \in Attempts : pc'[b] \in Loop => Task(b)' \in Tasks
           /\ \A b \in Attempts : b # a => pc'[b] = pc[b] /\ at'[b] = at[b]
           /\ \/ pc'[a] = "check" /\ at'[a] = at[a] + 1
              \/ pc'[a] = "finish" /\ at'[a] = at[a]
<1>1. at[a] \in 1..HandlerCount[Ev(a)] /\ HandlerCount[Ev(a)] \in Nat /\ at[a] \in Nat
    BY InLoop DEF TypeOK
<1>2. CASE at[a] < HandlerCount[Ev(a)]
    <2>1. at' = [at EXCEPT ![a] = at[a] + 1] /\ pc' = [pc EXCEPT ![a] = "check"] /\ ended' = ended
        BY <1>2 DEF Advance
    <2>2. at[a] + 1 \in 1..HandlerCount[Ev(a)] /\ at[a] + 1 \in Nat
        BY <1>1, <1>2
    <2>3. <<Ev(a), at[a] + 1>> \in Tasks
        BY <2>2, TurnFacts
    <2>4. \A b \in Attempts : pc'[b] \in Loop => Task(b)' \in Tasks
        BY <2>1, <2>3 DEF TypeOK, Task, Loop
    <2> QED
        BY <2>1, <2>2, <2>4 DEF TypeOK, Loop, Labels
<1>3. CASE ~(at[a] < HandlerCount[Ev(a)])
    <2>1. at' = at /\ pc' = [pc EXCEPT ![a] = "finish"] /\ ended' = [ended EXCEPT ![a] = "complete"]
        BY <1>3 DEF Advance
    <2>2. \A b \in Attempts : pc'[b] \in Loop => Task(b)' \in Tasks
        BY <2>1 DEF TypeOK, Task, Loop
    <2> QED
        BY <2>1, <2>2 DEF TypeOK, Loop, Labels
<1> QED
    BY <1>2, <1>3

LEMMA SaveType ==
    ASSUME TypeOK, NEW a \in Attempts, pc[a] \in Loop, NEW status \in {"handled", "failed"},
           NEW messages \in SUBSET Messages, Save(a, status, messages)
    PROVE  /\ record' \in [Tasks -> {"none", "handled", "failed"}]
           /\ unSent' \subseteq Messages
           /\ toSend' \in [Attempts -> SUBSET Messages]
           /\ pc' = [pc EXCEPT ![a] = "send"]
<1>1. Task(a) \in Tasks
    BY InLoop
<1> QED
    BY <1>1 DEF Save, TypeOK

LEMMA TypeStep == TypeOK /\ [Next]_vars => TypeOK'
<1> SUFFICES ASSUME TypeOK, [Next]_vars PROVE TypeOK'
    OBVIOUS
<1> USE DEF database, memory
<1>1. ASSUME NEW p \in Processes, NEW e \in Events, Receive(p, e) PROVE TypeOK'
    <2> DEFINE a == <<e, deliveries[e] + 1>>
    <2>1. a \in Attempts /\ Ev(a) = e /\ deliveries[e] + 1 \in 0..MaxDeliveries
        BY <1>1, LimitsAssumption DEF TypeOK, Receive, Attempts, Ev
    <2>2. deliveries' \in [Events -> 0..MaxDeliveries]
        BY <1>1, <2>1 DEF TypeOK, Receive
    <2>3. HandlerCount[e] # 0 => 1 \in 1..HandlerCount[Ev(a)]
        BY <2>1, TurnFacts
    <2>4. HandlerCount[e] # 0 => <<Ev(a), 1>> \in Tasks
        BY <2>1, <2>3, TurnFacts
    <2>5. /\ pc' \in {[pc EXCEPT ![a] = "finish"], [pc EXCEPT ![a] = "check"]}
          /\ HandlerCount[e] = 0 => pc' = [pc EXCEPT ![a] = "finish"]
          /\ at' = [at EXCEPT ![a] = 1] /\ owner' = [owner EXCEPT ![a] = p]
          /\ ended' \in {[ended EXCEPT ![a] = "complete"], ended}
        BY <1>1 DEF Receive
    <2>6. \A b \in Attempts : pc'[b] \in Loop => Task(b)' \in Tasks
        BY <2>1, <2>4, <2>5 DEF TypeOK, Task, Loop
    <2>7. /\ pc' \in [Attempts -> Labels]
          /\ owner' \in [Attempts -> Processes \cup {NoOwner}]
          /\ at' \in [Attempts -> Nat]
          /\ ended' \in [Attempts -> {"no", "complete", "exists", "database", "crash"}]
        BY <2>1, <2>5 DEF TypeOK, Labels, Loop
    <2> QED
        BY <1>1, <2>2, <2>6, <2>7 DEF TypeOK, Receive, Labels, Loop
<1>2. ASSUME NEW a \in Attempts, HasEventHandled(a) PROVE TypeOK'
    <2>1. pc[a] \in Loop /\ Task(a) \in Tasks
        BY <1>2, InLoop DEF HasEventHandled, Loop
    <2>2. dbFailures' \in 0..MaxDbFailures /\ exception' \in [Attempts -> {"none"} \cup Exceptions]
        BY <1>2, LimitsAssumption DEF HasEventHandled, DatabaseFails, TypeOK, Exceptions
    <2>3. /\ pc' \in [Attempts -> Labels] /\ at' \in [Attempts -> Nat]
          /\ ended' \in [Attempts -> {"no", "complete", "exists", "database", "crash"}]
          /\ \A b \in Attempts : pc'[b] \in Loop => Task(b)' \in Tasks
        <3>1. CASE Advance(a)
            BY <2>1, <3>1, AdvanceType
        <3>2. CASE at' = at /\ ended' = ended
                   /\ pc' \in {[pc EXCEPT ![a] = "handle"], [pc EXCEPT ![a] = "fail"]}
            BY <2>1, <3>2 DEF TypeOK, Task, Loop, Labels
        <3> QED
            BY <1>2, <3>1, <3>2 DEF HasEventHandled
    <2> QED
        BY <1>2, <2>2, <2>3 DEF HasEventHandled, TypeOK, Labels, Loop
<1>3. ASSUME NEW a \in Attempts, Handle(a) \/ SaveFailHandledEvent(a) PROVE TypeOK'
    <2>1. pc[a] \in Loop /\ at' = at
        BY <1>3 DEF Handle, SaveFailHandledEvent, Loop
    <2>2. Task(a) \in Tasks /\ <<a, at[a]>> \in Turns
        BY <2>1, InLoop
    <2>3. PICK status \in {"handled", "failed"}, messages \in SUBSET Messages : Save(a, status, messages)
        BY <1>3, <2>1, RaisedMessages DEF Handle, SaveFailHandledEvent
    <2>4. /\ record' \in [Tasks -> {"none", "handled", "failed"}]
          /\ unSent' \subseteq Messages
          /\ toSend' \in [Attempts -> SUBSET Messages]
          /\ pc' = [pc EXCEPT ![a] = "send"]
        BY <2>1, <2>3, SaveType
    <2>5. \A b \in Attempts : pc'[b] \in Loop => Task(b)' \in Tasks
        BY <2>1, <2>2, <2>4 DEF TypeOK, Task, Loop
    <2>6. effects' \subseteq Turns /\ exception' \in [Attempts -> {"none"} \cup Exceptions]
        BY <1>3, <2>2 DEF Handle, SaveFailHandledEvent, TypeOK
    <2> QED
        BY <1>3, <2>1, <2>4, <2>5, <2>6 DEF Handle, SaveFailHandledEvent, TypeOK, Loop
<1>4. ASSUME NEW a \in Attempts, NEW e \in Exceptions, HandleFails(a, e) PROVE TypeOK'
    <2>1. \A b \in Attempts : pc'[b] \in Loop => Task(b)' \in Tasks
        BY <1>4 DEF HandleFails, TypeOK, Task, Loop
    <2> QED
        BY <1>4, <2>1 DEF HandleFails, TypeOK, Loop
<1>5. ASSUME NEW a \in Attempts, SaveFailThrows(a) PROVE TypeOK'
    <2>1. \A b \in Attempts : pc'[b] \in Loop => Task(b)' \in Tasks
        BY <1>5 DEF SaveFailThrows, TypeOK, Task, Loop
    <2>2. dbFailures' \in 0..MaxDbFailures
        BY <1>5, LimitsAssumption DEF SaveFailThrows, DatabaseFails, TypeOK
    <2> QED
        BY <1>5, <2>1, <2>2 DEF SaveFailThrows, TypeOK, Loop
<1>6. ASSUME NEW a \in Attempts, SendAsync(a) PROVE TypeOK'
    <2>1. pc[a] \in Loop /\ Advance(a)
        BY <1>6 DEF SendAsync, Loop
    <2>2. sendQueue' \in [Processes -> SUBSET Messages] /\ toSend' \in [Attempts -> SUBSET Messages]
        BY <1>6 DEF SendAsync, TypeOK
    <2> QED
        BY <1>6, <2>1, <2>2, AdvanceType DEF SendAsync, TypeOK, Labels, Loop
<1>7. ASSUME NEW a \in Attempts, CommitOffset(a) \/ AcknowledgeOffset(a) PROVE TypeOK'
    <2>1. at' = at /\ pc' \in {[pc EXCEPT ![a] = "done"], [pc EXCEPT ![a] = "over"]}
        BY <1>7 DEF CommitOffset, AcknowledgeOffset
    <2>2. \A b \in Attempts : pc'[b] \in Loop => Task(b)' \in Tasks
        BY <2>1 DEF TypeOK, Task, Loop
    <2>3. consumed' \subseteq Events /\ owner' \in [Attempts -> Processes \cup {NoOwner}]
        BY <1>7, TurnFacts DEF CommitOffset, AcknowledgeOffset, TypeOK
    <2> QED
        BY <1>7, <2>1, <2>2, <2>3 DEF CommitOffset, AcknowledgeOffset, TypeOK, Loop
<1>8. ASSUME NEW p \in Processes, NEW m \in sendQueue[p], SendMessageState(p, m) PROVE TypeOK'
    BY <1>8 DEF SendMessageState, TypeOK, Task, attempts
<1>9. ASSUME NEW p \in Processes, NEW batch \in SUBSET toRemove[p], RemoveMessages(p, batch) PROVE TypeOK'
    <2>1. dbFailures' \in 0..MaxDbFailures
        BY <1>9, LimitsAssumption DEF RemoveMessages, DatabaseFails, TypeOK
    <2> QED
        BY <1>9, <2>1 DEF RemoveMessages, TypeOK, Task, attempts
<1>10. ASSUME NEW p \in Processes, Start(p) PROVE TypeOK'
    <2>1. sendQueue' \in [Processes -> SUBSET Messages] /\ unSent' \subseteq Messages
        BY <1>10 DEF Start, TypeOK
    <2>2. alive' \in [Processes -> BOOLEAN]
        BY <1>10 DEF Start, TypeOK
    <2> QED
        BY <1>10, <2>1, <2>2 DEF Start, TypeOK, Task, attempts
<1>11. ASSUME NEW p \in Processes, Crash(p) PROVE TypeOK'
    <2>1. crashes' \in 0..MaxCrashes
        BY <1>11, LimitsAssumption DEF Crash, TypeOK
    <2>2. alive' \in [Processes -> BOOLEAN]
        BY <1>11 DEF Crash, TypeOK
    <2>3. \A b \in Attempts : pc'[b] \in Loop => Task(b)' \in Tasks
        BY <1>11 DEF Crash, TypeOK, Task, Loop
    <2> QED
        BY <1>11, <2>1, <2>2, <2>3 DEF Crash, TypeOK, Loop
<1>12. CASE UNCHANGED vars
    BY <1>12 DEF vars, TypeOK, Task, attempts
<1> QED
    BY <1>1, <1>2, <1>3, <1>4, <1>5, <1>6, <1>7, <1>8, <1>9, <1>10, <1>11, <1>12 DEF Next, ConsumeMessage

\* Every variable keeps its type, and an attempt in its loop is at a handler of its event.
THEOREM TypeCorrect == Spec => []TypeOK
BY TypeInit, TypeStep, PTL DEF Spec

-----------------------------------------------------------------------------
(* What makes HandlerOnce, NoPhantomMessage and MessagesKept inductive *)

\* A turn the attempt has behind it.
Past(t) ==
    LET a == t[1]
    IN /\ a[2] <= deliveries[Ev(a)]
       /\ pc[a] \in {"check", "handle", "fail"} => t[2] < at[a]
       /\ pc[a] = "send" => t[2] <= at[a]

\* A message says what became of the turn that raised it.
Truthful(m) ==
    /\ m.kind \in {"command", "event"} => m.turn \in effects
    /\ m.kind = "exceptionEvent" => m.turn \notin effects

\* A message there is: stored, about to be queued, queued or sent.
Known(m) ==
    \/ m \in unSent \cup published
    \/ \E p \in Processes : m \in sendQueue[p]
    \/ \E a \in Attempts : m \in toSend[a]

EffectsPast == \A t \in effects : Past(t)
KnownTrue == \A m \in Messages : Known(m) => Past(m.turn) /\ Truthful(m)

\* The daemon is told of what was sent only.
Removable == \A p \in Processes : toRemove[p] \subseteq published

\* An attempt is idle before its delivery, and nobody's.
Delivered ==
    \A a \in Attempts : IF pc[a] = "idle" THEN owner[a] = NoOwner ELSE a[2] <= deliveries[Ev(a)]

SubscriberInv ==
    EffectsPast /\ KnownTrue /\ Removable /\ Delivered /\ HandlerOnce /\ MessagesKept

LEMMA MessageFacts ==
    /\ \A m \in Messages : m.turn \in Turns
    /\ \A t \in Turns : t[1] \in Attempts /\ t[2] \in Nat /\ <<Ev(t[1]), t[2]>> \in Tasks
                        /\ t = <<t[1], t[2]>>
<1>1. \A m \in Messages : m.turn \in Turns
    BY DEF Messages
<1>2. ASSUME NEW t \in Turns
      PROVE  t[1] \in Attempts /\ t[2] \in Nat /\ <<Ev(t[1]), t[2]>> \in Tasks /\ t = <<t[1], t[2]>>
    BY TurnFacts
<1> QED
    BY <1>1, <1>2

LEMMA SubscriberInit == Init => SubscriberInv
BY DEF Init, SubscriberInv, EffectsPast, KnownTrue, Known, Removable, Delivered, HandlerOnce, MessagesKept

\* A step in which no handler comes to an end keeps the invariant if it makes no message,
\* leaves past what is past and loses no row of a message that was not sent.
LEMMA NoSaveStep ==
    ASSUME TypeOK, SubscriberInv, UNCHANGED <<effects, record>>,
           \A t \in Turns : Past(t) => Past(t)',
           \A m \in Messages : Known(m)' => Known(m),
           \A m \in published \cup unSent : m.kind \in RaisedKinds => m \in published' \cup unSent',
           Removable', Delivered'
    PROVE  SubscriberInv'
<1>1. EffectsPast'
    BY DEF SubscriberInv, EffectsPast, TypeOK
<1>2. KnownTrue'
    BY MessageFacts DEF SubscriberInv, KnownTrue, Truthful
<1>3. HandlerOnce'
    BY DEF SubscriberInv, HandlerOnce
<1>4. MessagesKept'
    <2> SUFFICES ASSUME EnsureArrival, NEW t \in effects, NEW k \in Raised
                 PROVE  [kind |-> k, turn |-> t] \in published' \cup unSent'
        BY DEF MessagesKept
    <2>1. [kind |-> k, turn |-> t] \in published \cup unSent
        BY DEF SubscriberInv, MessagesKept
    <2>2. k \in RaisedKinds
        BY RaisedAssumption
    <2> QED
        BY <2>1, <2>2
<1> QED
    BY <1>1, <1>2, <1>3, <1>4 DEF SubscriberInv

\* What is past stays so while no attempt enters a turn.
LEMMA PastKept ==
    ASSUME TypeOK, UNCHANGED <<deliveries, at>>,
           \A a \in Attempts : pc'[a] # pc[a] =>
               \/ pc'[a] \notin Loop
               \/ pc[a] \in {"check", "handle", "fail"}
    PROVE  \A t \in Turns : Past(t) => Past(t)'
<1> SUFFICES ASSUME NEW t \in Turns, Past(t) PROVE Past(t)'
    OBVIOUS
<1>1. t[1] \in Attempts /\ t[2] \in Nat /\ at[t[1]] \in Nat
    BY MessageFacts DEF TypeOK
<1> QED
    BY <1>1 DEF Past, Loop

LEMMA PastAdvance ==
    ASSUME TypeOK, NEW a \in Attempts, pc[a] \in {"check", "send"}, Advance(a), UNCHANGED deliveries
    PROVE  \A t \in Turns : Past(t) => Past(t)'
<1> SUFFICES ASSUME NEW t \in Turns, Past(t) PROVE Past(t)'
    OBVIOUS
<1>1. t[1] \in Attempts /\ t[2] \in Nat /\ at[t[1]] \in Nat /\ at[a] \in Nat
    BY MessageFacts DEF TypeOK
<1>2. /\ \A b \in Attempts : b # a => pc'[b] = pc[b] /\ at'[b] = at[b]
      /\ \/ pc'[a] = "check" /\ at'[a] = at[a] + 1
         \/ pc'[a] = "finish" /\ at'[a] = at[a]
    BY AdvanceType DEF Loop
<1>3. CASE t[1] = a
    BY <1>1, <1>2, <1>3 DEF Past
<1>4. CASE t[1] # a
    BY <1>1, <1>2, <1>4 DEF Past
<1> QED
    BY <1>3, <1>4

\* A turn comes to its end: the turn is new, and its messages are stored with it.
LEMMA SaveStep ==
    ASSUME TypeOK, SubscriberInv, NEW a \in Attempts, pc[a] \in {"handle", "fail"},
           NEW status \in {"handled", "failed"}, NEW messages \in SUBSET Messages,
           Save(a, status, messages),
           UNCHANGED <<deliveries, published, owner, at, memory>>,
           effects' = IF status = "handled" THEN effects \cup {<<a, at[a]>>} ELSE effects,
           \A m \in messages : m.turn = <<a, at[a]>> /\ Truthful(m)',
           status = "handled" => \A k \in Raised : Msg(k, a) \in messages
    PROVE  SubscriberInv'
<1> DEFINE t == <<a, at[a]>>
<1>1. /\ pc' = [pc EXCEPT ![a] = "send"] /\ toSend' = [toSend EXCEPT ![a] = messages]
      /\ unSent \subseteq unSent' /\ unSent' \subseteq unSent \cup messages
      /\ EnsureArrival => unSent' = unSent \cup messages
      /\ UNCHANGED <<sendQueue, toRemove>>
    BY DEF Save, memory
<1>2. t \in Turns /\ Task(a) \in Tasks /\ at[a] \in Nat /\ t[1] = a /\ t[2] = at[a]
    BY InLoop DEF Loop, TypeOK
<1>3. \A u \in Turns : Past(u) => Past(u)' /\ u # t
    <2>1. \A u \in Turns : Past(u) => Past(u)'
        BY <1>1, PastKept DEF TypeOK
    <2>2. ~Past(t)
        BY <1>2 DEF Past
    <2> QED
        BY <2>1, <2>2
<1>4. Past(t)'
    <2>1. a[2] <= deliveries[Ev(a)]
        BY DEF SubscriberInv, Delivered
    <2> QED
        BY <1>1, <1>2, <2>1 DEF Past, TypeOK
<1>5. EffectsPast'
    BY <1>3, <1>4 DEF SubscriberInv, EffectsPast, TypeOK
<1>6. \A m \in Messages : Known(m)' => Known(m) \/ m \in messages
    <2>1. \A b \in Attempts : toSend'[b] \subseteq toSend[b] \cup messages
        BY <1>1 DEF TypeOK
    <2> QED
        BY <1>1, <2>1 DEF Known
<1>7. KnownTrue'
    <2> SUFFICES ASSUME NEW m \in Messages, Known(m)' PROVE Past(m.turn)' /\ Truthful(m)'
        BY DEF KnownTrue
    <2>1. CASE m \in messages
        BY <1>4, <2>1
    <2>2. CASE Known(m)
        <3>1. m.turn \in Turns /\ Past(m.turn) /\ Truthful(m)
            BY <2>2, MessageFacts DEF SubscriberInv, KnownTrue
        <3> QED
            BY <1>3, <3>1 DEF Truthful
    <2> QED
        BY <1>6, <2>1, <2>2
<1>8. Removable' /\ Delivered'
    BY <1>1 DEF SubscriberInv, Removable, Delivered, TypeOK
<1>9. HandlerOnce'
    <2> SUFFICES ASSUME EnsureIdempotent
                 PROVE  /\ \A u \in effects' : record'[<<Ev(u[1]), u[2]>>] = "handled"
                        /\ \A u, v \in effects' : Ev(u[1]) = Ev(v[1]) /\ u[2] = v[2] => u = v
        BY DEF HandlerOnce, Ev
    <2>1. record[Task(a)] = "none" /\ record' = [record EXCEPT ![Task(a)] = status]
        BY DEF Save, IsHandled
    <2>2. \A u \in effects : /\ record[<<Ev(u[1]), u[2]>>] = "handled"
                             /\ <<Ev(u[1]), u[2]>> \in Tasks
        BY MessageFacts DEF SubscriberInv, HandlerOnce, TypeOK
    <2>3. \A u \in effects : <<Ev(u[1]), u[2]>> # Task(a)
        BY <2>1, <2>2
    <2>4. \A u \in effects' : record'[<<Ev(u[1]), u[2]>>] = "handled"
        BY <1>2, <2>1, <2>2, <2>3 DEF TypeOK, Task
    <2>5. \A u, v \in effects' : Ev(u[1]) = Ev(v[1]) /\ u[2] = v[2] => u = v
        BY <1>2, <2>3 DEF SubscriberInv, HandlerOnce, Task
    <2> QED
        BY <2>4, <2>5
<1>10. MessagesKept'
    <2> SUFFICES ASSUME EnsureArrival, NEW u \in effects', NEW k \in Raised
                 PROVE  [kind |-> k, turn |-> u] \in published' \cup unSent'
        BY DEF MessagesKept
    <2>1. CASE u \in effects
        BY <1>1, <2>1 DEF SubscriberInv, MessagesKept
    <2>2. CASE u = t /\ status = "handled"
        BY <1>1, <2>2 DEF Msg
    <2> QED
        BY <2>1, <2>2
<1> QED
    BY <1>5, <1>7, <1>8, <1>9, <1>10 DEF SubscriberInv

\* What a turn raises is of that turn, and says what becomes of it.
LEMMA RaisedTrue ==
    ASSUME TypeOK, SubscriberInv, NEW a \in Attempts, NEW sagaResult \in BOOLEAN
    PROVE  /\ \A m \in MessagesOfSuccess(a, sagaResult) :
                  m.turn = <<a, at[a]>> /\ m.kind # "exceptionEvent"
           /\ \A m \in MessagesOfFailure(a, sagaResult) :
                  m.turn = <<a, at[a]>> /\ m.kind \notin {"command", "event"}
           /\ \A k \in Raised : Msg(k, a) \in MessagesOfSuccess(a, sagaResult)
<1>1. \A m \in MessagesOfSuccess(a, sagaResult) : \E k \in Raised \cup {"sagaReply"} : m = Msg(k, a)
    BY DEF MessagesOfSuccess, GetSagaReplyMessageStates, If
<1>2. \A m \in MessagesOfFailure(a, sagaResult) :
          \E k \in {"anywayEvent", "exceptionEvent", "failSagaReply"} : m = Msg(k, a)
    BY DEF MessagesOfFailure, GetSagaReplyMessageStates, If
<1>3. \A k \in Raised : Msg(k, a) \in MessagesOfSuccess(a, sagaResult)
    BY DEF MessagesOfSuccess
<1> QED
    BY <1>1, <1>2, <1>3, RaisedAssumption DEF Msg, RaisedKinds

LEMMA SubscriberStep == TypeOK /\ SubscriberInv /\ [Next]_vars => SubscriberInv'
<1> SUFFICES ASSUME TypeOK, SubscriberInv, [Next]_vars PROVE SubscriberInv'
    OBVIOUS
<1> USE DEF database
<1>1. ASSUME NEW p \in Processes, NEW e \in Events, Receive(p, e) PROVE SubscriberInv'
    <2> DEFINE a == <<e, deliveries[e] + 1>>
    <2>1. /\ a \in Attempts /\ Ev(a) = e /\ a[2] = deliveries[e] + 1 /\ deliveries[e] \in Nat
          /\ ~(a[2] <= deliveries[Ev(a)])
        BY <1>1, LimitsAssumption DEF TypeOK, Receive, Attempts, Ev
    <2>2. /\ \A b \in Attempts : b # a => pc'[b] = pc[b] /\ at'[b] = at[b] /\ owner'[b] = owner[b]
          /\ pc'[a] \in {"check", "finish"}
          /\ deliveries' = [deliveries EXCEPT ![e] = deliveries[e] + 1]
          /\ UNCHANGED <<effects, record, unSent, published, toSend, sendQueue, toRemove>>
        BY <1>1, <2>1 DEF TypeOK, Receive, memory
    <2>3. \A b \in Attempts : b[2] <= deliveries[Ev(b)] => b[2] <= deliveries'[Ev(b)]
        BY <2>1, <2>2, TurnFacts DEF TypeOK, Attempts
    <2>4. ASSUME NEW t \in Turns, Past(t) PROVE Past(t)'
        <3>1. t[1] \in Attempts /\ t[1] # a
            BY <2>1, <2>4, MessageFacts DEF Past
        <3> QED
            BY <2>2, <2>3, <2>4, <3>1 DEF Past
    <2>5. Delivered'
        <3>1. a[2] <= deliveries'[Ev(a)] /\ pc'[a] # "idle"
            BY <2>1, <2>2 DEF TypeOK
        <3> HIDE DEF a
        <3> QED
            BY <2>2, <2>3, <3>1 DEF SubscriberInv, Delivered
    <2>6. Removable' /\ \A m \in Messages : Known(m)' => Known(m)
        BY <2>2 DEF SubscriberInv, Removable, Known
    <2> QED
        BY <2>2, <2>4, <2>5, <2>6, NoSaveStep
<1>2. ASSUME NEW a \in Attempts, HasEventHandled(a) PROVE SubscriberInv'
    <2>1. /\ pc[a] = "check" /\ UNCHANGED <<effects, record, unSent, published, toSend, sendQueue,
                                            toRemove, deliveries, owner>>
        BY <1>2 DEF HasEventHandled, memory
    <2>2. \A t \in Turns : Past(t) => Past(t)'
        <3>1. CASE Advance(a)
            BY <2>1, <3>1, PastAdvance
        <3>2. CASE at' = at /\ pc' \in {[pc EXCEPT ![a] = "handle"], [pc EXCEPT ![a] = "fail"]}
            BY <2>1, <3>2, PastKept DEF TypeOK
        <3> QED
            BY <1>2, <3>1, <3>2 DEF HasEventHandled
    <2>3. \A b \in Attempts : b # a => pc'[b] = pc[b]
        BY <1>2 DEF HasEventHandled, Advance, TypeOK
    <2>4. pc'[a] # "idle"
        BY <1>2 DEF HasEventHandled, Advance, TypeOK
    <2>5. Delivered'
        BY <2>1, <2>3, <2>4 DEF SubscriberInv, Delivered
    <2>6. Removable' /\ \A m \in Messages : Known(m)' => Known(m)
        BY <2>1 DEF SubscriberInv, Removable, Known
    <2> QED
        BY <2>1, <2>2, <2>5, <2>6, NoSaveStep
<1>3. ASSUME NEW a \in Attempts, Handle(a) PROVE SubscriberInv'
    <2>1. PICK sagaResult \in BOOLEAN : Save(a, "handled", MessagesOfSuccess(a, sagaResult))
        BY <1>3 DEF Handle
    <2>2. /\ pc[a] = "handle" /\ effects' = effects \cup {<<a, at[a]>>}
          /\ UNCHANGED <<deliveries, published, owner, at, memory>>
        BY <1>3 DEF Handle
    <2>3. MessagesOfSuccess(a, sagaResult) \in SUBSET Messages
        BY <2>2, RaisedMessages DEF Loop
    <2>4. \A m \in MessagesOfSuccess(a, sagaResult) : m.turn = <<a, at[a]>> /\ Truthful(m)'
        BY <2>2, RaisedTrue DEF Truthful
    <2>5. \A k \in Raised : Msg(k, a) \in MessagesOfSuccess(a, sagaResult)
        BY RaisedTrue
    <2> QED
        BY <2>1, <2>2, <2>3, <2>4, <2>5, SaveStep
<1>4. ASSUME NEW a \in Attempts, SaveFailHandledEvent(a) PROVE SubscriberInv'
    <2>1. PICK sagaResult \in BOOLEAN : Save(a, "failed", MessagesOfFailure(a, sagaResult))
        BY <1>4 DEF SaveFailHandledEvent
    <2>2. /\ pc[a] = "fail" /\ effects' = effects
          /\ UNCHANGED <<deliveries, published, owner, at, memory>>
        BY <1>4 DEF SaveFailHandledEvent
    <2>3. MessagesOfFailure(a, sagaResult) \in SUBSET Messages
        BY <2>2, RaisedMessages DEF Loop
    <2>4. <<a, at[a]>> \notin effects
        BY <2>2 DEF SubscriberInv, EffectsPast, Past, TypeOK
    <2>5. \A m \in MessagesOfFailure(a, sagaResult) : m.turn = <<a, at[a]>> /\ Truthful(m)'
        BY <2>2, <2>4, RaisedTrue DEF Truthful
    <2> QED
        BY <2>1, <2>2, <2>3, <2>5, SaveStep
<1>5. ASSUME NEW a \in Attempts,
             (\E e \in Exceptions : HandleFails(a, e)) \/ SaveFailThrows(a)
             \/ CommitOffset(a) \/ AcknowledgeOffset(a)
      PROVE  SubscriberInv'
    <2>1. /\ pc[a] \in {"handle", "fail", "finish", "done"}
          /\ pc' \in {[pc EXCEPT ![a] = l] : l \in {"fail", "finish", "done", "over"}}
          /\ pc[a] \notin {"handle", "fail"} => pc' # [pc EXCEPT ![a] = "fail"]
          /\ owner' \in {owner, [owner EXCEPT ![a] = NoOwner]}
          /\ UNCHANGED <<effects, record, unSent, published, toSend, sendQueue, toRemove, deliveries, at>>
        BY <1>5 DEF HandleFails, SaveFailThrows, CommitOffset, AcknowledgeOffset, memory, TypeOK
    <2>2. \A t \in Turns : Past(t) => Past(t)'
        BY <2>1, PastKept DEF TypeOK, Loop
    <2>3. /\ \A b \in Attempts : b # a => pc'[b] = pc[b] /\ owner'[b] = owner[b]
          /\ pc'[a] # "idle"
        BY <2>1 DEF TypeOK
    <2>4. Delivered'
        BY <2>1, <2>3 DEF SubscriberInv, Delivered
    <2>5. Removable' /\ \A m \in Messages : Known(m)' => Known(m)
        BY <2>1 DEF SubscriberInv, Removable, Known
    <2> QED
        BY <2>1, <2>2, <2>4, <2>5, NoSaveStep
<1>6. ASSUME NEW a \in Attempts, SendAsync(a) PROVE SubscriberInv'
    <2>1. /\ pc[a] = "send" /\ Advance(a)
          /\ UNCHANGED <<effects, record, unSent, published, toRemove, deliveries, owner>>
        BY <1>6 DEF SendAsync
    <2>2. \A t \in Turns : Past(t) => Past(t)'
        BY <2>1, PastAdvance
    <2>3. /\ \A b \in Attempts : b # a => pc'[b] = pc[b]
          /\ pc'[a] # "idle"
        BY <2>1, AdvanceType DEF Loop
    <2>4. Delivered'
        BY <2>1, <2>3 DEF SubscriberInv, Delivered
    <2>5. ASSUME NEW m \in Messages, Known(m)' PROVE Known(m)
        <3>1. \A b \in Attempts : toSend'[b] \subseteq toSend[b]
            BY <1>6 DEF SendAsync, TypeOK
        <3>2. \A p \in Processes : sendQueue'[p] \subseteq sendQueue[p] \cup toSend[a]
            BY <1>6 DEF SendAsync, TypeOK
        <3> QED
            BY <2>1, <2>5, <3>1, <3>2 DEF Known
    <2>6. Removable'
        BY <2>1 DEF SubscriberInv, Removable
    <2> QED
        BY <2>1, <2>2, <2>4, <2>5, <2>6, NoSaveStep
<1>7. ASSUME NEW p \in Processes, NEW m \in sendQueue[p], SendMessageState(p, m) PROVE SubscriberInv'
    <2>1. /\ UNCHANGED <<effects, record, unSent, toSend, deliveries, pc, at, owner>>
          /\ published' = published \cup {m}
          /\ \A q \in Processes : sendQueue'[q] \subseteq sendQueue[q]
          /\ \A q \in Processes : toRemove'[q] \subseteq toRemove[q] \cup {m}
        BY <1>7 DEF SendMessageState, attempts, TypeOK
    <2>2. \A t \in Turns : Past(t) => Past(t)'
        BY <2>1 DEF Past
    <2>3. Removable' /\ Delivered'
        BY <2>1 DEF SubscriberInv, Removable, Delivered
    <2>4. \A n \in Messages : Known(n)' => Known(n)
        BY <2>1 DEF Known
    <2> QED
        BY <2>1, <2>2, <2>3, <2>4, NoSaveStep
<1>8. ASSUME NEW p \in Processes, NEW batch \in SUBSET toRemove[p], RemoveMessages(p, batch) PROVE SubscriberInv'
    <2>1. /\ UNCHANGED <<effects, record, published, toSend, deliveries, pc, at, owner, sendQueue>>
          /\ unSent' \subseteq unSent /\ unSent \subseteq unSent' \cup batch
          /\ \A q \in Processes : toRemove'[q] \subseteq toRemove[q]
        BY <1>8 DEF RemoveMessages, attempts, TypeOK
    <2>2. \A t \in Turns : Past(t) => Past(t)'
        BY <2>1 DEF Past
    <2>3. Removable' /\ Delivered'
        BY <2>1 DEF SubscriberInv, Removable, Delivered
    <2>4. \A n \in Messages : Known(n)' => Known(n)
        BY <2>1 DEF Known
    <2>5. batch \subseteq published
        BY DEF SubscriberInv, Removable
    <2> QED
        BY <2>1, <2>2, <2>3, <2>4, <2>5, NoSaveStep
<1>9. ASSUME NEW p \in Processes, Start(p) PROVE SubscriberInv'
    <2>1. /\ UNCHANGED <<effects, record, published, toSend, deliveries, pc, at, owner, toRemove>>
          /\ unSent' \subseteq unSent
          /\ \A m \in unSent : m.kind \in RaisedKinds => m \in unSent'
          /\ \A q \in Processes : sendQueue'[q] \subseteq sendQueue[q] \cup unSent
        BY <1>9 DEF Start, attempts, TypeOK, RaisedKinds
    <2>2. \A t \in Turns : Past(t) => Past(t)'
        BY <2>1 DEF Past
    <2>3. Removable' /\ Delivered'
        BY <2>1 DEF SubscriberInv, Removable, Delivered
    <2>4. \A n \in Messages : Known(n)' => Known(n)
        BY <2>1 DEF Known
    <2> QED
        BY <2>1, <2>2, <2>3, <2>4, NoSaveStep
<1>10. ASSUME NEW p \in Processes, Crash(p) PROVE SubscriberInv'
    <2>1. UNCHANGED <<effects, record, unSent, published, deliveries, at>>
        BY <1>10 DEF Crash
    <2>2. ASSUME NEW b \in Attempts
          PROVE  \/ pc'[b] = pc[b] /\ toSend'[b] = toSend[b] /\ owner'[b] = owner[b]
                 \/ pc'[b] = "over" /\ toSend'[b] = {} /\ owner[b] = p
        BY <1>10 DEF Crash
    <2>3. \A t \in Turns : Past(t) => Past(t)'
        BY <2>1, <2>2, PastKept DEF Loop
    <2>4. /\ \A q \in Processes : sendQueue'[q] \subseteq sendQueue[q]
          /\ \A q \in Processes : toRemove'[q] \subseteq toRemove[q]
        BY <1>10 DEF Crash, TypeOK
    <2>5. Delivered'
        BY <2>1, <2>2, OwnerAssumption DEF SubscriberInv, Delivered
    <2>6. Removable' /\ \A m \in Messages : Known(m)' => Known(m)
        BY <2>1, <2>2, <2>4 DEF SubscriberInv, Removable, Known
    <2> QED
        BY <2>1, <2>3, <2>5, <2>6, NoSaveStep
<1>11. CASE UNCHANGED vars
    <2>1. UNCHANGED <<effects, record, unSent, published, toSend, sendQueue, toRemove, deliveries, pc, at, owner>>
        BY <1>11 DEF vars, attempts, memory
    <2>2. Removable' /\ Delivered' /\ (\A m \in Messages : Known(m)' => Known(m))
          /\ \A t \in Turns : Past(t) => Past(t)'
        BY <2>1 DEF SubscriberInv, Removable, Delivered, Known, Past
    <2> QED
        BY <2>1, <2>2, NoSaveStep
<1> QED
    BY <1>1, <1>2, <1>3, <1>4, <1>5, <1>6, <1>7, <1>8, <1>9, <1>10, <1>11 DEF Next, ConsumeMessage

LEMMA SubscriberInvariant == Spec => [](TypeOK /\ SubscriberInv)
<1>1. TypeOK /\ SubscriberInv /\ [Next]_vars => (TypeOK /\ SubscriberInv)'
    BY TypeStep, SubscriberStep
<1> QED
    BY TypeInit, SubscriberInit, <1>1, PTL DEF Spec

\* A handler takes effect at most once for an event, and not after its failure is on
\* record, for any number of deliveries, processes, crashes and database failures.
THEOREM HandlerOnceTheorem == Spec => []HandlerOnce
<1>1. SubscriberInv => HandlerOnce
    BY DEF SubscriberInv
<1> QED
    BY SubscriberInvariant, <1>1, PTL

\* What a handler that took effect has raised is sent or has its row in the store.
THEOREM MessagesAreKept == Spec => []MessagesKept
<1>1. SubscriberInv => MessagesKept
    BY DEF SubscriberInv
<1> QED
    BY SubscriberInvariant, <1>1, PTL

\* No command and no event of a turn that was rolled back is sent, and no exception event
\* of a turn that took effect.
THEOREM NoMessageOfARollback == Spec => []NoPhantomMessage
<1>1. TypeOK /\ SubscriberInv => NoPhantomMessage
    BY DEF TypeOK, SubscriberInv, KnownTrue, Known, Truthful, NoPhantomMessage
<1> QED
    BY SubscriberInvariant, <1>1, PTL

-----------------------------------------------------------------------------
(* No handler is skipped *)

\* The handlers of an event that are on record.
Rows(e) == {h \in 1..HandlerCount[e] : record[<<e, h>>] # "none"}

\* An attempt knows how it ended, has a row for every handler behind it, and gives way
\* only to a row.
WellEnded(a) ==
    /\ pc[a] \in Loop \cup {"idle"} => ended[a] = "no"
    /\ pc[a] \in {"finish", "done"} => ended[a] \in {"complete", "exists", "database"}
    /\ pc[a] = "over" => ended[a] # "no"
    /\ ended[a] = "exists" => Rows(Ev(a)) # {}
RowsBehind(a) ==
    \A h \in 1..HandlerCount[Ev(a)] :
        \/ pc[a] \in {"check", "handle", "fail"} /\ h < at[a]
        \/ pc[a] = "send" /\ h <= at[a]
        \/ ended[a] = "complete" /\ Ev(a) \notin Filtered
        => h \in Rows(Ev(a))

\* No row is ahead of the attempt, and it has not given way to another.
Leads(a) ==
    /\ pc[a] # "idle" /\ ended[a] # "exists"
    /\ \A h \in Rows(Ev(a)) : /\ pc[a] \in {"check", "handle", "fail"} => h < at[a]
                              /\ pc[a] = "send" => h <= at[a]

\* An attempt that ended by itself and whose offset is committed.
Acknowledged(a) == pc[a] = "over" /\ ended[a] \in {"complete", "exists", "database"}

RowsInOrder == \A e \in Events : \A g \in Rows(e), h \in 1..HandlerCount[e] : h < g => h \in Rows(e)
SomeoneLeads == \A e \in Events : Rows(e) # {} => \E a \in Attempts : Ev(a) = e /\ Leads(a)
ConsumedByOne == \A e \in consumed : \E a \in Attempts : Ev(a) = e /\ Acknowledged(a)

SkipInv ==
    EnsureIdempotent =>
        /\ \A a \in Attempts : WellEnded(a) /\ RowsBehind(a)
        /\ RowsInOrder /\ SomeoneLeads /\ ConsumedByOne

LEMMA SkipInit == Init => SkipInv
<1> SUFFICES ASSUME Init PROVE SkipInv
    OBVIOUS
<1>1. \A e \in Events : Rows(e) = {}
    BY TurnFacts DEF Init, Rows, Tasks
<1>2. \A a \in Attempts : WellEnded(a) /\ RowsBehind(a)
    BY DEF Init, WellEnded, RowsBehind, Loop
<1> QED
    BY <1>1, <1>2 DEF SkipInv, RowsInOrder, SomeoneLeads, ConsumedByOne, Init

\* The invariant says that nothing is skipped: the attempt whose offset was committed
\* has seen to every handler, or the one that leads is at work, ended, or crashed.
LEMMA SkipInvImplies == TypeOK /\ SkipInv => NothingSkipped
<1> SUFFICES ASSUME TypeOK, SkipInv, EnsureIdempotent,
                    NEW t \in Tasks, t[1] \in consumed, t[1] \notin Filtered
             PROVE  record[t] # "none" \/ AtWork(t[1]) \/ Excused(t[1])
    BY DEF NothingSkipped
<1>1. t = <<t[1], t[2]>> /\ t[1] \in Events /\ t[2] \in 1..HandlerCount[t[1]]
    BY TurnFacts
<1>2. \A a \in Attempts : Ev(a) = t[1] /\ ended[a] = "complete" => record[t] # "none"
    BY <1>1 DEF SkipInv, RowsBehind, Rows
<1>3. PICK a \in Attempts : Ev(a) = t[1] /\ Acknowledged(a)
    BY DEF SkipInv, ConsumedByOne
<1>4. CASE ended[a] = "database"
    BY <1>3, <1>4 DEF Excused, Ended
<1>5. CASE ended[a] = "exists"
    <2>1. PICK b \in Attempts : Ev(b) = t[1] /\ Leads(b)
        BY <1>1, <1>3, <1>5 DEF SkipInv, WellEnded, SomeoneLeads
    <2>2. CASE pc[b] # "over"
        BY <2>1, <2>2 DEF Leads, AtWork
    <2>3. CASE pc[b] = "over"
        <3>1. ended[b] \in {"complete", "database", "crash"}
            BY <2>1, <2>3 DEF SkipInv, WellEnded, Leads, TypeOK
        <3> QED
            BY <1>2, <1>3, <1>5, <2>1, <3>1 DEF Excused, Ended
    <2> QED
        BY <2>2, <2>3
<1> QED
    BY <1>2, <1>3, <1>4, <1>5 DEF Acknowledged

\* A step that writes no row keeps the invariant if every attempt stays well, those that
\* lead go on leading, and an event is consumed only by an attempt that ended.
LEMMA SkipKeep ==
    ASSUME SkipInv, UNCHANGED record,
           EnsureIdempotent => \A b \in Attempts :
               /\ WellEnded(b)' /\ RowsBehind(b)'
               /\ Leads(b) => Leads(b)'
               /\ Acknowledged(b) => Acknowledged(b)',
           EnsureIdempotent => \A e \in consumed' :
               e \in consumed \/ \E b \in Attempts : Ev(b) = e /\ Acknowledged(b)'
    PROVE  SkipInv'
<1> SUFFICES ASSUME EnsureIdempotent PROVE SkipInv'
    BY DEF SkipInv
<1>1. \A e : Rows(e)' = Rows(e)
    BY DEF Rows
<1>2. RowsInOrder'
    BY <1>1 DEF SkipInv, RowsInOrder
<1>3. SomeoneLeads'
    BY <1>1 DEF SkipInv, SomeoneLeads, Ev
<1>4. ConsumedByOne'
    BY DEF SkipInv, ConsumedByOne, Ev
<1> QED
    BY <1>2, <1>3, <1>4 DEF SkipInv

\* ... in particular one that moves a single attempt.
LEMMA SkipMove ==
    ASSUME TypeOK, SkipInv, UNCHANGED record, NEW a \in Attempts, pc[a] # "over",
           \A b \in Attempts : b # a => pc'[b] = pc[b] /\ at'[b] = at[b] /\ ended'[b] = ended[b],
           EnsureIdempotent => WellEnded(a)' /\ RowsBehind(a)' /\ (Leads(a) => Leads(a)'),
           consumed' = consumed \/ (consumed' = consumed \cup {Ev(a)} /\ Acknowledged(a)')
    PROVE  SkipInv'
<1>1. \A e : Rows(e)' = Rows(e)
    BY DEF Rows
<1>2. \A b \in Attempts : b # a =>
          /\ WellEnded(b) => WellEnded(b)'
          /\ RowsBehind(b) => RowsBehind(b)'
          /\ Leads(b) => Leads(b)'
          /\ Acknowledged(b) => Acknowledged(b)'
    BY <1>1 DEF WellEnded, RowsBehind, Leads, Acknowledged, Ev
<1>3. ~Acknowledged(a)
    BY DEF Acknowledged
<1>4. EnsureIdempotent => \A b \in Attempts : WellEnded(b) /\ RowsBehind(b)
    BY DEF SkipInv
<1> QED
    BY <1>2, <1>3, <1>4, SkipKeep

\* The loop goes on past a handler that is on record.
LEMMA SkipAdvance ==
    ASSUME TypeOK, SkipInv, UNCHANGED <<record, consumed>>, NEW a \in Attempts,
           pc[a] \in {"check", "send"}, pc[a] = "check" => IsHandled(Task(a)), Advance(a)
    PROVE  SkipInv'
<1>0. \A e : Rows(e)' = Rows(e)
    BY DEF Rows
<1>1. at[a] \in 1..HandlerCount[Ev(a)] /\ HandlerCount[Ev(a)] \in Nat
    BY InLoop DEF Loop
<1>2. ASSUME EnsureIdempotent
      PROVE  \A h \in 1..HandlerCount[Ev(a)] : h <= at[a] => h \in Rows(Ev(a))
    <2>1. pc[a] = "check" => at[a] \in Rows(Ev(a))
        BY <1>1 DEF IsHandled, Task, Rows
    <2>2. RowsBehind(a)
        BY <1>2 DEF SkipInv
    <2> QED
        BY <1>1, <2>1, <2>2 DEF RowsBehind
<1>3. /\ \A b \in Attempts : b # a => pc'[b] = pc[b] /\ at'[b] = at[b] /\ ended'[b] = ended[b]
      /\ \/ /\ pc'[a] = "check" /\ at'[a] = at[a] + 1 /\ ended'[a] = ended[a]
         \/ /\ pc'[a] = "finish" /\ at'[a] = at[a] /\ ended'[a] = "complete"
            /\ at[a] = HandlerCount[Ev(a)]
    BY <1>1 DEF Advance, TypeOK
<1>4. EnsureIdempotent => ended[a] = "no"
    BY DEF SkipInv, WellEnded, Loop
<1>5. EnsureIdempotent => WellEnded(a)'
    BY <1>3, <1>4 DEF WellEnded, Loop
<1>6. EnsureIdempotent => RowsBehind(a)'
    <2> SUFFICES ASSUME EnsureIdempotent, NEW h \in 1..HandlerCount[Ev(a)],
                        pc'[a] = "check" => h < at'[a]
                 PROVE  h \in Rows(Ev(a))
        BY <1>0, <1>3, <1>4 DEF RowsBehind, Ev
    <2> QED
        BY <1>1, <1>2, <1>3
<1>7. EnsureIdempotent /\ Leads(a) => Leads(a)'
    <2> SUFFICES ASSUME EnsureIdempotent, Leads(a), NEW h \in Rows(Ev(a)), pc'[a] = "check"
                 PROVE  h < at'[a]
        BY <1>0, <1>3, <1>4 DEF Leads, Ev
    <2>1. h \in Nat /\ h <= at[a]
        BY <1>1 DEF Leads, Rows
    <2> QED
        BY <1>1, <1>3, <2>1
<1> QED
    BY <1>3, <1>5, <1>6, <1>7, SkipMove

\* A row is written: the attempt that writes it takes the lead.
LEMMA SkipSave ==
    ASSUME TypeOK, SkipInv, NEW a \in Attempts, pc[a] \in {"handle", "fail"},
           NEW status \in {"handled", "failed"}, NEW messages, Save(a, status, messages),
           UNCHANGED <<at, ended, consumed>>
    PROVE  SkipInv'
<1> SUFFICES ASSUME EnsureIdempotent PROVE SkipInv'
    BY DEF SkipInv
<1>1. /\ at[a] \in 1..HandlerCount[Ev(a)] /\ HandlerCount[Ev(a)] \in Nat
      /\ Task(a) \in Tasks /\ Ev(a) \in Events
    BY InLoop, TurnFacts DEF Loop
<1>2. record' = [record EXCEPT ![Task(a)] = status] /\ pc' = [pc EXCEPT ![a] = "send"]
      /\ record[Task(a)] = "none"
    BY DEF Save, IsHandled
<1>3. \A e \in Events : \A h \in 1..HandlerCount[e] :
          record'[<<e, h>>] = IF e = Ev(a) /\ h = at[a] THEN status ELSE record[<<e, h>>]
    <2> SUFFICES ASSUME NEW e \in Events, NEW h \in 1..HandlerCount[e]
                 PROVE  record'[<<e, h>>] = IF e = Ev(a) /\ h = at[a] THEN status ELSE record[<<e, h>>]
        OBVIOUS
    <2>1. <<e, h>> \in Tasks
        BY DEF Tasks
    <2> QED
        BY <1>2, <2>1 DEF TypeOK, Task
<1>4. \A e \in Events : Rows(e)' = IF e = Ev(a) THEN Rows(e) \cup {at[a]} ELSE Rows(e)
    BY <1>1, <1>3 DEF Rows
<1>5. RowsBehind(a) /\ WellEnded(a) /\ at[a] \notin Rows(Ev(a))
    BY <1>2 DEF SkipInv, Rows, Task
<1>6. \A h \in Rows(Ev(a)) : h < at[a]
    BY <1>1, <1>5 DEF SkipInv, RowsInOrder, Rows
<1>7. \A b \in Attempts : b # a => pc'[b] = pc[b]
    BY <1>2 DEF TypeOK
<1>8. pc'[a] = "send"
    BY <1>2 DEF TypeOK
<1>9. \A b \in Attempts : Ev(b) \in Events /\ Rows(Ev(b)) \subseteq Rows(Ev(b))'
    BY <1>4, TurnFacts
<1>10. ASSUME NEW b \in Attempts PROVE WellEnded(b)' /\ RowsBehind(b)'
    <2>1. CASE b # a
        BY <1>7, <1>9, <2>1 DEF SkipInv, WellEnded, RowsBehind, Ev
    <2>2. CASE b = a
        <3>1. ended[a] = "no"
            BY <1>5 DEF WellEnded, Loop
        <3>2. \A h \in 1..HandlerCount[Ev(a)] : h <= at[a] => h \in Rows(Ev(a))'
            BY <1>1, <1>4, <1>5 DEF RowsBehind
        <3> QED
            BY <1>8, <2>2, <3>1, <3>2 DEF WellEnded, RowsBehind, Loop, Ev
    <2> QED
        BY <2>1, <2>2
<1>11. RowsInOrder'
    <2> SUFFICES ASSUME NEW e \in Events, NEW g \in Rows(e)', NEW h \in 1..HandlerCount[e], h < g
                 PROVE  h \in Rows(e)'
        BY DEF RowsInOrder
    <2>1. CASE g \in Rows(e)
        BY <1>4, <2>1 DEF SkipInv, RowsInOrder
    <2>2. CASE e = Ev(a) /\ g = at[a]
        BY <1>4, <1>5, <2>2 DEF RowsBehind
    <2> QED
        BY <1>4, <2>1, <2>2
<1>12. SomeoneLeads'
    <2> SUFFICES ASSUME NEW e \in Events, Rows(e)' # {}
                 PROVE  \E b \in Attempts : Ev(b) = e /\ Leads(b)'
        BY DEF SomeoneLeads, Ev
    <2>1. CASE e = Ev(a)
        <3>1. ended'[a] = "no"
            BY <1>5 DEF WellEnded, Loop
        <3>2. \A h \in Rows(Ev(a))' : h <= at[a]
            BY <1>1, <1>4, <1>6 DEF Rows
        <3>3. Leads(a)'
            BY <1>8, <3>1, <3>2 DEF Leads, Ev
        <3> QED
            BY <2>1, <3>3
    <2>2. CASE e # Ev(a)
        <3>1. PICK b \in Attempts : Ev(b) = e /\ Leads(b)
            BY <1>4, <2>2 DEF SkipInv, SomeoneLeads
        <3>2. Leads(b)'
            BY <1>4, <1>7, <2>2, <3>1 DEF Leads, Ev
        <3> QED
            BY <3>1, <3>2
    <2> QED
        BY <2>1, <2>2
<1>13. ConsumedByOne'
    <2>1. \A b \in Attempts : Acknowledged(b) => Acknowledged(b)'
        BY <1>7 DEF Acknowledged
    <2> QED
        BY <2>1 DEF SkipInv, ConsumedByOne, Ev
<1> QED
    BY <1>10, <1>11, <1>12, <1>13 DEF SkipInv

LEMMA SkipReceive ==
    ASSUME TypeOK, SkipInv, Delivered, NEW p \in Processes, NEW e \in Events, Receive(p, e)
    PROVE  SkipInv'
<1>0. PICK a \in Attempts : a = <<e, deliveries[e] + 1>>
    BY LimitsAssumption DEF TypeOK, Receive, Attempts
<1>1. /\ Ev(a) = e /\ ~(a[2] <= deliveries[Ev(a)])
      /\ record' = record /\ consumed' = consumed
    BY <1>0 DEF TypeOK, Receive, Ev, database
<1>2. pc[a] = "idle"
    BY <1>1 DEF Delivered
<1>3. /\ \A b \in Attempts : b # a => pc'[b] = pc[b] /\ at'[b] = at[b] /\ ended'[b] = ended[b]
      /\ at'[a] = 1
      /\ \/ pc'[a] = "check" /\ ended'[a] = ended[a]
         \/ pc'[a] = "finish" /\ ended'[a] = "complete" /\ (e \in Filtered \/ HandlerCount[e] = 0)
    BY <1>0 DEF TypeOK, Receive
<1>4. EnsureIdempotent => ended[a] = "no"
    BY <1>1, <1>2 DEF SkipInv, WellEnded
<1>5. EnsureIdempotent => WellEnded(a)'
    BY <1>3, <1>4 DEF WellEnded, Loop
<1>6. EnsureIdempotent => RowsBehind(a)'
    <2>1. HandlerCount[e] \in Nat
        BY EventsAssumption
    <2> QED
        BY <1>1, <1>3, <1>4, <2>1 DEF RowsBehind, Ev
<1>7. ~Leads(a)
    BY <1>2 DEF Leads
<1> QED
    BY <1>1, <1>2, <1>3, <1>5, <1>6, <1>7, SkipMove

LEMMA SkipCrash ==
    ASSUME TypeOK, SkipInv, Delivered, NEW p \in Processes, Crash(p)
    PROVE  SkipInv'
<1>1. UNCHANGED <<record, at, consumed>>
    BY DEF Crash, database
<1>2. ASSUME NEW b \in Attempts
      PROVE  \/ pc'[b] = pc[b] /\ ended'[b] = ended[b]
             \/ /\ pc'[b] = "over" /\ pc[b] # "idle"
                /\ ended'[b] = IF ended[b] = "no" THEN "crash" ELSE ended[b]
    BY OwnerAssumption DEF Crash, Delivered
<1>3. \A e : Rows(e)' = Rows(e)
    BY <1>1 DEF Rows
<1>4. ASSUME EnsureIdempotent, NEW b \in Attempts
      PROVE  /\ WellEnded(b)' /\ RowsBehind(b)'
             /\ Leads(b) => Leads(b)'
             /\ Acknowledged(b) => Acknowledged(b)'
    <2>1. WellEnded(b) /\ RowsBehind(b)
        BY <1>4 DEF SkipInv
    <2>2. WellEnded(b)'
        BY <1>2, <1>3, <2>1 DEF WellEnded, Loop, Ev
    <2>3. RowsBehind(b)'
        BY <1>1, <1>2, <1>3, <2>1 DEF RowsBehind, Ev
    <2>4. Leads(b) => Leads(b)'
        BY <1>1, <1>2, <1>3 DEF Leads, Ev
    <2>5. Acknowledged(b) => Acknowledged(b)'
        BY <1>2 DEF Acknowledged
    <2> QED
        BY <2>2, <2>3, <2>4, <2>5
<1> QED
    BY <1>1, <1>4, SkipKeep

LEMMA SkipStep == TypeOK /\ SubscriberInv /\ SkipInv /\ [Next]_vars => SkipInv'
<1> SUFFICES ASSUME TypeOK, SubscriberInv, SkipInv, [Next]_vars PROVE SkipInv'
    OBVIOUS
<1> USE DEF database
<1>0. Delivered
    BY DEF SubscriberInv
<1>1. ASSUME UNCHANGED <<record, pc, at, ended, consumed>> PROVE SkipInv'
    <2>1. \A b \in Attempts : /\ WellEnded(b) => WellEnded(b)'
                              /\ RowsBehind(b) => RowsBehind(b)'
                              /\ Leads(b) => Leads(b)'
                              /\ Acknowledged(b) => Acknowledged(b)'
        BY <1>1 DEF WellEnded, RowsBehind, Leads, Acknowledged, Rows
    <2> QED
        BY <1>1, <2>1, SkipKeep DEF SkipInv
<1>2. ASSUME NEW p \in Processes, Start(p) PROVE SkipInv'
    BY <1>1, <1>2 DEF Start, attempts
<1>3. ASSUME NEW p \in Processes, NEW batch \in SUBSET toRemove[p], RemoveMessages(p, batch) PROVE SkipInv'
    BY <1>1, <1>3 DEF RemoveMessages, attempts
<1>4. ASSUME NEW p \in Processes, NEW m \in sendQueue[p], SendMessageState(p, m) PROVE SkipInv'
    BY <1>1, <1>4 DEF SendMessageState, attempts
<1>5. ASSUME NEW a \in Attempts, UNCHANGED <<record, at>>, pc[a] # "over",
             \A b \in Attempts : b # a => pc'[b] = pc[b] /\ ended'[b] = ended[b],
             consumed' = consumed \/ (consumed' = consumed \cup {Ev(a)} /\ Acknowledged(a)'),
             \/ pc[a] = "check" /\ pc'[a] \in {"handle", "fail"} /\ ended'[a] = ended[a]
             \/ pc[a] = "handle" /\ pc'[a] = "fail" /\ ended'[a] = ended[a]
             \/ pc[a] = "fail" /\ pc'[a] = "finish" /\ ended'[a] = "database"
             \/ pc[a] = "fail" /\ pc'[a] = "finish" /\ ended'[a] = "exists" /\ IsHandled(Task(a))
             \/ pc[a] = "finish" /\ pc'[a] = "done" /\ ended'[a] = ended[a]
             \/ pc[a] = "done" /\ pc'[a] = "over" /\ ended'[a] = ended[a]
      PROVE  SkipInv'
    <2>0. \A e : Rows(e)' = Rows(e)
        BY <1>5 DEF Rows
    <2>1. pc[a] = "fail" /\ IsHandled(Task(a)) => at[a] \in Rows(Ev(a))
        BY InLoop DEF Loop, IsHandled, Task, Rows
    <2>2. EnsureIdempotent => WellEnded(a) /\ RowsBehind(a)
        BY DEF SkipInv
    <2>3. EnsureIdempotent => WellEnded(a)'
        BY <1>5, <2>0, <2>1, <2>2 DEF WellEnded, Loop, Ev
    <2>4. EnsureIdempotent => RowsBehind(a)'
        BY <1>5, <2>0, <2>2 DEF RowsBehind, WellEnded, Loop, Ev
    <2>5. Leads(a) => Leads(a)'
        <3>1. ASSUME Leads(a), pc[a] = "fail" PROVE at[a] \notin Rows(Ev(a))
            BY <3>1 DEF Leads, Rows, TypeOK
        <3> QED
            BY <1>5, <2>0, <2>1, <3>1 DEF Leads, Ev
    <2> QED
        BY <1>5, <2>3, <2>4, <2>5, SkipMove
<1>6. ASSUME NEW a \in Attempts, HasEventHandled(a) PROVE SkipInv'
    <2>1. CASE IsHandled(Task(a)) /\ Advance(a)
        BY <1>6, <2>1, SkipAdvance DEF HasEventHandled
    <2>2. CASE UNCHANGED <<at, ended>> /\ pc' \in {[pc EXCEPT ![a] = "handle"], [pc EXCEPT ![a] = "fail"]}
        <3>1. pc'[a] \in {"handle", "fail"} /\ \A b \in Attempts : b # a => pc'[b] = pc[b]
            BY <2>2 DEF TypeOK
        <3> QED
            BY <1>5, <1>6, <2>2, <3>1 DEF HasEventHandled
    <2> QED
        BY <1>6, <2>1, <2>2 DEF HasEventHandled
<1>7. ASSUME NEW a \in Attempts, Handle(a) \/ SaveFailHandledEvent(a) PROVE SkipInv'
    BY <1>7, SkipSave DEF Handle, SaveFailHandledEvent
<1>8. ASSUME NEW a \in Attempts, NEW e \in Exceptions, HandleFails(a, e) PROVE SkipInv'
    <2>1. pc'[a] = "fail" /\ \A b \in Attempts : b # a => pc'[b] = pc[b]
        BY <1>8 DEF HandleFails, TypeOK
    <2> QED
        BY <1>5, <1>8, <2>1 DEF HandleFails
<1>9. ASSUME NEW a \in Attempts, SaveFailThrows(a) PROVE SkipInv'
    <2>1. /\ pc'[a] = "finish"
          /\ ended'[a] = "database" \/ (ended'[a] = "exists" /\ IsHandled(Task(a)))
          /\ \A b \in Attempts : b # a => pc'[b] = pc[b] /\ ended'[b] = ended[b]
        BY <1>9 DEF SaveFailThrows, TypeOK
    <2> QED
        BY <1>5, <1>9, <2>1 DEF SaveFailThrows
<1>10. ASSUME NEW a \in Attempts, SendAsync(a) PROVE SkipInv'
    BY <1>10, SkipAdvance DEF SendAsync
<1>11. ASSUME NEW a \in Attempts, CommitOffset(a) PROVE SkipInv'
    <2>1. pc'[a] = "done" /\ \A b \in Attempts : b # a => pc'[b] = pc[b]
        BY <1>11 DEF CommitOffset, TypeOK
    <2> QED
        BY <1>5, <1>11, <2>1 DEF CommitOffset
<1>12. ASSUME NEW a \in Attempts, AcknowledgeOffset(a) PROVE SkipInv'
    <2>1. pc'[a] = "over" /\ \A b \in Attempts : b # a => pc'[b] = pc[b]
        BY <1>12 DEF AcknowledgeOffset, TypeOK
    <2>2. CASE EnsureIdempotent
        <3>1. Acknowledged(a)'
            BY <1>12, <2>1, <2>2 DEF AcknowledgeOffset, Acknowledged, SkipInv, WellEnded
        <3> QED
            BY <1>5, <1>12, <2>1, <3>1 DEF AcknowledgeOffset
    <2>3. CASE ~EnsureIdempotent
        BY <2>3 DEF SkipInv
    <2> QED
        BY <2>2, <2>3
<1>13. CASE UNCHANGED vars
    BY <1>1, <1>13 DEF vars, attempts
<1> QED
    BY <1>0, <1>2, <1>3, <1>4, <1>6, <1>7, <1>8, <1>9, <1>10, <1>11, <1>12, <1>13, SkipReceive, SkipCrash
       DEF Next, ConsumeMessage

\* With EnsureIdempotent every handler of an event whose offset is committed is on record
\* or an attempt is still at work, but for the two excuses: the database failed, or an
\* attempt gave way to the row of another one and one crashed.  However many attempts
\* overlap, one of them leads: it has not given way, and no row is ahead of it.
THEOREM NoHandlerIsSkipped == Spec => []NothingSkipped
<1>1. Init => SkipInv
    BY SkipInit
<1>2. TypeOK /\ SubscriberInv /\ SkipInv /\ [Next]_vars => SkipInv'
    BY SkipStep
<1>3. TypeOK /\ SkipInv => NothingSkipped
    BY SkipInvImplies
<1> QED
    BY SubscriberInvariant, <1>1, <1>2, <1>3, PTL DEF Spec

-----------------------------------------------------------------------------
(* Refinement of the outbox *)

TaskOfTurn == [t \in Turns |-> IF EnsureIdempotent THEN <<Ev(t[1]), t[2]>> ELSE t]

LEMMA HandleTakes ==
    ASSUME TypeOK, SubscriberInv, NEW a \in Attempts, Handle(a)
    PROVE  Out!Next
<1> DEFINE t == <<a, at[a]>>
<1>1. t \in Turns /\ pc[a] = "handle" /\ at[a] \in Nat
    BY InLoop DEF Handle, Loop, TypeOK
<1>2. effects' = effects \cup {t} /\ published' = published
    BY DEF Handle
<1>3. EnsureIdempotent => record[Task(a)] = "none"
    BY DEF Handle, Save, IsHandled
<1>4. t \notin effects
    BY <1>1 DEF SubscriberInv, EffectsPast, Past
<1>5. ASSUME NEW u \in effects PROVE TaskOfTurn[u] # TaskOfTurn[t]
    <2>1. u \in Turns
        BY DEF TypeOK
    <2>2. CASE EnsureIdempotent
        <3>1. record[<<Ev(u[1]), u[2]>>] = "handled"
            BY <2>2 DEF SubscriberInv, HandlerOnce
        <3> QED
            BY <1>1, <1>3, <2>1, <2>2, <3>1 DEF TaskOfTurn, Task
    <2>3. CASE ~EnsureIdempotent
        BY <1>1, <1>4, <2>1, <2>3 DEF TaskOfTurn
    <2> QED
        BY <2>2, <2>3
<1>6. Announced' = Announced
    BY <1>2 DEF Announced
<1>7. Out!Take(t)
    BY <1>2, <1>5, <1>6 DEF Out!Take, TaskOfTurn
<1> QED
    BY <1>1, <1>7 DEF Out!Next

LEMMA SendingTells ==
    ASSUME TypeOK, SubscriberInv, NEW p \in Processes, NEW m \in sendQueue[p], SendMessageState(p, m)
    PROVE  [Out!Next]_(Out!outbox)
<1>1. /\ m \in Messages /\ m.turn \in Turns /\ published' = published \cup {m} /\ effects' = effects
      /\ m = [kind |-> m.kind, turn |-> m.turn]
    BY MessageFacts DEF SendMessageState, TypeOK, database, Messages
<1>2. CASE m.kind \in {"command", "event"}
    <2>1. m.turn \in effects
        BY <1>1, <1>2 DEF SubscriberInv, KnownTrue, Known, Truthful
    <2>2. Announced' = Announced \cup {m.turn}
        BY <1>1, <1>2 DEF Announced
    <2> QED
        BY <1>1, <2>1, <2>2 DEF Out!Next, Out!Tell
<1>3. CASE m.kind \notin {"command", "event"}
    <2>1. Announced' = Announced
        BY <1>1, <1>3 DEF Announced
    <2> QED
        BY <1>1, <2>1 DEF Out!outbox
<1> QED
    BY <1>2, <1>3

\* Every step of the subscriber is a step of the outbox or none: a handler takes effect in
\* one turn of its event, and only the messages of turns that took effect are sent.
THEOREM OutboxRefinement == Spec => ImplementsOutbox
<1>1. Init => Out!Init
    BY DEF Init, Out!Init, Announced
<1>2. ASSUME TypeOK, SubscriberInv, [Next]_vars PROVE [Out!Next]_(Out!outbox)
    <2>1. ASSUME NEW a \in Attempts, Handle(a) PROVE [Out!Next]_(Out!outbox)
        BY <1>2, <2>1, HandleTakes
    <2>2. ASSUME NEW p \in Processes, NEW m \in sendQueue[p], SendMessageState(p, m)
          PROVE  [Out!Next]_(Out!outbox)
        BY <1>2, <2>2, SendingTells
    <2>3. CASE UNCHANGED <<effects, published>>
        BY <2>3 DEF Out!outbox, Announced
    <2>4. \/ \E a \in Attempts : Handle(a)
          \/ \E p \in Processes : \E m \in sendQueue[p] : SendMessageState(p, m)
          \/ UNCHANGED <<effects, published>>
        BY <1>2 DEF Next, ConsumeMessage, vars, database, HasEventHandled, HandleFails, SaveFailHandledEvent,
                    SaveFailThrows, SendAsync, CommitOffset, AcknowledgeOffset, RemoveMessages, Start, Crash,
                    Receive
    <2> QED
        BY <2>1, <2>2, <2>3, <2>4
<1> QED
    BY <1>1, <1>2, SubscriberInvariant, PTL DEF Spec, ImplementsOutbox, Out!Spec
=============================================================================
