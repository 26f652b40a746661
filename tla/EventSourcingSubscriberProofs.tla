------------------- MODULE EventSourcingSubscriberProofs -------------------
(***************************************************************************)
(* Proofs about EventSourcingSubscriber, for any number of events,         *)
(* handlers, processes, deliveries, crashes and failing calls of Redis.    *)
(***************************************************************************)
EXTENDS EventSourcingSubscriber, TLAPS

\* The handlers of an event, as tasks and as turns.
LEMMA TurnFacts ==
    /\ \A a \in Attempts : Ev(a) \in Events /\ HandlerCount[Ev(a)] \in Nat
    /\ \A a \in Attempts : \A h \in 1..HandlerCount[Ev(a)] :
           <<a, h>> \in Turns /\ <<Ev(a), h>> \in Tasks
    /\ \A t \in Tasks : t = <<t[1], t[2]>> /\ t[1] \in Events /\ t[2] \in 1..HandlerCount[t[1]]
    /\ \A t \in Turns : t = <<t[1], t[2]>> /\ t[1] \in Attempts /\ t[2] \in 1..HandlerCount[Ev(t[1])]
<1>1. \A a \in Attempts : Ev(a) \in Events /\ HandlerCount[Ev(a)] \in Nat
    BY EventsAssumption DEF Attempts, Ev
<1>2. \A a \in Attempts : \A h \in 1..HandlerCount[Ev(a)] :
           <<a, h>> \in Turns /\ <<Ev(a), h>> \in Tasks
    BY <1>1 DEF Turns, Tasks
<1>3. \A t \in Tasks : t = <<t[1], t[2]>> /\ t[1] \in Events /\ t[2] \in 1..HandlerCount[t[1]]
    BY DEF Tasks
<1>4. \A t \in Turns : t = <<t[1], t[2]>> /\ t[1] \in Attempts /\ t[2] \in 1..HandlerCount[Ev(t[1])]
    BY DEF Turns
<1> QED
    BY <1>1, <1>2, <1>3, <1>4

LEMMA TypeInit == Init => TypeOK
BY LimitsAssumption DEF Init, TypeOK, NotHandled

\* An attempt at a handler is in the loop: its turn and its task are of the right type.
LEMMA InLoop ==
    ASSUME TypeOK, NEW a \in Attempts, pc[a] \in {"handle", "store", "send"}
    PROVE  /\ Task(a) \in Tasks /\ Turn(a) \in Turns /\ at[a] \in 1..HandlerCount[Ev(a)]
           /\ \A k \in Kinds : Msg(k, a) \in Messages
<1>1. Task(a) \in Tasks
    BY DEF TypeOK
<1>2. at[a] \in 1..HandlerCount[Ev(a)]
    <2>1. /\ <<Ev(a), at[a]>>[1] \in Events
          /\ <<Ev(a), at[a]>>[2] \in 1..HandlerCount[<<Ev(a), at[a]>>[1]]
        BY <1>1, TurnFacts DEF Task
    <2> QED
        BY <2>1
<1>3. Turn(a) \in Turns
    BY <1>2, TurnFacts DEF Turn
<1> QED
    BY <1>1, <1>2, <1>3 DEF Msg, Messages

LEMMA TypeStep == TypeOK /\ [Next]_vars => TypeOK'
<1> SUFFICES ASSUME TypeOK, [Next]_vars PROVE TypeOK'
    OBVIOUS
<1> USE DEF broker
<1>e. \A S \in SUBSET Messages : Entry(S) \in [stored : BOOLEAN, messages : SUBSET Messages]
    BY DEF Entry
<1>1. ASSUME NEW p \in Processes, NEW e \in Events, Receive(p, e) PROVE TypeOK'
    <2> DEFINE a == <<e, deliveries[e] + 1>>
    <2>1. a \in Attempts /\ Ev(a) = e /\ deliveries[e] + 1 \in 0..MaxDeliveries
        BY <1>1, LimitsAssumption DEF TypeOK, Receive, Attempts, Ev
    <2>2. deliveries' \in [Events -> 0..MaxDeliveries]
        BY <1>1, <2>1 DEF TypeOK, Receive
    <2>3. HandlerCount[e] # 0 => 1 \in 1..HandlerCount[Ev(a)]
        BY <2>1, TurnFacts
    <2>4. HandlerCount[e] # 0 => <<Ev(a), 1>> \in Tasks
        BY <2>1, <2>3, TurnFacts
    <2>5. /\ pc' = [pc EXCEPT ![a] = IF HandlerCount[e] = 0 THEN "finish" ELSE "handle"]
          /\ at' = [at EXCEPT ![a] = 1] /\ owner' = [owner EXCEPT ![a] = p]
          /\ ended' \in {[ended EXCEPT ![a] = "complete"], ended}
        BY <1>1 DEF Receive
    <2>6. \A b \in Attempts : pc'[b] \in {"handle", "store", "send"} => Task(b)' \in Tasks
        BY <2>1, <2>4, <2>5 DEF TypeOK, Task
    <2>7. /\ pc' \in [Attempts -> {"idle", "handle", "store", "send", "finish", "done", "over"}]
          /\ owner' \in [Attempts -> Processes \cup {NoOwner}]
          /\ at' \in [Attempts -> Nat]
          /\ ended' \in [Attempts -> {"no", "complete", "exists", "redis", "crash"}]
        BY <2>1, <2>5 DEF TypeOK
    <2> QED
        BY <1>1, <2>2, <2>6, <2>7 DEF TypeOK, Receive
<1>2. ASSUME NEW a \in Attempts, Handle(a) \/ HandleFails(a) PROVE TypeOK'
    <2>1. pc[a] = "handle" /\ pc' = [pc EXCEPT ![a] = "store"] /\ at' = at
        BY <1>2 DEF Handle, HandleFails
    <2>2. Turn(a) \in Turns /\ Task(a) \in Tasks /\ \A k \in Kinds : Msg(k, a) \in Messages
        BY <2>1, InLoop
    <2>3. bus' \in [Attempts -> SUBSET Messages]
        BY <1>2, <2>2, RaisedAssumption DEF Handle, HandleFails, TypeOK, Kinds
    <2>4. outcome' \in [Turns -> {"none", "success", "failure"}]
        BY <1>2, <2>2 DEF Handle, HandleFails, TypeOK
    <2>5. \A b \in Attempts : pc'[b] \in {"handle", "store", "send"} => Task(b)' \in Tasks
        BY <2>1, <2>2 DEF TypeOK, Task
    <2> QED
        BY <1>2, <2>1, <2>3, <2>4, <2>5 DEF Handle, HandleFails, TypeOK
<1>3. ASSUME NEW a \in Attempts, HandleEvent(a) \/ HandleEventFails(a) PROVE TypeOK'
    <2>1. pc[a] = "store" /\ at' = at
        BY <1>3 DEF HandleEvent, HandleEventFails
    <2>2. Task(a) \in Tasks
        BY <2>1, InLoop
    <2>3. handled[Task(a)].messages \in SUBSET Messages /\ bus[a] \in SUBSET Messages
        BY <2>2 DEF TypeOK
    <2>4. handled' \in [Tasks -> [stored : BOOLEAN, messages : SUBSET Messages]]
        BY <1>3, <1>e, <2>2, <2>3 DEF HandleEvent, HandleEventFails, Store, TypeOK
    <2>5. bus' \in [Attempts -> SUBSET Messages]
        BY <1>3, <2>3 DEF HandleEvent, HandleEventFails, Store, TypeOK
    <2>6. /\ pc' \in {[pc EXCEPT ![a] = "send"], [pc EXCEPT ![a] = "finish"]}
          /\ ended' \in [Attempts -> {"no", "complete", "exists", "redis", "crash"}]
        BY <1>3 DEF HandleEvent, HandleEventFails, Store, TypeOK
    <2>7. \A b \in Attempts : pc'[b] \in {"handle", "store", "send"} => Task(b)' \in Tasks
        BY <2>1, <2>2, <2>6 DEF TypeOK, Task
    <2>8. redisFailures' \in 0..MaxRedisFailures
        BY <1>3, LimitsAssumption DEF HandleEvent, HandleEventFails, TypeOK
    <2> QED
        BY <1>3, <2>1, <2>4, <2>5, <2>6, <2>7, <2>8 DEF HandleEvent, HandleEventFails, TypeOK
<1>4. ASSUME NEW a \in Attempts, Send(a) PROVE TypeOK'
    <2>1. pc[a] = "send" /\ Task(a) \in Tasks /\ at[a] \in 1..HandlerCount[Ev(a)] /\ HandlerCount[Ev(a)] \in Nat
        BY <1>4, InLoop, TurnFacts DEF Send
    <2>2. MessagesToSend(a) \subseteq Messages
        BY DEF TypeOK, MessagesToSend
    <2>3. /\ sendQueue' \in [Processes -> SUBSET Messages]
          /\ passed' \in [Attempts -> SUBSET Messages] /\ bus' \in [Attempts -> SUBSET Messages]
        BY <1>4, <2>2 DEF TypeOK, Send
    <2>4. CASE at[a] < HandlerCount[Ev(a)]
        <3>1. /\ at' = [at EXCEPT ![a] = at[a] + 1] /\ pc' = [pc EXCEPT ![a] = "handle"] /\ ended' = ended
            BY <1>4, <2>4 DEF Send, Advance
        <3>2. at[a] + 1 \in 1..HandlerCount[Ev(a)] /\ at[a] + 1 \in Nat
            BY <2>1, <2>4
        <3>3. <<Ev(a), at[a] + 1>> \in Tasks
            BY <3>2, TurnFacts
        <3>4. \A b \in Attempts : pc'[b] \in {"handle", "store", "send"} => Task(b)' \in Tasks
            BY <3>1, <3>3 DEF TypeOK, Task
        <3> QED
            BY <1>4, <2>3, <3>1, <3>2, <3>4 DEF TypeOK, Send
    <2>5. CASE ~(at[a] < HandlerCount[Ev(a)])
        <3>1. at' = at /\ pc' = [pc EXCEPT ![a] = "finish"] /\ ended' = [ended EXCEPT ![a] = "complete"]
            BY <1>4, <2>5 DEF Send, Advance
        <3>2. \A b \in Attempts : pc'[b] \in {"handle", "store", "send"} => Task(b)' \in Tasks
            BY <3>1 DEF TypeOK, Task
        <3> QED
            BY <1>4, <2>3, <3>1, <3>2 DEF TypeOK, Send
    <2> QED
        BY <2>4, <2>5
<1>5. ASSUME NEW a \in Attempts, CommitOffset(a) \/ AcknowledgeOffset(a) PROVE TypeOK'
    <2>1. at' = at /\ pc' \in {[pc EXCEPT ![a] = "done"], [pc EXCEPT ![a] = "over"]}
        BY <1>5 DEF CommitOffset, AcknowledgeOffset
    <2>2. \A b \in Attempts : pc'[b] \in {"handle", "store", "send"} => Task(b)' \in Tasks
        BY <2>1 DEF TypeOK, Task
    <2>3. consumed' \subseteq Events /\ owner' \in [Attempts -> Processes \cup {NoOwner}]
        BY <1>5, TurnFacts DEF CommitOffset, AcknowledgeOffset, TypeOK
    <2> QED
        BY <1>5, <2>1, <2>2, <2>3 DEF CommitOffset, AcknowledgeOffset, TypeOK
<1>6. ASSUME NEW p \in Processes, NEW m \in sendQueue[p], SendMessageState(p, m) PROVE TypeOK'
    BY <1>6 DEF SendMessageState, TypeOK, Task
<1>7. ASSUME NEW p \in Processes, Crash(p) PROVE TypeOK'
    <2>1. crashes' \in 0..MaxCrashes
        BY <1>7, LimitsAssumption DEF Crash, TypeOK
    <2>2. \A b \in Attempts : pc'[b] \in {"handle", "store", "send"} => Task(b)' \in Tasks
        BY <1>7 DEF Crash, TypeOK, Task
    <2> QED
        BY <1>7, <2>1, <2>2 DEF Crash, TypeOK
<1>8. CASE UNCHANGED vars
    BY <1>8 DEF vars, TypeOK, Task
<1> QED
    BY <1>1, <1>2, <1>3, <1>4, <1>5, <1>6, <1>7, <1>8 DEF Next, ConsumeMessage

\* Every variable keeps its type, and an attempt in its loop is at a handler of its event.
THEOREM TypeCorrect == Spec => []TypeOK
BY TypeInit, TypeStep, PTL DEF Spec

-----------------------------------------------------------------------------
(* What makes OneVoice and NoPhantomMessage inductive *)

\* The attempt that raised a message has had its turn.
Past(m) ==
    LET a == m.turn[1]
    IN /\ a[2] <= deliveries[Ev(a)]
       /\ pc[a] = "handle" => m.turn[2] < at[a]
       /\ pc[a] \in {"store", "send"} => m.turn[2] <= at[a]

\* A message says what became of the turn that raised it.
Honest(m) ==
    /\ m.kind \in {"command", "event"} => outcome[m.turn] = "success"
    /\ m.kind = "exceptionEvent" => outcome[m.turn] = "failure"

\* What is stored for a handler was raised in one of its turns.
StoredOnce ==
    \A t \in Tasks : \A m \in handled[t].messages :
        /\ TaskOf(m.turn) = t /\ Past(m) /\ Honest(m) /\ handled[t].stored
        /\ \A n \in handled[t].messages : m.turn = n.turn

\* A turn that is about to store has raised its messages itself; one that is about to
\* send has them from the store.
BusOwn ==
    \A a \in Attempts : \A m \in bus[a] :
        /\ pc[a] = "store" => m.turn = Turn(a) /\ Honest(m)
        /\ pc[a] = "send" => m \in handled[Task(a)].messages

\* What has left an attempt is in the store.
Stored(m) == m \in handled[TaskOf(m.turn)].messages
SentStored == \A m \in sent \cup UNION {sendQueue[p] : p \in Processes} : Stored(m)

\* An attempt is idle before its delivery, and nobody's.
Delivered ==
    \A a \in Attempts : IF pc[a] = "idle" THEN owner[a] = NoOwner ELSE a[2] <= deliveries[Ev(a)]

VoiceInv == StoredOnce /\ BusOwn /\ SentStored /\ Delivered

LEMMA MessageFacts ==
    \A m \in Messages :
        /\ m.turn \in Turns /\ m.turn[1] \in Attempts /\ m.turn[2] \in Nat
        /\ TaskOf(m.turn) \in Tasks /\ m.turn = <<m.turn[1], m.turn[2]>>
<1> SUFFICES ASSUME NEW m \in Messages
             PROVE  /\ m.turn \in Turns /\ m.turn[1] \in Attempts /\ m.turn[2] \in Nat
                    /\ TaskOf(m.turn) \in Tasks /\ m.turn = <<m.turn[1], m.turn[2]>>
    OBVIOUS
<1>1. m.turn \in Turns
    BY DEF Messages
<1>2. m.turn[1] \in Attempts /\ m.turn[2] \in 1..HandlerCount[Ev(m.turn[1])] /\ m.turn = <<m.turn[1], m.turn[2]>>
    BY <1>1, TurnFacts
<1>3. TaskOf(m.turn) \in Tasks /\ m.turn[2] \in Nat
    BY <1>2, TurnFacts DEF TaskOf
<1> QED
    BY <1>1, <1>2, <1>3

LEMMA VoiceInit == Init => VoiceInv
BY DEF Init, VoiceInv, StoredOnce, BusOwn, SentStored, Delivered, NotHandled

\* A step that leaves the store, the buses and the senders alone keeps the invariant if it
\* keeps messages past and honest, and lets no attempt into a turn's end.
LEMMA QuietStep ==
    ASSUME TypeOK, VoiceInv, UNCHANGED <<handled, sent, sendQueue>>,
           \A m \in Messages : Past(m) /\ Honest(m) => Past(m)' /\ Honest(m)',
           BusOwn', Delivered'
    PROVE  VoiceInv'
<1>1. StoredOnce'
    BY DEF VoiceInv, StoredOnce, TypeOK
<1>2. SentStored'
    BY DEF VoiceInv, SentStored, Stored
<1> QED
    BY <1>1, <1>2 DEF VoiceInv

LEMMA VoiceStep == TypeOK /\ VoiceInv /\ [Next]_vars => VoiceInv'
<1> SUFFICES ASSUME TypeOK, VoiceInv, [Next]_vars PROVE VoiceInv'
    OBVIOUS
<1> USE DEF broker
<1>1. ASSUME NEW p \in Processes, NEW e \in Events, Receive(p, e) PROVE VoiceInv'
    <2> DEFINE a == <<e, deliveries[e] + 1>>
    <2>1. /\ a \in Attempts /\ Ev(a) = e /\ a[2] = deliveries[e] + 1 /\ deliveries[e] \in Nat
          /\ ~(a[2] <= deliveries[Ev(a)])
        BY <1>1, LimitsAssumption DEF TypeOK, Receive, Attempts, Ev
    <2>2. /\ \A b \in Attempts : b # a => pc'[b] = pc[b] /\ at'[b] = at[b] /\ owner'[b] = owner[b]
          /\ pc'[a] \in {"handle", "finish"}
          /\ deliveries' = [deliveries EXCEPT ![e] = deliveries[e] + 1]
        BY <1>1, <2>1 DEF TypeOK, Receive
    <2>3. \A b \in Attempts : b[2] <= deliveries[Ev(b)] => b[2] <= deliveries'[Ev(b)]
        BY <2>1, <2>2, TurnFacts DEF TypeOK, Attempts
    <2>4. ASSUME NEW m \in Messages, Past(m), Honest(m) PROVE Past(m)' /\ Honest(m)'
        <3>1. m.turn[1] \in Attempts /\ m.turn[1] # a
            BY <2>1, <2>4, MessageFacts DEF Past
        <3> QED
            BY <1>1, <2>2, <2>3, <2>4, <3>1 DEF Past, Honest, Receive
    <2>5. BusOwn'
        BY <1>1, <2>2 DEF VoiceInv, BusOwn, Receive, Turn, Task, Honest
    <2>6. Delivered'
        <3>1. a[2] <= deliveries'[Ev(a)] /\ pc'[a] # "idle"
            BY <2>1, <2>2 DEF TypeOK
        <3> HIDE DEF a
        <3> QED
            BY <2>2, <2>3, <3>1 DEF VoiceInv, Delivered
    <2> QED
        BY <1>1, <2>4, <2>5, <2>6, QuietStep DEF Receive
<1>2. ASSUME NEW a \in Attempts, Handle(a) \/ HandleFails(a) PROVE VoiceInv'
    <2>1. /\ pc[a] = "handle" /\ pc' = [pc EXCEPT ![a] = "store"] /\ at' = at
          /\ UNCHANGED <<handled, sent, sendQueue, deliveries, owner>>
        BY <1>2 DEF Handle, HandleFails
    <2>2. Turn(a) \in Turns
        BY <2>1, InLoop
    <2>3. \A t \in Turns : t # Turn(a) => outcome'[t] = outcome[t]
        BY <1>2, <2>2 DEF Handle, HandleFails, TypeOK
    <2>4. ASSUME NEW m \in Messages, Past(m), Honest(m) PROVE Past(m)' /\ Honest(m)'
        <3>1. m.turn[1] = a => m.turn[2] < at[a]
            BY <2>1, <2>4 DEF Past
        <3>2. m.turn # Turn(a) /\ m.turn \in Turns /\ m.turn[1] \in Attempts /\ m.turn[2] \in Nat
            BY <3>1, MessageFacts DEF Turn, TypeOK
        <3>3. Honest(m)'
            BY <2>3, <2>4, <3>2 DEF Honest
        <3>4. Past(m)'
            BY <2>1, <2>4, <3>1, <3>2 DEF Past, TypeOK
        <3> QED
            BY <3>3, <3>4
    <2>5. ASSUME NEW m \in bus'[a] PROVE m.turn = Turn(a) /\ Honest(m)'
        BY <1>2, <2>2, <2>5, RaisedAssumption DEF Handle, HandleFails, TypeOK, Msg, Honest
    <2>6. \A b \in Attempts : b # a => bus'[b] = bus[b] /\ pc'[b] = pc[b]
        BY <1>2, <2>1 DEF Handle, HandleFails, TypeOK
    <2>7. ASSUME NEW b \in Attempts, NEW m \in bus'[b]
          PROVE  /\ pc'[b] = "store" => m.turn = Turn(b)' /\ Honest(m)'
                 /\ pc'[b] = "send" => m \in handled'[Task(b)'].messages
        <3>1. CASE b = a
            BY <2>1, <2>5, <2>7, <3>1 DEF Turn, TypeOK
        <3>2. CASE b # a
            <4>1. m \in bus[b] /\ Turn(b)' = Turn(b) /\ Task(b)' = Task(b) /\ pc'[b] = pc[b]
                BY <2>1, <2>6, <2>7, <3>2 DEF Turn, Task
            <4>2. pc[b] = "store" => m.turn = Turn(b) /\ Turn(b) # Turn(a) /\ Turn(b) \in Turns /\ Honest(m)
                BY <3>2, <4>1, InLoop DEF VoiceInv, BusOwn, Turn
            <4>3. pc[b] = "store" => Honest(m)'
                BY <2>3, <4>2 DEF Honest
            <4> QED
                BY <2>1, <4>1, <4>2, <4>3 DEF VoiceInv, BusOwn
        <3> QED
            BY <3>1, <3>2
    <2>8. BusOwn'
        BY <2>7 DEF BusOwn
    <2>9. Delivered'
        BY <2>1 DEF VoiceInv, Delivered, TypeOK
    <2> QED
        BY <2>1, <2>4, <2>8, <2>9, QuietStep
<1>3. ASSUME NEW a \in Attempts, HandleEvent(a) \/ HandleEventFails(a) PROVE VoiceInv'
    <2>1. /\ pc[a] = "store" /\ pc' \in {[pc EXCEPT ![a] = "send"], [pc EXCEPT ![a] = "finish"]}
          /\ UNCHANGED <<at, sent, sendQueue, deliveries, outcome, owner>>
        BY <1>3 DEF HandleEvent, HandleEventFails, Store
    <2>2. Task(a) \in Tasks /\ Turn(a) \in Turns /\ TaskOf(Turn(a)) = Task(a) /\ at[a] \in Nat
        BY <2>1, InLoop DEF TaskOf, Turn, Task, TypeOK
    <2>3. \/ handled' = handled
          \/ /\ ~handled[Task(a)].stored /\ bus' = bus
             /\ handled' = [handled EXCEPT ![Task(a)] = Entry(bus[a])]
        BY <1>3 DEF HandleEvent, HandleEventFails, Store
    <2>4. \A t \in Tasks : handled[t].messages \subseteq handled'[t].messages
        BY <2>2, <2>3 DEF VoiceInv, StoredOnce, TypeOK
    <2>5. ASSUME NEW m \in Messages, Past(m), Honest(m) PROVE Past(m)' /\ Honest(m)'
        <3>1. m.turn[1] \in Attempts /\ pc'[m.turn[1]] \in {pc[m.turn[1]], "send", "finish"}
            BY <2>1, MessageFacts DEF TypeOK
        <3>2. pc'[m.turn[1]] # pc[m.turn[1]] => m.turn[1] = a
            BY <2>1, <3>1 DEF TypeOK
        <3> QED
            BY <2>1, <2>5, <3>1, <3>2 DEF Past, Honest
    <2>6. ASSUME NEW m \in bus[a] PROVE m.turn = Turn(a) /\ Honest(m)' /\ Past(m)'
        <3>1. m.turn = Turn(a) /\ Honest(m)
            BY <2>1, <2>6 DEF VoiceInv, BusOwn
        <3>2. Past(m)'
            BY <2>1, <2>2, <3>1 DEF Past, Turn, VoiceInv, Delivered, TypeOK
        <3> QED
            BY <2>1, <3>1, <3>2 DEF Honest
    <2>7. ASSUME NEW t \in Tasks, NEW m \in handled'[t].messages
          PROVE  /\ TaskOf(m.turn) = t /\ Past(m)' /\ Honest(m)' /\ handled'[t].stored
                 /\ \A n \in handled'[t].messages : m.turn = n.turn
        <3>1. CASE handled'[t] = handled[t]
            BY <2>5, <2>7, <3>1 DEF VoiceInv, StoredOnce, TypeOK
        <3>2. CASE handled'[t] = Entry(bus[a]) /\ t = Task(a)
            BY <2>2, <2>6, <2>7, <3>2 DEF Entry
        <3> QED
            BY <2>2, <2>3, <3>1, <3>2 DEF TypeOK
    <2>8. StoredOnce'
        BY <2>7 DEF StoredOnce, TaskOf, Ev
    <2>9. SentStored'
        <3>1. \A m \in Messages : Stored(m) => Stored(m)'
            BY <2>4, MessageFacts DEF Stored, TaskOf, Ev
        <3> QED
            BY <2>1, <3>1 DEF VoiceInv, SentStored, TypeOK
    <2>10. ASSUME NEW b \in Attempts, NEW m \in bus'[b]
           PROVE  /\ pc'[b] = "store" => m.turn = Turn(b)' /\ Honest(m)'
                  /\ pc'[b] = "send" => m \in handled'[Task(b)'].messages
        <3>t. Turn(b)' = Turn(b) /\ Task(b)' = Task(b)
            BY <2>1 DEF Turn, Task
        <3>1. CASE b = a
            <4>1. pc'[a] # "store"
                BY <2>1 DEF TypeOK
            <4>2. pc'[a] = "send" => bus'[a] = handled'[Task(a)].messages
                BY <1>3, <2>1, <2>2 DEF HandleEvent, HandleEventFails, Store, Entry, TypeOK
            <4> QED
                BY <2>10, <3>t, <3>1, <4>1, <4>2
        <3>2. CASE b # a
            <4>1. pc'[b] = pc[b] /\ bus'[b] = bus[b]
                BY <1>3, <2>1, <3>2 DEF HandleEvent, HandleEventFails, Store, TypeOK
            <4>2. pc[b] = "send" => Task(b) \in Tasks
                BY InLoop
            <4> QED
                BY <2>1, <2>4, <2>10, <3>t, <4>1, <4>2 DEF VoiceInv, BusOwn, Honest
        <3> QED
            BY <3>1, <3>2
    <2>11. BusOwn' /\ Delivered'
        BY <2>1, <2>10 DEF BusOwn, VoiceInv, Delivered, TypeOK
    <2> QED
        BY <2>8, <2>9, <2>11 DEF VoiceInv
<1>4. ASSUME NEW a \in Attempts, Send(a) PROVE VoiceInv'
    <2>1. /\ pc[a] = "send" /\ UNCHANGED <<handled, sent, deliveries, outcome, owner>>
          /\ bus' = [bus EXCEPT ![a] = {}]
          /\ sendQueue' = [sendQueue EXCEPT ![owner[a]] = @ \cup MessagesToSend(a)]
        BY <1>4 DEF Send
    <2>2. \/ at' = [at EXCEPT ![a] = at[a] + 1] /\ pc' = [pc EXCEPT ![a] = "handle"]
          \/ at' = at /\ pc' = [pc EXCEPT ![a] = "finish"]
        BY <1>4 DEF Send, Advance
    <2>3. at[a] \in Nat /\ Task(a) \in Tasks
        BY <2>1, InLoop DEF TypeOK
    <2>4. ASSUME NEW m \in Messages, Past(m), Honest(m) PROVE Past(m)' /\ Honest(m)'
        <3>1. m.turn[1] \in Attempts /\ m.turn[2] \in Nat
            BY MessageFacts
        <3>2. CASE m.turn[1] = a
            BY <2>1, <2>2, <2>3, <2>4, <3>1, <3>2 DEF Past, Honest, TypeOK
        <3>3. CASE m.turn[1] # a
            BY <2>1, <2>2, <2>4, <3>1, <3>3 DEF Past, Honest, TypeOK
        <3> QED
            BY <3>2, <3>3
    <2>5. StoredOnce'
        BY <2>1, <2>4 DEF VoiceInv, StoredOnce, TypeOK, TaskOf, Ev
    <2>6. \A m \in MessagesToSend(a) : m \in Messages /\ Stored(m)
        BY <2>1, <2>3 DEF VoiceInv, BusOwn, StoredOnce, MessagesToSend, Stored, TypeOK
    <2>7. SentStored'
        <3>1. \A p \in Processes : sendQueue'[p] \subseteq sendQueue[p] \cup MessagesToSend(a)
            BY <2>1 DEF TypeOK
        <3>2. \A m : Stored(m)' = Stored(m)
            BY <2>1 DEF Stored, TaskOf, Ev
        <3> QED
            BY <2>1, <2>6, <3>1, <3>2 DEF VoiceInv, SentStored
    <2>8. \A b \in Attempts : b # a => pc'[b] = pc[b] /\ at'[b] = at[b] /\ bus'[b] = bus[b]
        BY <2>1, <2>2 DEF TypeOK
    <2>9. BusOwn'
        BY <2>1, <2>8 DEF VoiceInv, BusOwn, TypeOK, Turn, Task, Honest
    <2>10. Delivered'
        BY <2>1, <2>2 DEF VoiceInv, Delivered, TypeOK
    <2> QED
        BY <2>5, <2>7, <2>9, <2>10 DEF VoiceInv
<1>5. ASSUME NEW a \in Attempts, CommitOffset(a) \/ AcknowledgeOffset(a) PROVE VoiceInv'
    <2>1. /\ pc[a] # "idle" /\ pc' \in {[pc EXCEPT ![a] = "done"], [pc EXCEPT ![a] = "over"]}
          /\ UNCHANGED <<handled, sent, deliveries, outcome, at, bus, sendQueue>>
        BY <1>5 DEF CommitOffset, AcknowledgeOffset
    <2>2. \A b \in Attempts : pc'[b] \in {"handle", "store", "send"} => pc'[b] = pc[b]
        BY <2>1 DEF TypeOK
    <2>3. \A m \in Messages : Past(m) /\ Honest(m) => Past(m)' /\ Honest(m)'
        BY <2>1, <2>2, MessageFacts DEF Past, Honest
    <2>4. BusOwn'
        BY <2>1, <2>2 DEF VoiceInv, BusOwn, Turn, Task, Honest
    <2>5. \A b \in Attempts : b # a => pc'[b] = pc[b] /\ owner'[b] = owner[b]
        BY <1>5 DEF CommitOffset, AcknowledgeOffset, TypeOK
    <2>6. pc'[a] # "idle"
        BY <2>1 DEF TypeOK
    <2>7. Delivered'
        BY <2>1, <2>5, <2>6 DEF VoiceInv, Delivered
    <2> QED
        BY <2>1, <2>3, <2>4, <2>7, QuietStep
<1>6. ASSUME NEW p \in Processes, NEW m \in sendQueue[p], SendMessageState(p, m) PROVE VoiceInv'
    <2>1. /\ UNCHANGED <<handled, deliveries, outcome, pc, at, bus, owner>>
          /\ sent' = sent \cup {m}
          /\ \A q \in Processes : sendQueue'[q] \subseteq sendQueue[q]
        BY <1>6 DEF SendMessageState, TypeOK
    <2>2. \A n : (Past(n)' = Past(n)) /\ (Honest(n)' = Honest(n)) /\ (Stored(n)' = Stored(n))
        BY <2>1 DEF Past, Honest, Stored, TaskOf, Ev
    <2>3. StoredOnce' /\ BusOwn' /\ Delivered'
        BY <2>1, <2>2 DEF VoiceInv, StoredOnce, BusOwn, Delivered, Turn, Task, TaskOf, Ev
    <2>4. SentStored'
        BY <2>1, <2>2 DEF VoiceInv, SentStored
    <2> QED
        BY <2>3, <2>4 DEF VoiceInv
<1>7. ASSUME NEW p \in Processes, Crash(p) PROVE VoiceInv'
    <2>1. UNCHANGED <<handled, deliveries, outcome, at, sent>>
        BY <1>7 DEF Crash
    <2>2. ASSUME NEW b \in Attempts
          PROVE  \/ pc'[b] = pc[b] /\ bus'[b] = bus[b] /\ owner'[b] = owner[b]
                 \/ pc'[b] = "over" /\ owner[b] = p
        BY <1>7 DEF Crash
    <2>3. ASSUME NEW m \in Messages, Past(m), Honest(m) PROVE Past(m)' /\ Honest(m)'
        BY <2>1, <2>2, <2>3, MessageFacts DEF Past, Honest
    <2>4. StoredOnce'
        BY <2>1, <2>3 DEF VoiceInv, StoredOnce, TypeOK, TaskOf, Ev
    <2>5. BusOwn'
        BY <2>1, <2>2 DEF VoiceInv, BusOwn, Turn, Task, Honest
    <2>6. SentStored'
        <3>1. \A q \in Processes : sendQueue'[q] \subseteq sendQueue[q]
            BY <1>7 DEF Crash, TypeOK
        <3>2. \A m : Stored(m)' = Stored(m)
            BY <2>1 DEF Stored, TaskOf, Ev
        <3> QED
            BY <2>1, <3>1, <3>2 DEF VoiceInv, SentStored
    <2>7. Delivered'
        BY <2>1, <2>2, OwnerAssumption DEF VoiceInv, Delivered
    <2> QED
        BY <2>4, <2>5, <2>6, <2>7 DEF VoiceInv
<1>8. CASE UNCHANGED vars
    <2>1. \A m : (Past(m)' = Past(m)) /\ (Honest(m)' = Honest(m))
        BY <1>8 DEF vars, Past, Honest
    <2>2. BusOwn' /\ Delivered'
        BY <1>8, <2>1 DEF vars, VoiceInv, BusOwn, Delivered, Turn, Task
    <2> QED
        BY <1>8, <2>1, <2>2, QuietStep DEF vars
<1> QED
    BY <1>1, <1>2, <1>3, <1>4, <1>5, <1>6, <1>7, <1>8 DEF Next, ConsumeMessage

LEMMA VoiceInvariant == Spec => [](TypeOK /\ VoiceInv)
<1>1. TypeOK /\ VoiceInv /\ [Next]_vars => (TypeOK /\ VoiceInv)'
    BY TypeStep, VoiceStep
<1> QED
    BY TypeInit, VoiceInit, <1>1, PTL DEF Spec

\* Of all the turns of a handler for an event the world hears one, the first to be stored,
\* for any number of deliveries, processes, crashes and failing calls.
THEOREM OneVoiceTheorem == Spec => []OneVoice
<1>1. TypeOK /\ VoiceInv => OneVoice
    <2> SUFFICES ASSUME TypeOK, VoiceInv, NEW m \in sent, NEW n \in sent, TaskOf(m.turn) = TaskOf(n.turn)
                 PROVE  m.turn = n.turn
        BY DEF OneVoice
    <2>1. m \in handled[TaskOf(m.turn)].messages /\ n \in handled[TaskOf(m.turn)].messages
        BY DEF VoiceInv, SentStored, Stored
    <2>2. TaskOf(m.turn) \in Tasks
        BY MessageFacts DEF TypeOK
    <2> QED
        BY <2>1, <2>2 DEF VoiceInv, StoredOnce
<1> QED
    BY VoiceInvariant, <1>1, PTL

\* Nothing a handler raised before it threw is sent, by its own attempt or a later one.
THEOREM NoMessageOfAFailure == Spec => []NoPhantomMessage
<1>1. TypeOK /\ VoiceInv => NoPhantomMessage
    <2> SUFFICES ASSUME TypeOK, VoiceInv, NEW m \in sent PROVE Honest(m)
        BY DEF NoPhantomMessage, Honest
    <2>1. m \in handled[TaskOf(m.turn)].messages /\ TaskOf(m.turn) \in Tasks
        BY MessageFacts DEF TypeOK, VoiceInv, SentStored, Stored
    <2> QED
        BY <2>1 DEF VoiceInv, StoredOnce
<1> QED
    BY VoiceInvariant, <1>1, PTL

-----------------------------------------------------------------------------
(* What an attempt has behind it *)

Loop == {"handle", "store", "send"}

\* The handlers of an event whose messages are stored.
Rows(e) == {h \in 1..HandlerCount[e] : handled[<<e, h>>].stored}

\* An attempt that is at work belongs to a process, knows how it ended, and gives way only
\* to what is stored.
WellEnded(a) ==
    /\ pc[a] \notin {"idle", "over"} => owner[a] \in Processes
    /\ pc[a] \in Loop \cup {"idle"} => ended[a] = "no"
    /\ pc[a] \in {"finish", "done"} => ended[a] \in {"complete", "exists", "redis"}
    /\ pc[a] = "over" => ended[a] # "no"
    /\ ended[a] = "exists" => Rows(Ev(a)) # {}

\* What is behind it is stored, and the attempt has passed it on.
Returned(a) ==
    \A h \in 1..HandlerCount[Ev(a)] :
        (pc[a] \in Loop /\ h < at[a]) \/ ended[a] = "complete" =>
            handled[<<Ev(a), h>>].stored /\ ToSend(<<Ev(a), h>>) \subseteq passed[a]

\* What it is about to send is all that is stored.
SendsStored(a) ==
    pc[a] = "send" => handled[Task(a)].stored /\ bus[a] = handled[Task(a)].messages

ReturnInv == \A a \in Attempts : WellEnded(a) /\ Returned(a) /\ SendsStored(a)

LEMMA ReturnInit == Init => ReturnInv
BY DEF Init, ReturnInv, WellEnded, Returned, SendsStored, Loop

\* What is stored stays as it is.
LEMMA StoredStays ==
    ASSUME TypeOK, [Next]_vars
    PROVE  \A t \in Tasks : handled[t].stored => handled'[t] = handled[t]
<1>1. ASSUME NEW a \in Attempts, HandleEvent(a) \/ HandleEventFails(a)
      PROVE  \A t \in Tasks : handled[t].stored => handled'[t] = handled[t]
    <2>1. Task(a) \in Tasks
        BY <1>1, InLoop DEF HandleEvent, HandleEventFails
    <2>2. \/ handled' = handled
          \/ /\ ~handled[Task(a)].stored
             /\ handled' = [handled EXCEPT ![Task(a)] = Entry(bus[a])]
        BY <1>1 DEF HandleEvent, HandleEventFails, Store
    <2> QED
        BY <2>1, <2>2 DEF TypeOK
<1>2. ASSUME NEW a \in Attempts,
             Handle(a) \/ HandleFails(a) \/ Send(a) \/ CommitOffset(a) \/ AcknowledgeOffset(a)
      PROVE  handled' = handled
    BY <1>2 DEF Handle, HandleFails, Send, CommitOffset, AcknowledgeOffset
<1>3. ASSUME NEW p \in Processes,
             Crash(p) \/ (\E e \in Events : Receive(p, e)) \/ \E m \in sendQueue[p] : SendMessageState(p, m)
      PROVE  handled' = handled
    BY <1>3 DEF Crash, Receive, SendMessageState
<1>4. CASE UNCHANGED vars
    BY <1>4 DEF vars
<1> QED
    BY <1>1, <1>2, <1>3, <1>4 DEF Next, ConsumeMessage

LEMMA RowsStay ==
    ASSUME TypeOK, [Next]_vars
    PROVE  /\ \A e \in Events : Rows(e) \subseteq Rows(e)'
           /\ \A a \in Attempts, h \in Nat :
                 h \in 1..HandlerCount[Ev(a)] /\ handled[<<Ev(a), h>>].stored =>
                     /\ handled'[<<Ev(a), h>>].stored
                     /\ ToSend(<<Ev(a), h>>)' = ToSend(<<Ev(a), h>>)
<1>1. \A t \in Tasks : handled[t].stored => handled'[t] = handled[t]
    BY StoredStays
<1>2. \A e \in Events : \A h \in 1..HandlerCount[e] : <<e, h>> \in Tasks
    BY DEF Tasks
<1> QED
    BY <1>1, <1>2, TurnFacts DEF Rows, ToSend

\* An attempt that a step leaves alone, or only moves on within its turn or after its end,
\* keeps what it has behind it.
LEMMA ReturnKept ==
    ASSUME TypeOK, ReturnInv, [Next]_vars, NEW a \in Attempts, passed'[a] = passed[a],
           \/ at'[a] = at[a] /\ (pc'[a] \in Loop => pc[a] \in Loop)
           \/ at'[a] = 1 /\ (ended'[a] = "complete" => HandlerCount[Ev(a)] = 0),
           ended'[a] = "complete" => ended[a] = "complete" \/ HandlerCount[Ev(a)] = 0
    PROVE  Returned(a)'
<1> SUFFICES ASSUME NEW h \in 1..HandlerCount[Ev(a)], (pc'[a] \in Loop /\ h < at'[a]) \/ ended'[a] = "complete"
             PROVE  handled'[<<Ev(a), h>>].stored /\ ToSend(<<Ev(a), h>>)' \subseteq passed'[a]
    BY DEF Returned, Ev
<1>1. h \in Nat /\ HandlerCount[Ev(a)] \in Nat /\ h >= 1
    BY TurnFacts
<1>2. handled[<<Ev(a), h>>].stored /\ ToSend(<<Ev(a), h>>) \subseteq passed[a]
    BY <1>1 DEF ReturnInv, Returned
<1> QED
    BY <1>1, <1>2, RowsStay

LEMMA OthersReturn ==
    ASSUME TypeOK, ReturnInv, [Next]_vars, NEW b \in Attempts,
           pc'[b] = pc[b], owner'[b] = owner[b], at'[b] = at[b], bus'[b] = bus[b],
           passed'[b] = passed[b], ended'[b] = ended[b]
    PROVE  WellEnded(b)' /\ Returned(b)' /\ SendsStored(b)'
<1>1. Returned(b)'
    BY ReturnKept
<1>2. WellEnded(b)'
    BY RowsStay, TurnFacts DEF ReturnInv, WellEnded, Ev
<1>3. SendsStored(b)'
    <2>1. pc[b] = "send" => Task(b) \in Tasks /\ Task(b)' = Task(b)
        BY InLoop DEF Task, Ev
    <2> QED
        BY <2>1, StoredStays DEF ReturnInv, SendsStored
<1> QED
    BY <1>1, <1>2, <1>3

LEMMA ReturnReceive ==
    ASSUME TypeOK, VoiceInv, ReturnInv, NEW p \in Processes, NEW e \in Events, Receive(p, e)
    PROVE  ReturnInv'
<1>0. PICK a \in Attempts : a = <<e, deliveries[e] + 1>>
    BY LimitsAssumption DEF TypeOK, Receive, Attempts
<1>1. Ev(a) = e /\ ~(a[2] <= deliveries[Ev(a)])
    BY <1>0 DEF TypeOK, Receive, Ev
<1>n. [Next]_vars
    BY DEF Next
<1>2. pc[a] = "idle"
    BY <1>1 DEF VoiceInv, Delivered
<1>3. /\ \A b \in Attempts : b # a => pc'[b] = pc[b] /\ at'[b] = at[b] /\ ended'[b] = ended[b]
                                      /\ owner'[b] = owner[b]
      /\ at'[a] = 1 /\ owner'[a] = p /\ UNCHANGED <<passed, bus>>
      /\ \/ pc'[a] = "handle" /\ ended'[a] = ended[a]
         \/ pc'[a] = "finish" /\ ended'[a] = "complete" /\ HandlerCount[e] = 0
    BY <1>0 DEF TypeOK, Receive
<1>4. ended[a] = "no"
    BY <1>2 DEF ReturnInv, WellEnded
<1>5. WellEnded(a)' /\ SendsStored(a)'
    BY <1>3, <1>4 DEF WellEnded, SendsStored, Loop
<1>6. Returned(a)'
    BY <1>1, <1>n, <1>3, <1>4, ReturnKept
<1> QED
    BY <1>n, <1>3, <1>5, <1>6, OthersReturn DEF ReturnInv

LEMMA ReturnStore ==
    ASSUME TypeOK, ReturnInv, NEW a \in Attempts, HandleEvent(a) \/ HandleEventFails(a)
    PROVE  ReturnInv'
<1>1. [Next]_vars
    BY DEF Next, ConsumeMessage
<1>2. /\ pc[a] = "store" /\ Task(a) \in Tasks /\ Task(a)' = Task(a)
      /\ UNCHANGED <<at, owner, passed>>
      /\ Ev(a) \in Events /\ at[a] \in 1..HandlerCount[Ev(a)]
    BY InLoop, TurnFacts DEF HandleEvent, HandleEventFails, Task
<1>3. \A b \in Attempts : b # a => pc'[b] = pc[b] /\ ended'[b] = ended[b] /\ bus'[b] = bus[b]
    BY DEF HandleEvent, HandleEventFails, Store, TypeOK
<1>4. \/ /\ pc'[a] = "send" /\ ended'[a] = ended[a]
         /\ handled'[Task(a)].stored /\ bus'[a] = handled'[Task(a)].messages
      \/ /\ pc'[a] = "finish"
         /\ ended'[a] = "redis" \/ (ended'[a] = "exists" /\ handled[Task(a)].stored)
    BY <1>2 DEF HandleEvent, HandleEventFails, Store, Entry, TypeOK
<1>5. ended[a] = "no" /\ owner[a] \in Processes
    BY <1>2 DEF ReturnInv, WellEnded, Loop
<1>6. handled[Task(a)].stored => at[a] \in Rows(Ev(a))
    BY <1>2 DEF Rows, Task
<1>7. WellEnded(a)'
    BY <1>1, <1>2, <1>4, <1>5, <1>6, RowsStay DEF WellEnded, Loop, Ev
<1>8. SendsStored(a)'
    BY <1>2, <1>4 DEF SendsStored
<1>9. Returned(a)'
    BY <1>1, <1>2, <1>4, <1>5, ReturnKept DEF Loop
<1> QED
    BY <1>1, <1>2, <1>3, <1>7, <1>8, <1>9, OthersReturn DEF ReturnInv

LEMMA ReturnSend ==
    ASSUME TypeOK, ReturnInv, NEW a \in Attempts, Send(a)
    PROVE  ReturnInv'
<1>1. [Next]_vars
    BY DEF Next, ConsumeMessage
<1>2. /\ pc[a] = "send" /\ Task(a) \in Tasks /\ Task(a) = <<Ev(a), at[a]>>
      /\ UNCHANGED <<owner, handled>>
      /\ at[a] \in 1..HandlerCount[Ev(a)] /\ HandlerCount[Ev(a)] \in Nat
    BY InLoop, TurnFacts DEF Send, Task
<1>3. /\ \A b \in Attempts : b # a => pc'[b] = pc[b] /\ at'[b] = at[b] /\ ended'[b] = ended[b]
                                      /\ bus'[b] = bus[b] /\ passed'[b] = passed[b]
      /\ \/ pc'[a] = "handle" /\ at'[a] = at[a] + 1 /\ ended'[a] = ended[a]
         \/ pc'[a] = "finish" /\ ended'[a] = "complete" /\ at[a] = HandlerCount[Ev(a)]
      /\ passed'[a] = passed[a] \cup MessagesToSend(a)
    BY <1>2 DEF Send, Advance, TypeOK
<1>4. ended[a] = "no" /\ owner[a] \in Processes
    BY <1>2 DEF ReturnInv, WellEnded, Loop
<1>5. WellEnded(a)' /\ SendsStored(a)'
    BY <1>2, <1>3, <1>4 DEF WellEnded, SendsStored, Loop
<1>6. handled[Task(a)].stored /\ MessagesToSend(a) = ToSend(Task(a))
    BY <1>2 DEF ReturnInv, SendsStored, MessagesToSend, ToSend
<1>7. \A h \in 1..HandlerCount[Ev(a)] : h <= at[a] =>
          handled[<<Ev(a), h>>].stored /\ ToSend(<<Ev(a), h>>) \subseteq passed'[a]
    <2> SUFFICES ASSUME NEW h \in 1..HandlerCount[Ev(a)], h <= at[a]
                 PROVE  handled[<<Ev(a), h>>].stored /\ ToSend(<<Ev(a), h>>) \subseteq passed'[a]
        OBVIOUS
    <2>1. CASE h = at[a]
        BY <1>2, <1>3, <1>6, <2>1
    <2>2. CASE h < at[a]
        BY <1>2, <1>3, <2>2 DEF ReturnInv, Returned, Loop
    <2> QED
        BY <1>2, <2>1, <2>2
<1>8. Returned(a)'
    <2> SUFFICES ASSUME NEW h \in 1..HandlerCount[Ev(a)], (pc'[a] \in Loop /\ h < at'[a]) \/ ended'[a] = "complete"
                 PROVE  handled[<<Ev(a), h>>].stored /\ ToSend(<<Ev(a), h>>) \subseteq passed'[a]
        BY <1>2 DEF Returned, Ev, ToSend
    <2>1. h <= at[a]
        BY <1>2, <1>3, <1>4 DEF Loop
    <2> QED
        BY <1>7, <2>1
<1> QED
    BY <1>1, <1>2, <1>3, <1>5, <1>8, OthersReturn DEF ReturnInv

LEMMA ReturnStep == TypeOK /\ VoiceInv /\ ReturnInv /\ [Next]_vars => ReturnInv'
<1> SUFFICES ASSUME TypeOK, VoiceInv, ReturnInv, [Next]_vars PROVE ReturnInv'
    OBVIOUS
<1>1. ASSUME NEW a \in Attempts,
             Handle(a) \/ HandleFails(a) \/ CommitOffset(a) \/ AcknowledgeOffset(a)
      PROVE  ReturnInv'
    <2>1. /\ UNCHANGED <<handled, at, passed, ended>>
          /\ \A b \in Attempts : b # a => pc'[b] = pc[b] /\ owner'[b] = owner[b] /\ bus'[b] = bus[b]
          /\ \/ pc[a] = "handle" /\ pc'[a] = "store" /\ owner'[a] = owner[a]
             \/ pc[a] = "finish" /\ pc'[a] = "done" /\ owner'[a] = owner[a]
             \/ pc[a] = "done" /\ pc'[a] = "over"
        BY <1>1 DEF Handle, HandleFails, CommitOffset, AcknowledgeOffset, TypeOK
    <2>2. WellEnded(a)'
        BY <2>1 DEF ReturnInv, WellEnded, Loop, Rows, Ev
    <2>3. SendsStored(a)' /\ Returned(a)'
        BY <2>1, ReturnKept DEF SendsStored, Loop
    <2> QED
        BY <2>1, <2>2, <2>3, OthersReturn DEF ReturnInv
<1>2. ASSUME NEW p \in Processes, Crash(p) PROVE ReturnInv'
    <2> SUFFICES ASSUME NEW b \in Attempts PROVE WellEnded(b)' /\ Returned(b)' /\ SendsStored(b)'
        BY DEF ReturnInv
    <2>1. UNCHANGED <<handled, at, passed>>
        BY <1>2 DEF Crash
    <2>2. CASE owner[b] # p
        BY <1>2, <2>1, <2>2, OthersReturn DEF Crash
    <2>3. CASE owner[b] = p
        <3>1. pc'[b] = "over" /\ ended'[b] = IF ended[b] = "no" THEN "crash" ELSE ended[b]
            BY <1>2, <2>3 DEF Crash
        <3>2. WellEnded(b)'
            BY <2>1, <3>1 DEF ReturnInv, WellEnded, Loop, Rows, Ev
        <3>3. SendsStored(b)' /\ Returned(b)'
            BY <2>1, <3>1, ReturnKept DEF SendsStored, Loop
        <3> QED
            BY <3>2, <3>3
    <2> QED
        BY <2>2, <2>3
<1>3. ASSUME NEW p \in Processes, NEW m \in sendQueue[p], SendMessageState(p, m) PROVE ReturnInv'
    BY <1>3, OthersReturn DEF SendMessageState, ReturnInv
<1>4. CASE UNCHANGED vars
    BY <1>4, OthersReturn DEF vars, ReturnInv
<1> QED
    BY <1>1, <1>2, <1>3, <1>4, ReturnReceive, ReturnStore, ReturnSend DEF Next, ConsumeMessage

LEMMA ReturnInvariant == Spec => [](TypeOK /\ VoiceInv /\ ReturnInv)
<1>1. TypeOK /\ VoiceInv /\ ReturnInv /\ [Next]_vars => ReturnInv'
    BY ReturnStep
<1> QED
    BY VoiceInvariant, ReturnInit, <1>1, PTL DEF Spec

\* An attempt that comes to the end of its loop has passed on what is stored for every
\* handler of its event, its own messages or those of the attempt that was first.
THEOREM LastHandlingIsReturned == Spec => []LastHandlingReturned
<1>1. ReturnInv => LastHandlingReturned
    BY DEF ReturnInv, Returned, LastHandlingReturned
<1> QED
    BY ReturnInvariant, <1>1, PTL

-----------------------------------------------------------------------------
(* What is stored is sent *)

Queued == UNION {sendQueue[p] : p \in Processes}

\* A step that stores nothing, ends no sending and takes nothing from the senders.
LEMMA SendingKept ==
    ASSUME StoredIsSent, UNCHANGED <<handled, crashes, redisFailures>>,
           \A a \in Attempts : pc[a] = "send" => pc'[a] = "send" /\ at'[a] = at[a],
           sent \cup Queued \subseteq sent' \cup Queued'
    PROVE  StoredIsSent'
<1>1. \A t \in Tasks : Sending(t) => Sending(t)'
    BY DEF Sending, Task, Ev
<1>2. \A t \in Tasks : ToSend(t)' = ToSend(t)
    BY DEF ToSend
<1> QED
    BY <1>1, <1>2 DEF StoredIsSent, Queued

LEMMA SentStep == TypeOK /\ VoiceInv /\ ReturnInv /\ StoredIsSent /\ [Next]_vars => StoredIsSent'
<1> SUFFICES ASSUME TypeOK, VoiceInv, ReturnInv, StoredIsSent, [Next]_vars PROVE StoredIsSent'
    OBVIOUS
<1> USE DEF broker
<1>1. ASSUME NEW p \in Processes, NEW e \in Events, Receive(p, e) PROVE StoredIsSent'
    <2>0. PICK a \in Attempts : a = <<e, deliveries[e] + 1>>
        BY <1>1, LimitsAssumption DEF TypeOK, Receive, Attempts
    <2>1. \A b \in Attempts : b # a => pc'[b] = pc[b] /\ at'[b] = at[b]
        BY <1>1, <2>0 DEF TypeOK, Receive
    <2>2. ~(a[2] <= deliveries[Ev(a)])
        BY <1>1, <2>0 DEF TypeOK, Ev
    <2>3. pc[a] = "idle"
        BY <2>2 DEF VoiceInv, Delivered
    <2> QED
        BY <1>1, <2>1, <2>3, SendingKept DEF Receive, Queued
<1>2. ASSUME NEW a \in Attempts,
             Handle(a) \/ HandleFails(a) \/ CommitOffset(a) \/ AcknowledgeOffset(a)
      PROVE  StoredIsSent'
    <2>1. /\ UNCHANGED <<handled, at, crashes, redisFailures, sent, sendQueue>>
          /\ pc[a] # "send" /\ \A b \in Attempts : b # a => pc'[b] = pc[b]
        BY <1>2 DEF Handle, HandleFails, CommitOffset, AcknowledgeOffset, TypeOK
    <2> QED
        BY <2>1, SendingKept DEF Queued
<1>3. ASSUME NEW a \in Attempts, HandleEvent(a) PROVE StoredIsSent'
    <2>1. /\ UNCHANGED <<at, crashes, redisFailures, sent, sendQueue>>
          /\ pc[a] = "store" /\ Task(a) \in Tasks /\ Task(a)' = Task(a)
          /\ \A b \in Attempts : b # a => pc'[b] = pc[b] /\ Task(b)' = Task(b)
        BY <1>3, InLoop DEF HandleEvent, Store, TypeOK, Task
    <2>2. CASE handled' = handled
        BY <2>1, <2>2, SendingKept DEF Queued
    <2>3. CASE handled' # handled
        <3>1. pc'[a] = "send" /\ \A t \in Tasks : t # Task(a) => handled'[t] = handled[t]
            BY <1>3, <2>1, <2>3 DEF HandleEvent, Store, TypeOK
        <3>2. Sending(Task(a))'
            BY <2>1, <3>1 DEF Sending
        <3>3. \A t \in Tasks : Sending(t) => Sending(t)'
            BY <2>1 DEF Sending
        <3>4. \A t \in Tasks : t # Task(a) => ToSend(t)' = ToSend(t)
            BY <3>1 DEF ToSend
        <3> HIDE <1>3
        <3> QED
            BY <2>1, <3>1, <3>2, <3>3, <3>4 DEF StoredIsSent
    <2> QED
        BY <2>2, <2>3
<1>4. ASSUME NEW a \in Attempts, HandleEventFails(a) PROVE StoredIsSent'
    <2>1. redisFailures' # 0
        BY <1>4, LimitsAssumption DEF HandleEventFails, TypeOK
    <2> QED
        BY <2>1 DEF StoredIsSent
<1>5. ASSUME NEW a \in Attempts, Send(a) PROVE StoredIsSent'
    <2>1. /\ UNCHANGED <<handled, crashes, redisFailures, sent>>
          /\ pc[a] = "send" /\ Task(a) \in Tasks /\ Task(a)[1] = Ev(a)
          /\ \A b \in Attempts : b # a => pc'[b] = pc[b] /\ at'[b] = at[b]
        BY <1>5, InLoop DEF Send, Advance, TypeOK, Task
    <2>2. MessagesToSend(a) = ToSend(Task(a))
        BY <2>1 DEF ReturnInv, SendsStored, MessagesToSend, ToSend
    <2>3. /\ owner[a] \in Processes
          /\ sendQueue' = [sendQueue EXCEPT ![owner[a]] = sendQueue[owner[a]] \cup MessagesToSend(a)]
        BY <1>5, <2>1 DEF Send, ReturnInv, WellEnded
    <2>4. ToSend(Task(a)) \subseteq Queued' /\ Queued \subseteq Queued'
        BY <2>2, <2>3 DEF Queued, TypeOK
    <2>5. \A t \in Tasks : Sending(t) => t = Task(a) \/ Sending(t)'
        BY <2>1 DEF Sending, Task, Ev
    <2>6. \A t \in Tasks : ToSend(t)' = ToSend(t)
        BY <2>1 DEF ToSend
    <2> QED
        BY <2>1, <2>4, <2>5, <2>6 DEF StoredIsSent, Queued
<1>6. ASSUME NEW p \in Processes, NEW m \in sendQueue[p], SendMessageState(p, m) PROVE StoredIsSent'
    <2>1. /\ sent' = sent \cup {m}
          /\ \A q \in Processes : sendQueue[q] \subseteq sendQueue'[q] \cup {m}
        BY <1>6 DEF SendMessageState, TypeOK
    <2> QED
        BY <1>6, <2>1, SendingKept DEF SendMessageState, Queued
<1>7. ASSUME NEW p \in Processes, Crash(p) PROVE StoredIsSent'
    <2>1. crashes' # 0
        BY <1>7, LimitsAssumption DEF Crash, TypeOK
    <2> QED
        BY <2>1 DEF StoredIsSent
<1>8. CASE UNCHANGED vars
    BY <1>8, SendingKept DEF vars, Queued
<1> QED
    BY <1>1, <1>2, <1>3, <1>4, <1>5, <1>6, <1>7, <1>8 DEF Next, ConsumeMessage

\* As long as no process crashes and Redis answers, what is stored for an event is with
\* the senders or sent, or an attempt is about to pass it on, whichever attempts give way.
THEOREM StoredMessagesAreSent == Spec => []StoredIsSent
<1>1. Init => StoredIsSent
    BY DEF Init, StoredIsSent, NotHandled
<1>2. TypeOK /\ VoiceInv /\ ReturnInv /\ StoredIsSent /\ [Next]_vars => StoredIsSent'
    BY SentStep
<1> QED
    BY ReturnInvariant, <1>1, <1>2, PTL DEF Spec

-----------------------------------------------------------------------------
(* No handler is skipped *)

\* Nothing is stored ahead of the attempt, and it has not given way to another.
Leads(a) ==
    /\ pc[a] # "idle" /\ ended[a] # "exists"
    /\ \A h \in Rows(Ev(a)) : /\ pc[a] \in {"handle", "store"} => h < at[a]
                              /\ pc[a] = "send" => h <= at[a]

\* An attempt that ended by itself and whose offset is committed.
Acknowledged(a) == pc[a] = "over" /\ ended[a] \in {"complete", "exists", "redis"}

RowsInOrder == \A e \in Events : \A g \in Rows(e), h \in 1..HandlerCount[e] : h < g => h \in Rows(e)
SomeoneLeads == \A e \in Events : Rows(e) # {} => \E a \in Attempts : Ev(a) = e /\ Leads(a)
ConsumedByOne == \A e \in consumed : \E a \in Attempts : Ev(a) = e /\ Acknowledged(a)

SkipInv == RowsInOrder /\ SomeoneLeads /\ ConsumedByOne

LEMMA SkipInit == Init => SkipInv
<1> SUFFICES ASSUME Init PROVE SkipInv
    OBVIOUS
<1>1. \A e \in Events : Rows(e) = {}
    BY TurnFacts DEF Init, Rows, Tasks, NotHandled
<1> QED
    BY <1>1 DEF SkipInv, RowsInOrder, SomeoneLeads, ConsumedByOne, Init

\* The attempt whose offset was committed has seen to every handler, or the one that
\* leads is at work, came to its end, failed or crashed.
LEMMA SkipInvImplies == TypeOK /\ ReturnInv /\ SkipInv => NothingSkipped
<1> SUFFICES ASSUME TypeOK, ReturnInv, SkipInv, NEW t \in Tasks, t[1] \in consumed
             PROVE  \/ handled[t].stored \/ AtWork(t[1])
                    \/ Ended(t[1], "redis") \/ (Ended(t[1], "exists") /\ Ended(t[1], "crash"))
    BY DEF NothingSkipped
<1>1. t = <<t[1], t[2]>> /\ t[1] \in Events /\ t[2] \in 1..HandlerCount[t[1]]
    BY TurnFacts
<1>2. \A a \in Attempts : Ev(a) = t[1] /\ ended[a] = "complete" => handled[t].stored
    BY <1>1 DEF ReturnInv, Returned
<1>3. PICK a \in Attempts : Ev(a) = t[1] /\ Acknowledged(a)
    BY DEF SkipInv, ConsumedByOne
<1>4. CASE ended[a] = "redis"
    BY <1>3, <1>4 DEF Ended
<1>5. CASE ended[a] = "exists"
    <2>1. PICK b \in Attempts : Ev(b) = t[1] /\ Leads(b)
        BY <1>1, <1>3, <1>5 DEF ReturnInv, WellEnded, SkipInv, SomeoneLeads
    <2>2. CASE pc[b] # "over"
        BY <2>1, <2>2 DEF Leads, AtWork
    <2>3. CASE pc[b] = "over"
        <3>1. ended[b] \in {"complete", "redis", "crash"}
            BY <2>1, <2>3 DEF ReturnInv, WellEnded, Leads, TypeOK
        <3> QED
            BY <1>2, <1>3, <1>5, <2>1, <3>1 DEF Ended
    <2> QED
        BY <2>2, <2>3
<1> QED
    BY <1>2, <1>3, <1>4, <1>5 DEF Acknowledged

\* A step that stores nothing keeps the invariant if those that lead go on leading, and an
\* event is consumed only by an attempt that ended.
LEMMA SkipKeep ==
    ASSUME SkipInv, UNCHANGED handled,
           \A b \in Attempts : /\ Leads(b) => Leads(b)'
                               /\ Acknowledged(b) => Acknowledged(b)',
           \A e \in consumed' : e \in consumed \/ \E b \in Attempts : Ev(b) = e /\ Acknowledged(b)'
    PROVE  SkipInv'
<1>1. \A e : Rows(e)' = Rows(e)
    BY DEF Rows
<1>2. RowsInOrder'
    BY <1>1 DEF SkipInv, RowsInOrder
<1>3. SomeoneLeads'
    BY <1>1 DEF SkipInv, SomeoneLeads, Ev
<1>4. ConsumedByOne'
    BY DEF SkipInv, ConsumedByOne, Ev
<1> QED
    BY <1>2, <1>3, <1>4 DEF SkipInv

\* ... in particular one that moves a single attempt.
LEMMA SkipMove ==
    ASSUME SkipInv, UNCHANGED handled, NEW a \in Attempts, pc[a] # "over",
           \A b \in Attempts : b # a => pc'[b] = pc[b] /\ at'[b] = at[b] /\ ended'[b] = ended[b],
           Leads(a) => Leads(a)',
           consumed' = consumed \/ (consumed' = consumed \cup {Ev(a)} /\ Acknowledged(a)')
    PROVE  SkipInv'
<1>1. \A e : Rows(e)' = Rows(e)
    BY DEF Rows
<1>2. \A b \in Attempts : b # a => (Leads(b) => Leads(b)') /\ (Acknowledged(b) => Acknowledged(b)')
    BY <1>1 DEF Leads, Acknowledged, Ev
<1>3. ~Acknowledged(a)
    BY DEF Acknowledged
<1> QED
    BY <1>2, <1>3, SkipKeep

\* Messages are stored: the attempt that stores them takes the lead, also if it does not
\* learn of it.
LEMMA SkipSave ==
    ASSUME TypeOK, ReturnInv, SkipInv, NEW a \in Attempts, pc[a] = "store",
           ~handled[Task(a)].stored, handled' = [handled EXCEPT ![Task(a)] = Entry(bus[a])],
           \A b \in Attempts : b # a => pc'[b] = pc[b] /\ ended'[b] = ended[b],
           UNCHANGED <<at, consumed>>,
           \/ pc'[a] = "send" /\ ended'[a] = ended[a]
           \/ pc'[a] = "finish" /\ ended'[a] = "redis"
    PROVE  SkipInv'
<1>1. /\ at[a] \in 1..HandlerCount[Ev(a)] /\ HandlerCount[Ev(a)] \in Nat
      /\ Task(a) \in Tasks /\ Ev(a) \in Events
    BY InLoop, TurnFacts
<1>3. \A e \in Events : \A h \in 1..HandlerCount[e] :
          handled'[<<e, h>>].stored <=> (e = Ev(a) /\ h = at[a]) \/ handled[<<e, h>>].stored
    <2> SUFFICES ASSUME NEW e \in Events, NEW h \in 1..HandlerCount[e]
                 PROVE  handled'[<<e, h>>].stored <=> (e = Ev(a) /\ h = at[a]) \/ handled[<<e, h>>].stored
        OBVIOUS
    <2>1. <<e, h>> \in Tasks
        BY DEF Tasks
    <2> QED
        BY <1>1, <2>1 DEF TypeOK, Task, Entry
<1>4. \A e \in Events : Rows(e)' = IF e = Ev(a) THEN Rows(e) \cup {at[a]} ELSE Rows(e)
    BY <1>1, <1>3 DEF Rows
<1>5. /\ \A h \in 1..HandlerCount[Ev(a)] : h < at[a] => h \in Rows(Ev(a))
      /\ at[a] \notin Rows(Ev(a)) /\ ended[a] = "no"
    BY DEF ReturnInv, Returned, WellEnded, Loop, Rows, Task
<1>6. \A h \in Rows(Ev(a)) : h < at[a]
    BY <1>1, <1>5 DEF SkipInv, RowsInOrder, Rows
<1>11. RowsInOrder'
    <2> SUFFICES ASSUME NEW e \in Events, NEW g \in Rows(e)', NEW h \in 1..HandlerCount[e], h < g
                 PROVE  h \in Rows(e)'
        BY DEF RowsInOrder
    <2>1. CASE g \in Rows(e)
        BY <1>4, <2>1 DEF SkipInv, RowsInOrder
    <2>2. CASE e = Ev(a) /\ g = at[a]
        BY <1>4, <1>5, <2>2
    <2> QED
        BY <1>4, <2>1, <2>2
<1>12. SomeoneLeads'
    <2> SUFFICES ASSUME NEW e \in Events, Rows(e)' # {}
                 PROVE  \E b \in Attempts : Ev(b) = e /\ Leads(b)'
        BY DEF SomeoneLeads, Ev
    <2>1. CASE e = Ev(a)
        <3>1. \A h \in Rows(Ev(a))' : h <= at[a]
            BY <1>1, <1>4, <1>6 DEF Rows
        <3>2. Leads(a)'
            BY <1>5, <3>1 DEF Leads, Ev
        <3> QED
            BY <2>1, <3>2
    <2>2. CASE e # Ev(a)
        <3>1. PICK b \in Attempts : Ev(b) = e /\ Leads(b)
            BY <1>4, <2>2 DEF SkipInv, SomeoneLeads
        <3>2. Leads(b)'
            BY <1>4, <2>2, <3>1 DEF Leads, Ev
        <3> QED
            BY <3>1, <3>2
    <2> QED
        BY <2>1, <2>2
<1>13. ConsumedByOne'
    <2>1. \A b \in Attempts : Acknowledged(b) => Acknowledged(b)'
        BY DEF Acknowledged
    <2> QED
        BY <2>1 DEF SkipInv, ConsumedByOne, Ev
<1> QED
    BY <1>11, <1>12, <1>13 DEF SkipInv

LEMMA SkipStep == TypeOK /\ VoiceInv /\ ReturnInv /\ SkipInv /\ [Next]_vars => SkipInv'
<1> SUFFICES ASSUME TypeOK, VoiceInv, ReturnInv, SkipInv, [Next]_vars PROVE SkipInv'
    OBVIOUS
<1> USE DEF broker
<1>1. ASSUME NEW p \in Processes, NEW e \in Events, Receive(p, e) PROVE SkipInv'
    <2>0. PICK a \in Attempts : a = <<e, deliveries[e] + 1>>
        BY <1>1, LimitsAssumption DEF TypeOK, Receive, Attempts
    <2>1. \A b \in Attempts : b # a => pc'[b] = pc[b] /\ at'[b] = at[b] /\ ended'[b] = ended[b]
        BY <1>1, <2>0 DEF TypeOK, Receive
    <2>2. ~(a[2] <= deliveries[Ev(a)])
        BY <1>1, <2>0 DEF TypeOK, Ev
    <2>3. pc[a] = "idle"
        BY <2>2 DEF VoiceInv, Delivered
    <2>4. ~Leads(a)
        BY <2>3 DEF Leads
    <2> QED
        BY <1>1, <2>1, <2>3, <2>4, SkipMove DEF Receive
<1>2. ASSUME NEW a \in Attempts,
             Handle(a) \/ HandleFails(a) \/ CommitOffset(a) \/ AcknowledgeOffset(a)
      PROVE  SkipInv'
    <2>1. /\ UNCHANGED <<handled, at, ended>>
          /\ \A b \in Attempts : b # a => pc'[b] = pc[b]
          /\ \/ pc[a] = "handle" /\ pc'[a] = "store" /\ consumed' = consumed
             \/ pc[a] = "finish" /\ pc'[a] = "done" /\ consumed' = consumed
             \/ pc[a] = "done" /\ pc'[a] = "over" /\ consumed' = consumed \cup {Ev(a)}
        BY <1>2 DEF Handle, HandleFails, CommitOffset, AcknowledgeOffset, TypeOK
    <2>2. Leads(a) => Leads(a)'
        BY <2>1 DEF Leads, Rows, Ev
    <2>3. pc[a] = "done" => Acknowledged(a)'
        BY <2>1 DEF ReturnInv, WellEnded, Acknowledged
    <2> QED
        BY <2>1, <2>2, <2>3, SkipMove
<1>3. ASSUME NEW a \in Attempts, HandleEvent(a) \/ HandleEventFails(a) PROVE SkipInv'
    <2>1. /\ pc[a] = "store" /\ Task(a) \in Tasks /\ UNCHANGED <<at, consumed>>
          /\ \A b \in Attempts : b # a => pc'[b] = pc[b] /\ ended'[b] = ended[b]
          /\ \/ pc'[a] = "send" /\ ended'[a] = ended[a]
             \/ pc'[a] = "finish" /\ ended'[a] = "redis"
             \/ pc'[a] = "finish" /\ ended'[a] = "exists" /\ handled[Task(a)].stored /\ UNCHANGED handled
        BY <1>3, InLoop DEF HandleEvent, HandleEventFails, Store, TypeOK
    <2>2. \/ /\ ~handled[Task(a)].stored
             /\ handled' = [handled EXCEPT ![Task(a)] = Entry(bus[a])]
             /\ (pc'[a] = "send" /\ ended'[a] = ended[a]) \/ (pc'[a] = "finish" /\ ended'[a] = "redis")
          \/ UNCHANGED handled /\ handled[Task(a)].stored
          \/ UNCHANGED handled /\ pc'[a] = "finish" /\ ended'[a] = "redis"
        BY <1>3 DEF HandleEvent, HandleEventFails, Store, TypeOK
    <2>3. CASE ~handled[Task(a)].stored /\ handled' = [handled EXCEPT ![Task(a)] = Entry(bus[a])]
        BY <2>1, <2>2, <2>3, SkipSave
    <2>4. CASE UNCHANGED handled /\ handled[Task(a)].stored
        <3>1. at[a] \in Rows(Ev(a)) /\ at[a] \in Nat
            BY <2>1, <2>4, InLoop DEF Rows, Task, TypeOK
        <3>2. ~Leads(a)
            BY <2>1, <3>1 DEF Leads
        <3> QED
            BY <2>1, <2>4, <3>2, SkipMove
    <2>5. CASE UNCHANGED handled /\ pc'[a] = "finish" /\ ended'[a] = "redis"
        <3>1. Leads(a)'
            BY <2>5 DEF Leads
        <3> QED
            BY <2>1, <2>5, <3>1, SkipMove
    <2> QED
        BY <2>2, <2>3, <2>4, <2>5
<1>4. ASSUME NEW a \in Attempts, Send(a) PROVE SkipInv'
    <2>1. /\ pc[a] = "send" /\ UNCHANGED <<handled, consumed>>
          /\ at[a] \in 1..HandlerCount[Ev(a)] /\ HandlerCount[Ev(a)] \in Nat
        BY <1>4, InLoop, TurnFacts DEF Send
    <2>2. /\ \A b \in Attempts : b # a => pc'[b] = pc[b] /\ at'[b] = at[b] /\ ended'[b] = ended[b]
          /\ \/ pc'[a] = "handle" /\ at'[a] = at[a] + 1 /\ ended'[a] = ended[a]
             \/ pc'[a] = "finish" /\ ended'[a] = "complete"
        BY <1>4, <2>1 DEF Send, Advance, TypeOK
    <2>3. Leads(a) => Leads(a)'
        <3> SUFFICES ASSUME Leads(a), NEW h \in Rows(Ev(a)), pc'[a] = "handle" PROVE h < at'[a]
            BY <2>1, <2>2 DEF Leads, Rows, Ev
        <3>1. h \in Nat /\ h <= at[a]
            BY <2>1 DEF Leads, Rows
        <3> QED
            BY <2>1, <2>2, <3>1
    <2> QED
        BY <2>1, <2>2, <2>3, SkipMove
<1>5. ASSUME NEW p \in Processes, NEW m \in sendQueue[p], SendMessageState(p, m) PROVE SkipInv'
    <2>1. \A b \in Attempts : (Leads(b) => Leads(b)') /\ (Acknowledged(b) => Acknowledged(b)')
        BY <1>5 DEF SendMessageState, Leads, Acknowledged, Rows
    <2> QED
        BY <1>5, <2>1, SkipKeep DEF SendMessageState
<1>6. ASSUME NEW p \in Processes, Crash(p) PROVE SkipInv'
    <2>1. UNCHANGED <<handled, at, consumed>>
        BY <1>6 DEF Crash
    <2>2. ASSUME NEW b \in Attempts
          PROVE  \/ pc'[b] = pc[b] /\ ended'[b] = ended[b]
                 \/ /\ pc'[b] = "over" /\ pc[b] # "idle"
                    /\ ended'[b] = IF ended[b] = "no" THEN "crash" ELSE ended[b]
        BY <1>6, OwnerAssumption DEF Crash, VoiceInv, Delivered
    <2>3. \A b \in Attempts : (Leads(b) => Leads(b)') /\ (Acknowledged(b) => Acknowledged(b)')
        BY <2>1, <2>2 DEF Leads, Acknowledged, Rows, Ev
    <2> QED
        BY <2>1, <2>3, SkipKeep
<1>7. CASE UNCHANGED vars
    <2>1. \A b \in Attempts : (Leads(b) => Leads(b)') /\ (Acknowledged(b) => Acknowledged(b)')
        BY <1>7 DEF vars, Leads, Acknowledged, Rows
    <2> QED
        BY <1>7, <2>1, SkipKeep DEF vars
<1> QED
    BY <1>1, <1>2, <1>3, <1>4, <1>5, <1>6, <1>7 DEF Next, ConsumeMessage

\* Every handler of an event whose offset is committed has its messages stored, or an
\* attempt is still at work, but for the two excuses: Redis failed, or an attempt gave way
\* to what another one had stored and one crashed.
THEOREM NoHandlerIsSkipped == Spec => []NothingSkipped
<1>1. TypeOK /\ VoiceInv /\ ReturnInv /\ SkipInv /\ [Next]_vars => SkipInv'
    BY SkipStep
<1>2. TypeOK /\ ReturnInv /\ SkipInv => NothingSkipped
    BY SkipInvImplies
<1> QED
    BY ReturnInvariant, SkipInit, <1>1, <1>2, PTL DEF Spec
=============================================================================
