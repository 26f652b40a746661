---------------------- MODULE EventSourcingSubscriber ----------------------
(***************************************************************************)
(* How an event is consumed when the event store keeps the outcome:        *)
(*                                                                         *)
(*   IFramework.Infrastructure.EventSourcing/EventSourcingEventSubscriber.cs *)
(*   IFramework.EventStore.Redis/EventStore.cs   HandleEvent               *)
(*                                                                         *)
(* Unlike EventSubscriber, the handlers run on every delivery.  What makes *)
(* an event count once is HandleEvent: the messages of the first attempt   *)
(* that gets there are stored (HSETNX) under the handler and the event,    *)
(* and any later attempt is given the stored ones in the place of its own. *)
(* To return them it has to read the stored saga result, which fails when  *)
(* there is none.                                                          *)
(*                                                                         *)
(* Attempts, turns and messages are those of EventSubscriber; a message is *)
(* identified by the turn that raised it, also when another one sends it.  *)
(***************************************************************************)
EXTENDS Naturals, FiniteSets

CONSTANTS Events,
          HandlerCount,     \* how many handlers each event has
          InSaga,           \* events with saga information
          Raised,           \* what a handler raises: "command", "event" or both
          Processes,
          MaxDeliveries,    \* bound: deliveries of each event
          MaxCrashes,       \* bound: crashes of processes
          MaxRedisFailures  \* bound: failing calls of Redis

ASSUME EventsAssumption == HandlerCount \in [Events -> Nat] /\ InSaga \subseteq Events
ASSUME RaisedAssumption == Raised \subseteq {"command", "event"}
ASSUME LimitsAssumption ==
    MaxDeliveries \in Nat /\ MaxCrashes \in Nat /\ MaxRedisFailures \in Nat

VARIABLES
    handled,      \* Redis: the messages stored for a handler and an event
    deliveries, consumed,
    sent,         \* messages that have been sent
    pc, owner,
    at,           \* the handler whose turn it is
    bus,          \* what the event bus of the turn holds
    outcome,      \* history: whether the turn's Handle returned
    passed,       \* history: messages the attempt has passed to the senders
    ended,        \* history: how the attempt came to its end
    sendQueue,    \* each process: the queues of the command bus and the publisher
    crashes, redisFailures

broker == <<deliveries, consumed, sent>>
vars == <<handled, broker, pc, owner, at, bus, outcome, passed, ended, sendQueue, crashes, redisFailures>>

Tasks == UNION {{<<e, h>> : h \in 1..HandlerCount[e]} : e \in Events}
Attempts == Events \X (1..MaxDeliveries)
Ev(a) == a[1]
Turns == UNION {{<<a, h>> : h \in 1..HandlerCount[Ev(a)]} : a \in Attempts}
Turn(a) == <<a, at[a]>>
Task(a) == <<Ev(a), at[a]>>
TaskOf(turn) == <<Ev(turn[1]), turn[2]>>
NoOwner == "no owner"
Entry(messages) == [stored |-> TRUE, messages |-> messages]
NotHandled == [stored |-> FALSE, messages |-> {}]

ASSUME OwnerAssumption == NoOwner \notin Processes

\* "sagaReply" stands for the saga result, whether or not there is a saga to reply
\* to: it is stored in either case.
Kinds == {"command", "event", "exceptionEvent", "sagaReply"}
Messages == [kind : Kinds, turn : Turns]
Msg(kind, a) == [kind |-> kind, turn |-> Turn(a)]
HasKind(kind, S) == \E m \in S : m.kind = kind

TypeOK ==
    /\ handled \in [Tasks -> [stored : BOOLEAN, messages : SUBSET Messages]]
    /\ deliveries \in [Events -> 0..MaxDeliveries]
    /\ consumed \subseteq Events
    /\ sent \subseteq Messages
    /\ pc \in [Attempts -> {"idle", "handle", "store", "send", "finish", "done", "over"}]
    /\ owner \in [Attempts -> Processes \cup {NoOwner}]
    /\ at \in [Attempts -> Nat]
    /\ \A a \in Attempts : pc[a] \in {"handle", "store", "send"} => Task(a) \in Tasks
    /\ bus \in [Attempts -> SUBSET Messages]
    /\ outcome \in [Turns -> {"none", "success", "failure"}]
    /\ passed \in [Attempts -> SUBSET Messages]
    /\ ended \in [Attempts -> {"no", "complete", "exists", "redis", "crash"}]
    /\ sendQueue \in [Processes -> SUBSET Messages]
    /\ crashes \in 0..MaxCrashes /\ redisFailures \in 0..MaxRedisFailures

Init ==
    /\ handled = [t \in Tasks |-> NotHandled]
    /\ deliveries = [e \in Events |-> 0] /\ consumed = {} /\ sent = {}
    /\ pc = [a \in Attempts |-> "idle"]
    /\ owner = [a \in Attempts |-> NoOwner]
    /\ at = [a \in Attempts |-> 1]
    /\ bus = [a \in Attempts |-> {}]
    /\ outcome = [t \in Turns |-> "none"]
    /\ passed = [a \in Attempts |-> {}]
    /\ ended = [a \in Attempts |-> "no"]
    /\ sendQueue = [p \in Processes |-> {}]
    /\ crashes = 0 /\ redisFailures = 0

-----------------------------------------------------------------------------
(* The handler *)

\* The head of ConsumeMessage.  The tag filter of the base class is in EventSubscriber.
Receive(p, e) ==
    /\ e \notin consumed
    /\ deliveries[e] < MaxDeliveries
    /\ deliveries' = [deliveries EXCEPT ![e] = @ + 1]
    /\ LET a == <<e, deliveries[e] + 1>>
           unheard == HandlerCount[e] = 0
       IN /\ pc' = [pc EXCEPT ![a] = IF unheard THEN "finish" ELSE "handle"]
          /\ ended' = IF unheard THEN [ended EXCEPT ![a] = "complete"] ELSE ended
          /\ owner' = [owner EXCEPT ![a] = p]
          /\ at' = [at EXCEPT ![a] = 1]
    /\ UNCHANGED <<handled, consumed, sent, bus, outcome, passed, sendQueue, crashes, redisFailures>>

\* Handle returns.  It has sent commands and published events, and may have finished
\* the saga.
Handle(a) ==
    /\ pc[a] = "handle"
    /\ \E finishSaga \in SUBSET {"sagaReply"} :
          bus' = [bus EXCEPT ![a] = {Msg(kind, a) : kind \in Raised \cup finishSaga}]
    /\ outcome' = [outcome EXCEPT ![Turn(a)] = "success"]
    /\ pc' = [pc EXCEPT ![a] = "store"]
    /\ UNCHANGED <<handled, broker, owner, at, passed, ended, sendQueue, crashes, redisFailures>>

\* Mutants: the bus is not cleared; the exception leaves the loop.
HandleFailsUncleared(a) ==
    /\ pc[a] = "handle"
    /\ bus' = [bus EXCEPT ![a] = {Msg(kind, a) : kind \in Raised}]
    /\ outcome' = [outcome EXCEPT ![Turn(a)] = "failure"]
    /\ pc' = [pc EXCEPT ![a] = "store"]
    /\ UNCHANGED <<handled, broker, owner, at, passed, ended, sendQueue, crashes, redisFailures>>
HandleThrows(a) ==
    /\ pc[a] = "handle"
    /\ outcome' = [outcome EXCEPT ![Turn(a)] = "failure"]
    /\ pc' = [pc EXCEPT ![a] = "finish"]
    /\ ended' = [ended EXCEPT ![a] = "complete"]
    /\ UNCHANGED <<handled, broker, owner, at, bus, passed, sendQueue, crashes, redisFailures>>

\* Handle throws: the bus is cleared; a domain exception may carry an event, any other
\* one interrupts the saga.
HandleFails(a) ==
    /\ pc[a] = "handle"
    /\ \/ bus' = [bus EXCEPT ![a] = {}]                             \* DomainException
       \/ bus' = [bus EXCEPT ![a] = {Msg("exceptionEvent", a)}]     \* ... with an event
       \/ Ev(a) \in InSaga /\ bus' = [bus EXCEPT ![a] = {Msg("sagaReply", a)}]
    /\ outcome' = [outcome EXCEPT ![Turn(a)] = "failure"]
    /\ pc' = [pc EXCEPT ![a] = "store"]
    /\ UNCHANGED <<handled, broker, owner, at, passed, ended, sendQueue, crashes, redisFailures>>

-----------------------------------------------------------------------------
(* The event store *)

\* Mutant: the later attempt's messages are stored over the earlier ones.
StoreOver(a) ==
    /\ handled' = [handled EXCEPT ![Task(a)] = Entry(bus[a])]
    /\ pc' = [pc EXCEPT ![a] = "send"]
    /\ UNCHANGED <<bus, ended>>

\* HSETNX.  A stored entry is returned, if it has a saga result: without one the type
\* of the result has no code, and looking it up throws.
Store(a) ==
    \/ /\ ~handled[Task(a)].stored
       /\ handled' = [handled EXCEPT ![Task(a)] = Entry(bus[a])]
       /\ pc' = [pc EXCEPT ![a] = "send"]
       /\ UNCHANGED <<bus, ended>>
    \/ /\ handled[Task(a)].stored
       /\ HasKind("sagaReply", handled[Task(a)].messages)
       /\ bus' = [bus EXCEPT ![a] = handled[Task(a)].messages]
       /\ pc' = [pc EXCEPT ![a] = "send"]
       /\ UNCHANGED <<handled, ended>>
    \/ /\ handled[Task(a)].stored
       /\ ~HasKind("sagaReply", handled[Task(a)].messages)
       /\ pc' = [pc EXCEPT ![a] = "finish"]
       /\ ended' = [ended EXCEPT ![a] = "exists"]
       /\ UNCHANGED <<handled, bus>>

HandleEvent(a) ==
    /\ pc[a] = "store"
    /\ Store(a)
    /\ UNCHANGED <<broker, owner, at, outcome, passed, sendQueue, crashes, redisFailures>>

\* The call fails, before or after the script has run: the exception leaves the loop.
HandleEventFails(a) ==
    /\ pc[a] = "store"
    /\ redisFailures < MaxRedisFailures
    /\ redisFailures' = redisFailures + 1
    /\ \/ UNCHANGED handled
       \/ /\ ~handled[Task(a)].stored
          /\ handled' = [handled EXCEPT ![Task(a)] = Entry(bus[a])]
    /\ pc' = [pc EXCEPT ![a] = "finish"]
    /\ ended' = [ended EXCEPT ![a] = "redis"]
    /\ UNCHANGED <<broker, owner, at, bus, outcome, passed, sendQueue, crashes>>

-----------------------------------------------------------------------------
(* Sending, and the end of the attempt *)

\* The loop goes on to the next handler, or is over.
Advance(a) ==
    IF at[a] < HandlerCount[Ev(a)]
    THEN /\ at' = [at EXCEPT ![a] = @ + 1]
         /\ pc' = [pc EXCEPT ![a] = "handle"]
         /\ UNCHANGED ended
    ELSE /\ pc' = [pc EXCEPT ![a] = "finish"]
         /\ ended' = [ended EXCEPT ![a] = "complete"]
         /\ UNCHANGED at

\* A saga result is sent if the event belongs to a saga.
MessagesToSend(a) == {m \in bus[a] : m.kind = "sagaReply" => Ev(a) \in InSaga}

\* Mutant: the attempt sends its messages only if the handler succeeded.
SendAfterSuccess(a) ==
    /\ pc[a] = "send"
    /\ sendQueue' = [sendQueue EXCEPT ![owner[a]] =
          IF outcome[Turn(a)] = "success" THEN @ \cup MessagesToSend(a) ELSE @]
    /\ passed' = [passed EXCEPT ![a] = @ \cup MessagesToSend(a)]
    /\ bus' = [bus EXCEPT ![a] = {}]
    /\ Advance(a)
    /\ UNCHANGED <<handled, broker, owner, outcome, crashes, redisFailures>>

\* The returned messages are queued and the loop goes on to the next handler.
Send(a) ==
    /\ pc[a] = "send"
    /\ sendQueue' = [sendQueue EXCEPT ![owner[a]] = @ \cup MessagesToSend(a)]
    /\ passed' = [passed EXCEPT ![a] = @ \cup MessagesToSend(a)]
    /\ bus' = [bus EXCEPT ![a] = {}]
    /\ Advance(a)
    /\ UNCHANGED <<handled, broker, owner, outcome, crashes, redisFailures>>

\* The finally block, whatever happened before.
CommitOffset(a) ==
    /\ pc[a] = "finish"
    /\ pc' = [pc EXCEPT ![a] = "done"]
    /\ UNCHANGED <<handled, broker, owner, at, bus, outcome, passed, ended, sendQueue, crashes, redisFailures>>

\* The sliding door commits the offset at the broker.
AcknowledgeOffset(a) ==
    /\ pc[a] = "done"
    /\ consumed' = consumed \cup {Ev(a)}
    /\ pc' = [pc EXCEPT ![a] = "over"]
    /\ owner' = [owner EXCEPT ![a] = NoOwner]
    /\ UNCHANGED <<handled, deliveries, sent, at, bus, outcome, passed, ended, sendQueue, crashes, redisFailures>>

SendMessageState(p, m) ==
    /\ m \in sendQueue[p]
    /\ sendQueue' = [sendQueue EXCEPT ![p] = @ \ {m}]
    /\ sent' = sent \cup {m}
    /\ UNCHANGED <<handled, deliveries, consumed, pc, owner, at, bus, outcome, passed, ended, crashes, redisFailures>>

\* A process crashes and is started again.
Crash(p) ==
    LET Own(a) == owner[a] = p
    IN /\ crashes < MaxCrashes
       /\ crashes' = crashes + 1
       /\ sendQueue' = [sendQueue EXCEPT ![p] = {}]
       /\ pc' = [a \in Attempts |-> IF Own(a) THEN "over" ELSE pc[a]]
       /\ owner' = [a \in Attempts |-> IF Own(a) THEN NoOwner ELSE owner[a]]
       /\ bus' = [a \in Attempts |-> IF Own(a) THEN {} ELSE bus[a]]
       /\ ended' = [a \in Attempts |-> IF Own(a) /\ ended[a] = "no" THEN "crash" ELSE ended[a]]
       /\ UNCHANGED <<handled, broker, at, outcome, passed, redisFailures>>

-----------------------------------------------------------------------------

ConsumeMessage(a) ==
    \/ Handle(a) \/ HandleFails(a)
    \/ HandleEvent(a) \/ HandleEventFails(a)
    \/ Send(a) \/ CommitOffset(a) \/ AcknowledgeOffset(a)

Next ==
    \/ \E p \in Processes : \/ Crash(p)
                            \/ \E e \in Events : Receive(p, e)
                            \/ \E m \in sendQueue[p] : SendMessageState(p, m)
    \/ \E a \in Attempts : ConsumeMessage(a)

Spec == Init /\ [][Next]_vars

-----------------------------------------------------------------------------
(* Properties *)

\* Whatever attempts run the handler of an event, and however differently they end,
\* the world sees the messages of one of them: the one whose messages were stored.
OneVoice ==
    \A m, n \in sent : TaskOf(m.turn) = TaskOf(n.turn) => m.turn = n.turn

\* No command or event of a turn whose Handle threw is sent, and no exception event
\* of one that returned: neither its own attempt nor a later one passes them on.
NoPhantomMessage ==
    \A m \in sent :
        /\ m.kind \in {"command", "event"} => outcome[m.turn] = "success"
        /\ m.kind = "exceptionEvent" => outcome[m.turn] = "failure"

\* The handlers of an event that will not be delivered again have their messages
\* stored, unless a call of Redis failed, or an attempt ended at a handler that
\* another one had done and that one crashed before it came to the rest.
AtWork(e) == \E a \in Attempts : Ev(a) = e /\ pc[a] \notin {"idle", "over"}
Ended(e, how) == \E a \in Attempts : Ev(a) = e /\ ended[a] = how
NothingSkipped ==
    \A t \in Tasks :
        t[1] \in consumed =>
            \/ handled[t].stored \/ AtWork(t[1])
            \/ Ended(t[1], "redis") \/ (Ended(t[1], "exists") /\ Ended(t[1], "crash"))

\* As long as nothing crashes or fails, what is stored for an event gets to the
\* senders and stays with them until it is sent.
ToSend(t) == {m \in handled[t].messages : m.kind = "sagaReply" => t[1] \in InSaga}
Sending(t) == \E a \in Attempts : pc[a] = "send" /\ Task(a) = t
StoredIsSent ==
    crashes = 0 /\ redisFailures = 0 =>
        \A t \in Tasks :
            ~handled[t].stored \/ Sending(t)
            \/ ToSend(t) \subseteq sent \cup UNION {sendQueue[p] : p \in Processes}

\* "If event has been handled before, return the last handling commands": an attempt
\* whose loop has come to its end has passed on what is stored for each handler,
\* whoever stored it.  (A turn that finds messages stored without a saga result cannot
\* read them, and one whose call of Redis fails does not get them: both break the loop
\* off.)
LastHandlingReturned ==
    \A a \in Attempts :
        ended[a] = "complete" =>
            \A h \in 1..HandlerCount[Ev(a)] :
                LET t == <<Ev(a), h>>
                IN handled[t].stored /\ ToSend(t) \subseteq passed[a]
=============================================================================
