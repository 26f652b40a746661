-------------------------- MODULE EventSubscriber --------------------------
(***************************************************************************)
(* How an event is consumed by every handler that subscribes to it, and    *)
(* how the commands and events the handlers raise leave the process:       *)
(*                                                                         *)
(*   iFramework/Event/Impl/EventSubscriber.cs                              *)
(*   IFramework.MessageStores/MessageStore.cs   HandledEvents, UnSentCommands *)
(*   iFramework/Command/Impl/CommandBus.cs      as sender of the commands  *)
(*   iFramework/Message/Impl/MessageSender.cs, MessagePublisher.cs         *)
(*   IFramework.MessageStores.Abstracts/MessageStoreDaemon.cs              *)
(*                                                                         *)
(* The handlers of an event run one after the other, each in a transaction *)
(* of its own that also records the handler in HandledEvents and stores    *)
(* the messages it raised.  The event's offset is committed when the loop  *)
(* has ended, also by an exception.                                        *)
(*                                                                         *)
(* As in CommandPipeline, each delivery of an event is an attempt of its   *)
(* own and messages are identified by the attempt, and here the handler,   *)
(* that made them.  The turn of a handler in an attempt is the pair of     *)
(* both.  Commands go through the queue of the command bus, events through *)
(* that of the publisher; the kind of a message says which.                *)
(***************************************************************************)
EXTENDS Naturals, FiniteSets

CONSTANTS Events,           \* messages on the subscribed topics
          HandlerCount,     \* how many handlers each event has
          Filtered,         \* events the tag filter of their topic refuses
          InSaga,           \* events with saga information
          Raised,           \* what a handler raises: some of RaisedKinds
          Processes,        \* subscriber processes sharing the store
          EnsureIdempotent, \* MessageQueueOptions
          EnsureArrival,
          MaxDeliveries,    \* bound: deliveries of each event
          MaxCrashes,       \* bound: crashes of processes
          MaxDbFailures     \* bound: failures of the database

RaisedKinds == {"command", "event", "anywayEvent"}

ASSUME EventsAssumption ==
    HandlerCount \in [Events -> Nat] /\ Filtered \subseteq Events /\ InSaga \subseteq Events
ASSUME RaisedAssumption == Raised \subseteq RaisedKinds
ASSUME OptionsAssumption == EnsureIdempotent \in BOOLEAN /\ EnsureArrival \in BOOLEAN
ASSUME LimitsAssumption ==
    MaxDeliveries \in Nat /\ MaxCrashes \in Nat /\ MaxDbFailures \in Nat

VARIABLES
    \* the database
    record,       \* HandledEvents: the status of each handler of an event
    effects,      \* turns whose changes are committed
    unSent,       \* UnSentCommands and UnPublishedEvents
    \* the brokers
    deliveries,   \* deliveries of each event so far
    consumed,     \* events whose offset is committed
    published,    \* messages that have been sent
    \* each attempt
    pc, owner,
    at,           \* the handler whose turn it is
    exception, toSend,
    ended,        \* history: how the attempt came to its end
    \* each process
    alive,
    sendQueue,    \* MessageStateQueue of the command bus and of the publisher
    toRemove,     \* _toRemoveMessages of the daemon
    crashes, dbFailures

database == <<record, effects, unSent>>
attempts == <<pc, owner, at, exception, toSend, ended>>
memory == <<alive, sendQueue, toRemove>>
vars == <<database, deliveries, consumed, published, attempts, memory, crashes, dbFailures>>

Tasks == UNION {{<<e, h>> : h \in 1..HandlerCount[e]} : e \in Events}
Attempts == Events \X (1..MaxDeliveries)
Ev(a) == a[1]
NoOwner == "no owner"

ASSUME OwnerAssumption == NoOwner \notin Processes

\* A saga reply is whatever object the handler ended the saga with.
Kinds == RaisedKinds \cup {"exceptionEvent", "sagaReply", "failSagaReply"}
Exceptions == {"domain", "domainEvent", "unknown"}  \* a DomainException may carry an event
Turns == UNION {{<<a, h>> : h \in 1..HandlerCount[Ev(a)]} : a \in Attempts}
Messages == [kind : Kinds, turn : Turns]
Msg(kind, a) == [kind |-> kind, turn |-> <<a, at[a]>>]
Task(a) == <<Ev(a), at[a]>>

TypeOK ==
    /\ record \in [Tasks -> {"none", "handled", "failed"}]
    /\ effects \subseteq Turns
    /\ unSent \subseteq Messages
    /\ deliveries \in [Events -> 0..MaxDeliveries]
    /\ consumed \subseteq Events
    /\ published \subseteq Messages
    /\ pc \in [Attempts -> {"idle", "check", "handle", "fail", "send", "finish", "done", "over"}]
    /\ owner \in [Attempts -> Processes \cup {NoOwner}]
    /\ at \in [Attempts -> Nat]
    /\ \A a \in Attempts : pc[a] \in {"check", "handle", "fail", "send"} => Task(a) \in Tasks
    /\ exception \in [Attempts -> {"none"} \cup Exceptions]
    /\ toSend \in [Attempts -> SUBSET Messages]
    /\ ended \in [Attempts -> {"no", "complete", "exists", "database", "crash"}]
    /\ alive \in [Processes -> BOOLEAN]
    /\ sendQueue \in [Processes -> SUBSET Messages]
    /\ toRemove \in [Processes -> SUBSET Messages]
    /\ crashes \in 0..MaxCrashes /\ dbFailures \in 0..MaxDbFailures

Init ==
    /\ record = [t \in Tasks |-> "none"]
    /\ effects = {}
    /\ unSent = {}
    /\ deliveries = [e \in Events |-> 0]
    /\ consumed = {}
    /\ published = {}
    /\ pc = [a \in Attempts |-> "idle"]
    /\ owner = [a \in Attempts |-> NoOwner]
    /\ at = [a \in Attempts |-> 1]
    /\ exception = [a \in Attempts |-> "none"]
    /\ toSend = [a \in Attempts |-> {}]
    /\ ended = [a \in Attempts |-> "no"]
    /\ alive = [p \in Processes |-> FALSE]
    /\ sendQueue = [p \in Processes |-> {}]
    /\ toRemove = [p \in Processes |-> {}]
    /\ crashes = 0 /\ dbFailures = 0

-----------------------------------------------------------------------------
(* The messages of a turn *)

If(condition, S) == IF condition THEN S ELSE {}

GetSagaReplyMessageStates(a, kind, sagaResult) == If(Ev(a) \in InSaga /\ sagaResult, {Msg(kind, a)})

\* After a successful Handle.  The handler may have ended the saga.
MessagesOfSuccess(a, sagaResult) ==
    {Msg(kind, a) : kind \in Raised} \cup GetSagaReplyMessageStates(a, "sagaReply", sagaResult)

\* Mutant: the handler's events are not cleared.
FailureUncleared(a, sagaResult) == MessagesOfSuccess(a, sagaResult)

\* After an exception: what the handler raised is dropped, but for the events to be
\* published anyway; an unknown exception interrupts the saga.
MessagesOfFailure(a, sagaResult) ==
    {Msg(kind, a) : kind \in Raised \cap {"anywayEvent"}}
    \cup If(exception[a] = "domainEvent", {Msg("exceptionEvent", a)})
    \cup GetSagaReplyMessageStates(a, "failSagaReply", sagaResult \/ exception[a] = "unknown")

-----------------------------------------------------------------------------
(* Consuming an event *)

DatabaseFails ==
    /\ dbFailures < MaxDbFailures
    /\ dbFailures' = dbFailures + 1

\* The broker delivers an event whose offset is not committed.  One the filter
\* refuses, or nobody handles, is only acknowledged.
Receive(p, e) ==
    /\ alive[p]
    /\ e \notin consumed
    /\ deliveries[e] < MaxDeliveries
    /\ deliveries' = [deliveries EXCEPT ![e] = @ + 1]
    /\ LET a == <<e, deliveries[e] + 1>>
           unheard == e \in Filtered \/ HandlerCount[e] = 0
       IN /\ pc' = [pc EXCEPT ![a] = IF unheard THEN "finish" ELSE "check"]
          /\ ended' = IF unheard THEN [ended EXCEPT ![a] = "complete"] ELSE ended
          /\ owner' = [owner EXCEPT ![a] = p]
          /\ at' = [at EXCEPT ![a] = 1]
    /\ UNCHANGED <<database, consumed, published, exception, toSend, memory, crashes, dbFailures>>

\* The loop goes on to the next handler, or is over.
Advance(a) ==
    IF at[a] < HandlerCount[Ev(a)]
    THEN /\ at' = [at EXCEPT ![a] = @ + 1]
         /\ pc' = [pc EXCEPT ![a] = "check"]
         /\ UNCHANGED ended
    ELSE /\ pc' = [pc EXCEPT ![a] = "finish"]
         /\ ended' = [ended EXCEPT ![a] = "complete"]
         /\ UNCHANGED at

IsHandled(t) == EnsureIdempotent /\ record[t] # "none"

\* A query that fails is caught like an exception of the handler.
HasEventHandled(a) ==
    /\ pc[a] = "check"
    /\ \/ /\ IsHandled(Task(a))
          /\ Advance(a)
          /\ UNCHANGED <<exception, dbFailures>>
       \/ /\ ~IsHandled(Task(a))
          /\ pc' = [pc EXCEPT ![a] = "handle"]
          /\ UNCHANGED <<at, ended, exception, dbFailures>>
       \/ /\ EnsureIdempotent
          /\ DatabaseFails
          /\ pc' = [pc EXCEPT ![a] = "fail"]
          /\ exception' = [exception EXCEPT ![a] = "unknown"]
          /\ UNCHANGED <<at, ended>>
    /\ UNCHANGED <<database, deliveries, consumed, published, owner, toSend, memory, crashes>>

\* Mutant: the commands are not stored.
SaveEventsOnly(a, status, messages) ==
    /\ ~IsHandled(Task(a))
    /\ record' = IF EnsureIdempotent THEN [record EXCEPT ![Task(a)] = status] ELSE record
    /\ unSent' = IF EnsureArrival THEN unSent \cup {m \in messages : m.kind # "command"} ELSE unSent
    /\ toSend' = [toSend EXCEPT ![a] = messages]
    /\ pc' = [pc EXCEPT ![a] = "send"]

\* The rows HandleEventAsync and SaveFailHandledEventAsync write.  The two kinds of
\* rows share a table, whose key is the event and the handler.
Save(a, status, messages) ==
    /\ ~IsHandled(Task(a))
    /\ record' = IF EnsureIdempotent THEN [record EXCEPT ![Task(a)] = status] ELSE record
    /\ unSent' = IF EnsureArrival THEN unSent \cup messages ELSE unSent
    /\ toSend' = [toSend EXCEPT ![a] = messages]
    /\ pc' = [pc EXCEPT ![a] = "send"]

\* The handler and HandleEventAsync in one transaction.
Handle(a) ==
    /\ pc[a] = "handle"
    /\ \E sagaResult \in BOOLEAN : Save(a, "handled", MessagesOfSuccess(a, sagaResult))
    /\ effects' = effects \cup {<<a, at[a]>>}
    /\ UNCHANGED <<deliveries, consumed, published, owner, at, exception, ended, memory, crashes, dbFailures>>

\* Mutant: the exception leaves the loop.
HandleThrows(a, e) ==
    /\ pc[a] = "handle"
    /\ pc' = [pc EXCEPT ![a] = "finish"]
    /\ exception' = [exception EXCEPT ![a] = e]
    /\ ended' = [ended EXCEPT ![a] = "complete"]
    /\ UNCHANGED <<database, deliveries, consumed, published, owner, at, toSend, memory, crashes, dbFailures>>

\* The handler throws, the row exists, or the database fails: roll back.
HandleFails(a, e) ==
    /\ pc[a] = "handle"
    /\ pc' = [pc EXCEPT ![a] = "fail"]
    /\ exception' = [exception EXCEPT ![a] = e]
    /\ UNCHANGED <<database, deliveries, consumed, published, owner, at, toSend, ended, memory, crashes, dbFailures>>

SaveFailHandledEvent(a) ==
    /\ pc[a] = "fail"
    /\ \E sagaResult \in BOOLEAN : Save(a, "failed", MessagesOfFailure(a, sagaResult))
    /\ exception' = [exception EXCEPT ![a] = "none"]
    /\ UNCHANGED <<effects, deliveries, consumed, published, owner, at, ended, memory, crashes, dbFailures>>

\* SaveFailHandledEventAsync throws in its turn: that ends the loop, the handlers
\* that follow have no turn.
SaveFailThrows(a) ==
    /\ pc[a] = "fail"
    /\ \/ /\ IsHandled(Task(a))
          /\ ended' = [ended EXCEPT ![a] = "exists"]
          /\ UNCHANGED dbFailures
       \/ /\ DatabaseFails
          /\ ended' = [ended EXCEPT ![a] = "database"]
    /\ exception' = [exception EXCEPT ![a] = "none"]
    /\ pc' = [pc EXCEPT ![a] = "finish"]
    /\ UNCHANGED <<database, deliveries, consumed, published, owner, at, toSend, memory, crashes>>

\* The messages are queued, nobody waits until they are sent.
SendAsync(a) ==
    /\ pc[a] = "send"
    /\ sendQueue' = [sendQueue EXCEPT ![owner[a]] = @ \cup toSend[a]]
    /\ toSend' = [toSend EXCEPT ![a] = {}]
    /\ Advance(a)
    /\ UNCHANGED <<database, deliveries, consumed, published, owner, exception, alive, toRemove, crashes, dbFailures>>

\* The finally block, whatever happened before.
CommitOffset(a) ==
    /\ pc[a] = "finish"
    /\ pc' = [pc EXCEPT ![a] = "done"]
    /\ UNCHANGED <<database, deliveries, consumed, published, owner, at, exception, toSend, ended,
                   memory, crashes, dbFailures>>

\* The sliding door commits the offset at the broker.
AcknowledgeOffset(a) ==
    /\ pc[a] = "done"
    /\ consumed' = consumed \cup {Ev(a)}
    /\ pc' = [pc EXCEPT ![a] = "over"]
    /\ owner' = [owner EXCEPT ![a] = NoOwner]
    /\ UNCHANGED <<database, deliveries, published, at, exception, toSend, ended, memory, crashes, dbFailures>>

-----------------------------------------------------------------------------
(* Sending *)

\* Mutant: the daemon is told before the broker has the message.
SendMessageUnawaited(p, m) ==
    /\ alive[p] /\ m \in sendQueue[p]
    /\ sendQueue' = [sendQueue EXCEPT ![p] = @ \ {m}]
    /\ toRemove' = IF EnsureArrival THEN [toRemove EXCEPT ![p] = @ \cup {m}] ELSE toRemove
    /\ UNCHANGED <<database, deliveries, consumed, published, attempts, alive, crashes, dbFailures>>

\* The command bus or the publisher sends a message and tells the daemon.
SendMessageState(p, m) ==
    /\ alive[p] /\ m \in sendQueue[p]
    /\ sendQueue' = [sendQueue EXCEPT ![p] = @ \ {m}]
    /\ published' = published \cup {m}
    /\ toRemove' = IF EnsureArrival THEN [toRemove EXCEPT ![p] = @ \cup {m}] ELSE toRemove
    /\ UNCHANGED <<database, deliveries, consumed, attempts, alive, crashes, dbFailures>>

\* The daemon deletes the rows of a batch of at most ten messages.  If that fails
\* the batch is forgotten.
RemoveMessages(p, batch) ==
    /\ alive[p]
    /\ batch # {} /\ Cardinality(batch) <= 10
    /\ toRemove' = [toRemove EXCEPT ![p] = @ \ batch]
    /\ \/ unSent' = unSent \ batch /\ UNCHANGED dbFailures
       \/ DatabaseFails /\ UNCHANGED unSent
    /\ UNCHANGED <<record, effects, deliveries, consumed, published, attempts, alive, sendQueue, crashes>>

\* A process starts.  The publisher queues the events it finds stored and deletes
\* the rows that are not IMessages.  The command bus does not look at its table.
Start(p) ==
    LET publishable == {m \in unSent : m.kind \in {"event", "anywayEvent", "exceptionEvent"}}
    IN /\ ~alive[p]
       /\ alive' = [alive EXCEPT ![p] = TRUE]
       /\ sendQueue' = [sendQueue EXCEPT ![p] = publishable]
       /\ unSent' = publishable \cup {m \in unSent : m.kind = "command"}
       /\ UNCHANGED <<record, effects, deliveries, consumed, published, attempts, toRemove, crashes, dbFailures>>

Crash(p) ==
    LET Own(a) == owner[a] = p
        Clear(f, value) == [a \in Attempts |-> IF Own(a) THEN value ELSE f[a]]
    IN /\ alive[p]
       /\ crashes < MaxCrashes
       /\ crashes' = crashes + 1
       /\ alive' = [alive EXCEPT ![p] = FALSE]
       /\ sendQueue' = [sendQueue EXCEPT ![p] = {}]
       /\ toRemove' = [toRemove EXCEPT ![p] = {}]
       /\ pc' = Clear(pc, "over")
       /\ owner' = Clear(owner, NoOwner)
       /\ exception' = Clear(exception, "none")
       /\ toSend' = Clear(toSend, {})
       /\ ended' = [a \in Attempts |-> IF Own(a) /\ ended[a] = "no" THEN "crash" ELSE ended[a]]
       /\ UNCHANGED <<database, deliveries, consumed, published, at, dbFailures>>

-----------------------------------------------------------------------------

ConsumeMessage(a) ==
    \/ HasEventHandled(a)
    \/ Handle(a) \/ \E e \in Exceptions : HandleFails(a, e)
    \/ SaveFailHandledEvent(a) \/ SaveFailThrows(a)
    \/ SendAsync(a) \/ CommitOffset(a) \/ AcknowledgeOffset(a)

Next ==
    \/ \E p \in Processes : \/ Start(p) \/ Crash(p)
                            \/ \E batch \in SUBSET toRemove[p] : RemoveMessages(p, batch)
                            \/ \E e \in Events : Receive(p, e)
                            \/ \E m \in sendQueue[p] : SendMessageState(p, m)
    \/ \E a \in Attempts : ConsumeMessage(a)

Spec == Init /\ [][Next]_vars

\* Processes are restarted, the broker delivers what is not committed, threads run,
\* and producers retry until they succeed.
Fairness ==
    /\ \A a \in Attempts : WF_vars(ConsumeMessage(a))
    /\ \A e \in Events : WF_vars(\E p \in Processes : Receive(p, e))
    /\ \A p \in Processes :
          /\ WF_vars(Start(p))
          /\ WF_vars(\E m \in sendQueue[p] : SendMessageState(p, m))

FairSpec == Spec /\ Fairness

-----------------------------------------------------------------------------
(* Properties *)

\* Each handler takes effect at most once for an event, and not at all once its
\* failure is on record, although attempts on two processes may both have found it
\* unhandled (HasEventHandledAsync is called outside the transaction).
HandlerOnce ==
    EnsureIdempotent =>
        /\ \A t, u \in effects : Ev(t[1]) = Ev(u[1]) /\ t[2] = u[2] => t = u
        /\ \A t \in effects : record[<<Ev(t[1]), t[2]>>] = "handled"

\* No command or event of a turn that was rolled back is ever sent, and no exception
\* event of one that took effect (EventSubscriber clears the events when it catches,
\* and never sends the commands it has collected).
NoPhantomMessage ==
    \A m \in published :
        /\ m.kind \in {"command", "event"} => m.turn \in effects
        /\ m.kind = "exceptionEvent" => m.turn \notin effects

\* Arrival: what a handler that took effect has raised is sent or still has its row,
\* whatever crashes in between and whatever the daemon deletes.
MessagesKept ==
    EnsureArrival =>
        \A t \in effects, k \in Raised : [kind |-> k, turn |-> t] \in published \cup unSent

\* Each handler of an event is a task of an outbox, which its attempts share.
Announced == {t \in Turns : \E k \in {"command", "event"} : [kind |-> k, turn |-> t] \in published}
Out == INSTANCE Outbox
    WITH TaskOf <- [t \in Turns |-> IF EnsureIdempotent THEN <<Ev(t[1]), t[2]>> ELSE t],
         done <- effects, told <- Announced
ImplementsOutbox == Out!Spec

\* A handler of an event that will not be delivered again is on record or about to
\* be, unless the database failed on an attempt, or an attempt gave way to another
\* one that was further and that one crashed: when the failure cannot be recorded,
\* the handlers that follow have no turn in this attempt.
AtWork(e) == \E a \in Attempts : Ev(a) = e /\ pc[a] \notin {"idle", "over"}
Ended(e, how) == \E a \in Attempts : Ev(a) = e /\ ended[a] = how
Excused(e) == Ended(e, "database") \/ (Ended(e, "exists") /\ Ended(e, "crash"))
NothingSkipped ==
    EnsureIdempotent =>
        \A t \in Tasks :
            t[1] \in consumed \ Filtered =>
                record[t] # "none" \/ AtWork(t[1]) \/ Excused(t[1])

\* Every event is dealt with by all its handlers in the end, with the same excuse,
\* as long as the broker may deliver it once more (MaxDeliveries).
NotDeliverable(e) == e \notin consumed /\ deliveries[e] = MaxDeliveries /\ ~AtWork(e)
HandlersSettled ==
    \A t \in Tasks :
        t[1] \notin Filtered => <>(record[t] # "none" \/ Excused(t[1]) \/ NotDeliverable(t[1]))

\* The events stored with a handled event are published, although the process that
\* stored them crashes: the publisher of one that starts looks for them.
EventsArrive ==
    \A t \in Turns, k \in (Raised \ {"command"}) \cup {"exceptionEvent"} :
        LET m == [kind |-> k, turn |-> t] IN m \in unSent ~> m \in published

\* The commands stored with a handled event arrive: that is what EnsureArrival is
\* for.
CommandsArrive ==
    \A t \in Turns :
        LET m == [kind |-> "command", turn |-> t] IN m \in unSent ~> m \in published
=============================================================================
