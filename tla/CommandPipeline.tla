-------------------------- MODULE CommandPipeline --------------------------
(***************************************************************************)
(* How a command is consumed and its messages leave the process:           *)
(*                                                                         *)
(*   iFramework/Command/Impl/CommandProcessor.cs      consuming a command  *)
(*   IFramework.MessageStores.Abstracts/MessageStore.cs     the tables     *)
(*   iFramework/Message/Impl/MessagePublisher.cs, MessageSender.cs         *)
(*   IFramework.MessageStores.Abstracts/MessageStoreDaemon.cs              *)
(*                                                                         *)
(* A command is handled and recorded, together with the messages it gives  *)
(* rise to, in one database transaction.  The messages are then queued for *)
(* the publisher; the daemon deletes their rows once they are published; a *)
(* restarted publisher queues every row it finds.  The broker redelivers a *)
(* command until its offset is committed, possibly to another process      *)
(* while the first one is still at it.                                     *)
(*                                                                         *)
(* Each delivery of a command is an attempt of its own, numbered per       *)
(* command, and a message is identified by the attempt that made it (each  *)
(* attempt wraps new messages with new ids).  The transaction commits or   *)
(* not as a whole, so it is one step.  The offset is committed by the      *)
(* sliding door at some time after the attempt has ended (see SlidingDoor).*)
(***************************************************************************)
EXTENDS Naturals, FiniteSets

CONSTANTS Commands,         \* messages on the command queue
          Malformed,        \* those whose body is not an ICommand
          Processes,        \* command service processes sharing the store
          WithHandler,      \* commands some handler is registered for
          NeedReply,        \* commands with a ReplyToEndPoint
          InSaga,           \* commands with saga information
          EnsureIdempotent, \* MessageQueueOptions
          EnsureArrival,
          MaxDeliveries,    \* bound: deliveries of each command
          MaxCrashes,       \* bound: crashes of processes
          MaxDbFailures     \* bound: failures of the database

ASSUME CommandsAssumption ==
    /\ WithHandler \subseteq Commands /\ NeedReply \subseteq Commands /\ InSaga \subseteq Commands
    /\ Malformed \subseteq Commands \ WithHandler
ASSUME OptionsAssumption == EnsureIdempotent \in BOOLEAN /\ EnsureArrival \in BOOLEAN
ASSUME LimitsAssumption ==
    MaxDeliveries \in Nat /\ MaxCrashes \in Nat /\ MaxDbFailures \in Nat

VARIABLES
    \* the database
    record,       \* Commands table: the status of a command, "none" if absent
    effects,      \* attempts whose handler's changes are committed
    unPublished,  \* UnPublishedEvents table
    \* the brokers
    deliveries,   \* deliveries of each command so far
    consumed,     \* commands whose offset is committed
    published,    \* messages the publisher has sent
    \* each attempt
    pc, owner, exception, toSend,
    \* each process
    alive,
    sendQueue,    \* MessageStateQueue of the publisher
    toRemove,     \* _toRemoveMessages of the daemon
    crashes, dbFailures

database == <<record, effects, unPublished>>
attempts == <<pc, owner, exception, toSend>>
memory == <<alive, sendQueue, toRemove>>
vars == <<database, deliveries, consumed, published, attempts, memory, crashes, dbFailures>>

Attempts == Commands \X (1..MaxDeliveries)
Cmd(a) == a[1]
NoOwner == "no owner"

ASSUME OwnerAssumption == NoOwner \notin Processes

\* Replies (also to a saga) are whatever object the handler returned; events are
\* IMessages.
Kinds == {"reply", "sagaReply", "failReply", "failSagaReply", "repeatReply",
          "event", "anywayEvent", "exceptionEvent"}
Events == {"event", "anywayEvent", "exceptionEvent"}
Exceptions == {"domain", "domainEvent", "unknown"}  \* a DomainException may carry an event
Messages == [kind : Kinds, attempt : Attempts]
Msg(kind, a) == [kind |-> kind, attempt |-> a]
IsIMessage(m) == m.kind \in Events

TypeOK ==
    /\ record \in [Commands -> {"none", "handled", "failed"}]
    /\ effects \subseteq Attempts
    /\ unPublished \subseteq Messages
    /\ deliveries \in [Commands -> 0..MaxDeliveries]
    /\ consumed \subseteq Commands
    /\ published \subseteq Messages
    /\ pc \in [Attempts -> {"idle", "check", "handle", "fail", "send", "finish", "done", "over"}]
    /\ owner \in [Attempts -> Processes \cup {NoOwner}]
    /\ exception \in [Attempts -> {"none"} \cup Exceptions]
    /\ toSend \in [Attempts -> SUBSET Messages]
    /\ alive \in [Processes -> BOOLEAN]
    /\ sendQueue \in [Processes -> SUBSET Messages]
    /\ toRemove \in [Processes -> SUBSET Messages]
    /\ crashes \in Nat /\ dbFailures \in Nat

Init ==
    /\ record = [c \in Commands |-> "none"]
    /\ effects = {}
    /\ unPublished = {}
    /\ deliveries = [c \in Commands |-> 0]
    /\ consumed = {}
    /\ published = {}
    /\ pc = [a \in Attempts |-> "idle"]
    /\ owner = [a \in Attempts |-> NoOwner]
    /\ exception = [a \in Attempts |-> "none"]
    /\ toSend = [a \in Attempts |-> {}]
    /\ alive = [p \in Processes |-> FALSE]
    /\ sendQueue = [p \in Processes |-> {}]
    /\ toRemove = [p \in Processes |-> {}]
    /\ crashes = 0 /\ dbFailures = 0

-----------------------------------------------------------------------------
(* The messages of an attempt *)

If(condition, S) == IF condition THEN S ELSE {}

\* A saga that has a result replies to whoever started it.
GetSagaReplyMessageState(a, kind, sagaResult) == If(Cmd(a) \in InSaga /\ sagaResult, {Msg(kind, a)})

\* After a successful Handle.  The handler may have ended the saga.
MessagesOfSuccess(a, sagaResult) ==
    {Msg("event", a), Msg("anywayEvent", a)}
    \cup If(Cmd(a) \in NeedReply, {Msg("reply", a)})
    \cup GetSagaReplyMessageState(a, "sagaReply", sagaResult)

\* Mutant: the messages of the handler are not cleared.
FailureUncleared(a, sagaResult) ==
    MessagesOfSuccess(a, sagaResult) \cup If(Cmd(a) \in NeedReply, {Msg("failReply", a)})

\* After an exception: the handler's events are dropped, those to be published
\* anyway stay; an unknown exception interrupts the saga, if the handler did not
\* end it.
MessagesOfFailure(a, sagaResult) ==
    {Msg("anywayEvent", a)}
    \cup If(Cmd(a) \in NeedReply, {Msg("failReply", a)})
    \cup If(exception[a] = "domainEvent", {Msg("exceptionEvent", a)})
    \cup GetSagaReplyMessageState(a, "failSagaReply", sagaResult \/ exception[a] = "unknown")

\* For a command handled before, or one nobody handles.
RepeatedReply(a) == If(Cmd(a) \in NeedReply, {Msg("repeatReply", a)})

-----------------------------------------------------------------------------
(* Consuming a command *)

Goto(a, label) == pc' = [pc EXCEPT ![a] = label]

DatabaseFails ==
    /\ dbFailures < MaxDbFailures
    /\ dbFailures' = dbFailures + 1

\* The broker delivers a command whose offset is not committed.
Receive(p, c) ==
    /\ alive[p]
    /\ c \notin consumed
    /\ deliveries[c] < MaxDeliveries
    /\ deliveries' = [deliveries EXCEPT ![c] = @ + 1]
    /\ LET a == <<c, deliveries[c] + 1>>
       IN  /\ Goto(a, "check")
           /\ owner' = [owner EXCEPT ![a] = p]
    /\ UNCHANGED <<database, consumed, published, exception, toSend, memory, crashes, dbFailures>>

\* Whether the command is on record, when that is looked at.
IsHandled(c) == EnsureIdempotent /\ record[c] # "none"

GetCommandHandledInfo(a) ==
    /\ pc[a] = "check"
    /\ \/ /\ Cmd(a) \in Malformed
          /\ Goto(a, "finish")
          /\ UNCHANGED <<toSend, dbFailures>>
       \/ /\ Cmd(a) \notin Malformed
          /\ IsHandled(Cmd(a)) \/ Cmd(a) \notin WithHandler
          /\ toSend' = [toSend EXCEPT ![a] = RepeatedReply(a)]
          /\ Goto(a, "send")
          /\ UNCHANGED dbFailures
       \/ /\ ~IsHandled(Cmd(a)) /\ Cmd(a) \in WithHandler
          /\ Goto(a, "handle")
          /\ UNCHANGED <<toSend, dbFailures>>
       \/ /\ EnsureIdempotent /\ Cmd(a) \notin Malformed
          /\ DatabaseFails
          /\ Goto(a, "finish")
          /\ UNCHANGED toSend
    /\ UNCHANGED <<database, deliveries, consumed, published, owner, exception, memory, crashes>>

\* Mutant: the row is written over the one that exists.
SaveOver(a, status, messages) ==
    /\ record' = IF EnsureIdempotent THEN [record EXCEPT ![Cmd(a)] = status] ELSE record
    /\ unPublished' = IF EnsureArrival THEN unPublished \cup messages ELSE unPublished
    /\ toSend' = [toSend EXCEPT ![a] = messages]
    /\ Goto(a, "send")

\* The rows SaveCommandAsync and SaveFailedCommandAsync write.  The id of the
\* command is the primary key: a second row makes the transaction fail.
Save(a, status, messages) ==
    /\ ~IsHandled(Cmd(a))
    /\ record' = IF EnsureIdempotent THEN [record EXCEPT ![Cmd(a)] = status] ELSE record
    /\ unPublished' = IF EnsureArrival THEN unPublished \cup messages ELSE unPublished
    /\ toSend' = [toSend EXCEPT ![a] = messages]
    /\ Goto(a, "send")

\* The handler and SaveCommandAsync in one transaction.
HandleCommand(a) ==
    /\ pc[a] = "handle"
    /\ \E sagaResult \in BOOLEAN : Save(a, "handled", MessagesOfSuccess(a, sagaResult))
    /\ effects' = effects \cup {a}
    /\ UNCHANGED <<deliveries, consumed, published, owner, exception, memory, crashes, dbFailures>>

\* Mutant: the failed command is not saved.
HandleFailsUnsaved(a, e) ==
    /\ pc[a] = "handle"
    /\ exception' = [exception EXCEPT ![a] = e]
    /\ Goto(a, "finish")
    /\ UNCHANGED <<database, deliveries, consumed, published, owner, toSend, memory, crashes, dbFailures>>

\* The handler throws, the row exists, or the database fails: roll back.
HandleFails(a, e) ==
    /\ pc[a] = "handle"
    /\ exception' = [exception EXCEPT ![a] = e]
    /\ Goto(a, "fail")
    /\ UNCHANGED <<database, deliveries, consumed, published, owner, toSend, memory, crashes, dbFailures>>

SaveFailedCommand(a) ==
    /\ pc[a] = "fail"
    /\ \E sagaResult \in BOOLEAN : Save(a, "failed", MessagesOfFailure(a, sagaResult))
    /\ UNCHANGED <<effects, deliveries, consumed, published, owner, exception, memory, crashes, dbFailures>>

\* SaveFailedCommandAsync throws in its turn: nothing is recorded or sent.
SaveFailedThrows(a) ==
    /\ pc[a] = "fail"
    /\ \/ IsHandled(Cmd(a)) /\ UNCHANGED dbFailures
       \/ DatabaseFails
    /\ Goto(a, "finish")
    /\ UNCHANGED <<database, deliveries, consumed, published, owner, exception, toSend, memory, crashes>>

\* Mutant: sending is taken for completed once the messages are queued.
SendAsyncCompleted(a) ==
    /\ pc[a] = "send"
    /\ sendQueue' = [sendQueue EXCEPT ![owner[a]] = @ \cup toSend[a]]
    /\ toRemove' = [toRemove EXCEPT ![owner[a]] = @ \cup toSend[a]]
    /\ Goto(a, "finish")
    /\ UNCHANGED <<database, deliveries, consumed, published, owner, exception, toSend,
                   alive, crashes, dbFailures>>

\* SendAsync queues the messages and is not waited for.
SendAsync(a) ==
    /\ pc[a] = "send"
    /\ sendQueue' = [sendQueue EXCEPT ![owner[a]] = @ \cup toSend[a]]
    /\ Goto(a, "finish")
    /\ UNCHANGED <<database, deliveries, consumed, published, owner, exception, toSend,
                   alive, toRemove, crashes, dbFailures>>

\* The finally block, whatever happened before.
CommitOffset(a) ==
    /\ pc[a] = "finish"
    /\ Goto(a, "done")
    /\ exception' = [exception EXCEPT ![a] = "none"]
    /\ toSend' = [toSend EXCEPT ![a] = {}]
    /\ UNCHANGED <<database, deliveries, consumed, published, owner,
                   memory, crashes, dbFailures>>

\* The sliding door commits the offset at the broker.
AcknowledgeOffset(a) ==
    /\ pc[a] = "done"
    /\ consumed' = consumed \cup {Cmd(a)}
    /\ Goto(a, "over")
    /\ owner' = [owner EXCEPT ![a] = NoOwner]
    /\ UNCHANGED <<database, deliveries, published, exception, toSend,
                   memory, crashes, dbFailures>>

-----------------------------------------------------------------------------
(* Publishing *)

\* The publisher sends a message and tells the daemon.
SendMessageState(p, m) ==
    /\ alive[p] /\ m \in sendQueue[p]
    /\ sendQueue' = [sendQueue EXCEPT ![p] = @ \ {m}]
    /\ published' = published \cup {m}
    /\ toRemove' = IF EnsureArrival THEN [toRemove EXCEPT ![p] = @ \cup {m}] ELSE toRemove
    /\ UNCHANGED <<database, deliveries, consumed, attempts, alive, crashes, dbFailures>>

\* The daemon deletes the rows of a batch of at most ten messages.  If that fails
\* the batch is forgotten.
RemoveMessages(p, batch) ==
    /\ alive[p]
    /\ batch # {} /\ Cardinality(batch) <= 10
    /\ toRemove' = [toRemove EXCEPT ![p] = @ \ batch]
    /\ \/ unPublished' = unPublished \ batch /\ UNCHANGED dbFailures
       \/ DatabaseFails /\ UNCHANGED unPublished
    /\ UNCHANGED <<record, effects, deliveries, consumed, published, attempts,
                   alive, sendQueue, crashes>>

\* The rows a publisher can send: a row whose body is not an IMessage is removed.
GetAllUnSentMessages == {m \in unPublished : IsIMessage(m)}

\* Mutant: the rows are read and not queued.
StartUnqueued(p) ==
    /\ ~alive[p]
    /\ alive' = [alive EXCEPT ![p] = TRUE]
    /\ unPublished' = GetAllUnSentMessages
    /\ UNCHANGED <<record, effects, deliveries, consumed, published, attempts,
                   sendQueue, toRemove, crashes, dbFailures>>

\* A process starts.  The publisher queues the rows it finds, whoever wrote
\* them; the others are deleted.
Start(p) ==
    /\ ~alive[p]
    /\ alive' = [alive EXCEPT ![p] = TRUE]
    /\ sendQueue' = [sendQueue EXCEPT ![p] = GetAllUnSentMessages]
    /\ unPublished' = GetAllUnSentMessages
    /\ UNCHANGED <<record, effects, deliveries, consumed, published, attempts,
                   toRemove, crashes, dbFailures>>

Crash(p) ==
    /\ alive[p]
    /\ crashes < MaxCrashes
    /\ crashes' = crashes + 1
    /\ alive' = [alive EXCEPT ![p] = FALSE]
    /\ sendQueue' = [sendQueue EXCEPT ![p] = {}]
    /\ toRemove' = [toRemove EXCEPT ![p] = {}]
    /\ pc' = [a \in Attempts |-> IF owner[a] = p THEN "over" ELSE pc[a]]
    /\ owner' = [a \in Attempts |-> IF owner[a] = p THEN NoOwner ELSE owner[a]]
    /\ exception' = [a \in Attempts |-> IF owner[a] = p THEN "none" ELSE exception[a]]
    /\ toSend' = [a \in Attempts |-> IF owner[a] = p THEN {} ELSE toSend[a]]
    /\ UNCHANGED <<database, deliveries, consumed, published, dbFailures>>

-----------------------------------------------------------------------------

AttemptStep(a) ==
    \/ GetCommandHandledInfo(a)
    \/ HandleCommand(a) \/ \E e \in Exceptions : HandleFails(a, e)
    \/ SaveFailedCommand(a) \/ SaveFailedThrows(a)
    \/ SendAsync(a) \/ CommitOffset(a) \/ AcknowledgeOffset(a)

Next ==
    \/ \E p \in Processes : \/ Start(p) \/ Crash(p)
                            \/ \E batch \in SUBSET toRemove[p] : RemoveMessages(p, batch)
                            \/ \E c \in Commands : Receive(p, c)
                            \/ \E m \in sendQueue[p] : SendMessageState(p, m)
    \/ \E a \in Attempts : AttemptStep(a)

Spec == Init /\ [][Next]_vars

\* Processes are restarted, threads run, producers retry until they succeed.
Fairness ==
    /\ \A a \in Attempts : WF_vars(AttemptStep(a))
    /\ \A p \in Processes :
          /\ WF_vars(Start(p))
          /\ WF_vars(\E m \in sendQueue[p] : SendMessageState(p, m))

FairSpec == Spec /\ Fairness

-----------------------------------------------------------------------------
(* Properties *)

\* A command takes effect at most once, and not at all once it is on record as
\* failed, although it may be redelivered after a crash and two processes may
\* work on it at the same time: the check before the handler is not enough, the
\* key of the Commands table decides.
EffectOnce ==
    EnsureIdempotent =>
        /\ \A a, b \in effects : Cmd(a) = Cmd(b) => a = b
        /\ \A a \in effects : record[Cmd(a)] = "handled"

\* Nobody ever sees an event of an attempt that was rolled back, nor a failure
\* event of an attempt that took effect.
NoPhantomEvent ==
    \A m \in published :
        /\ m.kind = "event" => m.attempt \in effects
        /\ m.kind = "exceptionEvent" => m.attempt \notin effects

\* Arrival: every event of a committed attempt is published or still has its
\* row, whatever crashes in between and whatever the daemon deletes.
EventsKept ==
    EnsureArrival =>
        \A a \in effects, k \in {"event", "anywayEvent"} :
            Msg(k, a) \in published \cup unPublished

\* The pipeline is an outbox: with EnsureIdempotent a command is one task for all its
\* deliveries, and what a turn has to tell is its event.
Announced == {a \in Attempts : Msg("event", a) \in published}
Out == INSTANCE Outbox
    WITH Turns <- Attempts, TaskOf <- [a \in Attempts |-> IF EnsureIdempotent THEN <<Cmd(a)>> ELSE a],
         done <- effects, told <- Announced
ImplementsOutbox == Out!Spec

\* ... and with EnsureArrival it tells what it has done in the end, although the
\* process crashes between the database, the queue and the broker.
ImplementsFairOutbox == Out!FairSpec

\* The inductive invariant behind the three: messages and effects exist only for
\* attempts that are past their transaction, agree with its outcome, and the
\* daemon is only told of messages that are published.
Concluded(a) == pc[a] \in {"send", "finish", "done", "over"}
InSystem(m) ==
    \/ m \in published \/ m \in unPublished
    \/ \E p \in Processes : m \in sendQueue[p]
    \/ \E a \in Attempts : m \in toSend[a]

FutureIdle == \A a \in Attempts : a[2] > deliveries[a[1]] => pc[a] = "idle" /\ owner[a] = NoOwner
EffectsConcluded == \A a \in effects : Concluded(a)
MessagesAgree ==
    \A m \in Messages : InSystem(m) =>
        /\ Concluded(m.attempt)
        /\ m.kind = "event" => m.attempt \in effects
        /\ m.kind = "exceptionEvent" => m.attempt \notin effects
RemovedPublished == \A p \in Processes : toRemove[p] \subseteq published

PipelineInv ==
    /\ EffectOnce /\ FutureIdle /\ EffectsConcluded
    /\ MessagesAgree /\ RemovedPublished /\ EventsKept

\* A command that the broker will not deliver again has been dealt with: it is on
\* record, unless nobody handles it or the database failed.
NothingDropped ==
    (EnsureIdempotent /\ dbFailures = 0) =>
        \A c \in consumed \cap WithHandler : record[c] # "none"

\* Its inductive form: no attempt gets past its transaction before there is a row.
DealtWith ==
    (EnsureIdempotent /\ dbFailures = 0) =>
        \A a \in Attempts :
            Cmd(a) \in WithHandler /\ pc[a] \in {"send", "finish", "done"} => record[Cmd(a)] # "none"

\* Arrival of replies: when a command has taken effect and will not be delivered
\* again, a reply to it has been published, or its row or a queue still holds it.
RepliesKept ==
    EnsureArrival =>
        \A a \in effects :
            Cmd(a) \in NeedReply \cap consumed =>
                \/ \E b \in Attempts : Cmd(b) = Cmd(a) /\ pc[b] \notin {"idle", "over"}
                \/ \E m \in published \cup unPublished \cup UNION {sendQueue[p] : p \in Processes} :
                      m.kind \in {"reply", "repeatReply"} /\ Cmd(m.attempt) = Cmd(a)
=============================================================================
