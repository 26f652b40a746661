# Formal models of IFramework

IFramework is a .NET framework for command- and event-driven services. A command is sent over a
message queue to a service process, handled there in a database transaction or on an event-sourced
aggregate, and gives rise to events, replies and further commands, which go back to the queue.
These TLA+ modules model the parts of the framework that make this reliable: when an offset may be
committed, in which order work on one key is run, how a command takes effect once, how its messages
survive a crash, and how a caller gets its reply.

Paths are relative to `src/Src/`. `PROJECT.json` maps each definition to the lines it models and
lists the runs, the mutants, the findings, the hazards and the theorems.

## The system

| Component | State | Operations | Interacts with |
|---|---|---|---|
| Sliding door (`iFramework/MessageQueue/SlidingDoor.cs`) | pending and removed offsets, consumed, last committed and last offset, per partition | `AddOffset`, `RemoveOffset` | called by the consumer; calls back to commit |
| Consumer (`MessageConsumer.cs`, `KafkaConsumer.cs`) | doors by partition, consumer task | `Start`, `Stop`, `ReceiveMessages`, `BlockIfFullLoad`, `FinishConsumingMessage` | polls the broker, hands messages to the processors, which call `CommitOffset` |
| Mailbox processor (`iFramework/Infrastructure/Mailboxes`) | command queue, mailbox per key, queue and flag per mailbox | `Process`, `Stop`; `Run` and `ExitHandlingMessage` of a mailbox | used by command processor, event subscriber, command bus and web requests |
| Command processor (`iFramework/Command/Impl/CommandProcessor.cs`) | none of its own | `ConsumeMessage` | message store, publisher, consumer |
| Event subscriber (`iFramework/Event/Impl/EventSubscriber.cs`) | none of its own | `OnMessagesReceived`, `ConsumeMessage`, per handler of the event | message store, publisher, command bus |
| Event bus (`iFramework/Event/Impl/EventBus.cs`) | events, commands, events to be published anyway, saga result, per scope | `Publish`, `SendCommand`, `PublishAnyway`, `FinishSaga`, `ClearMessages` | filled by handlers, read by processors and units of work |
| Message store (`IFramework.MessageStores*`) | tables `Commands`, `HandledEvents`, `UnPublishedEvents`, `UnSentCommands`, `Events` | save a handled or failed command or event, look one up, read the unsent rows | processors, publisher, daemon |
| Message store daemon (`MessageStoreDaemon.cs`) | queue of ids to remove | `RemovePublishedEvent`, `RemoveSentCommand`, the removal loop | told by publisher and command bus |
| Publisher and sender (`MessagePublisher.cs`, `MessageSender.cs`) | queue of messages to send | `Start`, `SendAsync`, the send loop | message queue client, daemon |
| Command bus (`iFramework/Command/Impl/CommandBus.cs`) | states awaiting a reply, send queue | `SendAsync`, `StartSaga`, `ConsumeReply`, time-out and cancellation | a sender with a consumer for replies |
| Event sourcing (`IFramework.Infrastructure.EventSourcing`, `IFramework.EventStore.Redis`) | event stream and command results per aggregate, outcome per event and handler, in-memory cache, snapshots | `AppendEvents`, `HandleEvent`, `GetByKeyAsync`, `CommitAsync`, `Rollback` | replaces store and processors |
| Concurrency processor (`iFramework/Infrastructure/ConcurrencyProcessor.cs`) | number of tries | `ProcessAsync` | around a command or a commit |
| Unit of work (`IFramework.EntityFrameworkCore/UnitOfWorks`) | tracked entities, collected messages | `Commit`, `AfterCommitAsync`, `Rollback` | store, publisher, event bus |
| Small infrastructure | limited-size dictionary, task worker | `Add`, `Remove`; `Start`, `Suspend`, `Resume`, `Stop` | the dictionary is the cache of event sourcing; the worker has no caller |

What is hard to test in it: tasks of a partition end in any order while the broker wants one
number; the mailbox's flag, queue and dictionary are changed by several threads without a common
lock; a message may be redelivered while another process is in its handler; a process may die
between the database, the send queue, the broker and the offset; clean-up and retry run beside it
all; timers and cancellations race with replies; commands of one aggregate race on several servers
with caches that lag behind the stream. The list of hazards, each with its line and the properties
that watch it, is in `PROJECT.json`.

What makes the parts correct: nothing unhandled is below a committed offset, and no offset stays
behind (door); one runner at a time and no forgotten message per key (mailbox); at most one effect
per command or handler, no message without effect, no effect without its messages (processors,
unit of work and store: the *outbox*); commands of an aggregate in one sequence, each once, and
nothing told that is not in it (event sourcing: the *ledger*); a caller that waits can be found by
its reply (command bus).

## Modules

| Module | Models | Checked by | Proved in |
|---|---|---|---|
| `SlidingDoor` | door and consumer of one Kafka partition | `MCSlidingDoor` | `SlidingDoorProofs` |
| `Mailbox` | mailbox processor and mailboxes | `MCMailbox` | `MailboxProofs` |
| `Outbox` | abstract: what processors and units of work promise | as a property of the next three | |
| `CommandPipeline` | command processor, store, publisher, daemon | itself | `CommandPipelineProofs` |
| `EventSubscriber` | event subscriber, event bus, store, publisher, command bus as sender | `MCEventSubscriber` | `EventSubscriberProofs` |
| `UnitOfWork` | unit of work outside a message handler, event bus, publisher | itself | `UnitOfWorkProofs` |
| `CommandLedger` | abstract: what an event-sourced command service promises | as a property of the next one | |
| `EventSourcing` | event-sourced command service of one aggregate | `MCEventSourcing` | `EventSourcingProofs` |
| `EventSourcingSubscriber` | event subscriber on the event store | `MCEventSourcingSubscriber` | `EventSourcingSubscriberProofs` |
| `CommandReplies` | command bus: calls, replies, time-outs | `MCCommandReplies` | `CommandRepliesProofs` |

How they fit together. `FinishConsumingMessage` of `SlidingDoor` is the end of an attempt in
`CommandPipeline`, `EventSubscriber` and `EventSourcingSubscriber`, whose `AcknowledgeOffset`
stands for the door's commit at some later time; that a message not acknowledged is delivered again
is what `SafeCommit` of the door provides. `Mailbox` decides when an attempt starts, which the
pipelines leave open; because of finding 1, `EventSourcing` lets a server run several commands of
an aggregate at a time. The replies of `CommandPipeline` are what `CommandReplies` consumes, any
number of times each, or never. The events of `CommandPipeline`, `UnitOfWork` and `EventSourcing`
are those the subscribers receive.

### SlidingDoor

Variables with the code's names are the door's fields. `Offsets` (a `SortedSet`) and
`RemovedMessageOffsets` (a `SortedList`) are sets. `AddOffset` and `RemoveOffset` hold one lock,
and the Kafka commit inside is synchronous, so each is one step. Finding the door in `SlidingDoors`
is a step before (`FinishConsumingMessage`, then `RemoveMessageOffset`): a thread may look the door
up, see the consumer stopped and started again, and then remove its offset from a door that nobody
else knows, committing through the new Kafka consumer. That is why the doors are numbered, one for
each start; `late` records that a dropped one was used. `RemoveOffset` has three cases:
the offset is pending; it is pending and a removed one too, upon which `SortedList.Add` throws
with the offset already gone from `Offsets`; or it is unknown. `PollMessages` is one round of the
poll loop. `inFlight` counts the copies of a message the processors hold, because a message may be
delivered again while an earlier copy is still in work. The broker is external: a log with gaps,
a committed offset, and a group that may take the partition away and give it back after others
have worked on it (`Rebalance`); the consumer installs no handler for that, so the door is kept.
`Poison` are null-valued messages that the message builder rejects: the code does not finish
those.

### Mailbox

The threads are the processor and, since a task that yields is continued on some pool thread, the
continuation of each message; a task that does not yield (the command bus's `ConsumeReply`) runs
on the thread that dequeued it (`RunSynchronously`). Each atomic operation of `Run` and
`ExitHandlingMessage` on shared state is a step: dequeue, leaving the loop, lowering the flag,
looking at the queue, the compare-and-swap, the report of emptiness. The task is that of
the sample service `MailboxTestAsync`: it reads the value of its key, waits, and writes it back
incremented, or it throws.

### Outbox

Turns at tasks. A turn may take effect if no other turn of its task has (`Take`), and tells the
world afterwards (`Tell`); `Delivery` says it does so in the end. It is written as a leads-to and
not as fairness of `Tell`, because the implementations get there by steps of several threads. The
refinement mapping names the turns that are committed (`done`) and those whose events (commands and
events, in the subscriber) were published (`told`). In `UnitOfWork` every commit is a task of its
own, so only the second half of the promise says something there.

### CommandPipeline

A delivery of a command is an *attempt* that goes through `check`, `handle` or `fail`, `send` and
`finish`. The handler with `SaveCommandAsync` is one transaction and one step; so is
`SaveFailedCommandAsync`. The primary key of the `Commands` table is what `~IsHandled` in `Save`
stands for: a transaction that would insert a second row fails (`HandleFails`, `SaveFailedThrows`).
Messages are records of a kind and the attempt that made them. `effects` records the attempts
whose handler's changes are committed. A crash forgets the attempts, the send queue and the
daemon's list of the process; a start reads the table. `DatabaseFails` may strike the look-up, the
saving of a failure and the daemon's batch; the handler's transaction may fail for any reason.

Left out: the `Events` table (written and never read), message bodies and order within a topic,
and the mock stores.

### EventSubscriber

As `CommandPipeline`, but an attempt goes through the handlers of its event one after the other
(`at`), each *turn* with a look-up, a transaction and a send of its own (`HasEventHandled`,
`Handle`, `SaveFailHandledEvent`, `SendAsync`); `Advance` moves on. An exception of the recording
of a failure ends the loop (`SaveFailThrows`), and the `finally` block still commits the offset.
`Receive` contains the tag filter of `OnMessagesReceived`, which finishes refused events at once.
Commands go to the queue of the command bus, everything else to that of the publisher; both are
`sendQueue`, since the kind of a message tells which. `Start` reads the rows of events and leaves
those of commands, as the two `Start` methods do. `ended` records why an attempt ended, which
`NothingSkipped` needs for its excuses.

### UnitOfWork

One unit of work in a scope without a message context, committed several times. The steps of
a commit are `DoCommit` (the handlers' changes), `Committing` (wrap the events of the bus and add
them as rows of the same database context), `CommitTransaction`, or `Rollback` from any of them, and
`AfterCommit` or `AfterFailure`. The database context is a part of the state: it refuses a row with
the id of one that it tracks already, which is how a message state that is not cleared makes the
next commit fail. Inside a message handler `CommittingAsync` and `AfterCommitAsync` do nothing, so
the pipelines above cover that case.

### CommandLedger and EventSourcing

Streams, results, cache entries and mailboxes are kept per aggregate, so one aggregate is modelled.
The events raised by one command share a version and are one element of `stream`. A worker (a
command thread of a server, or a query on it) takes the aggregate from the cache (`LoadCached`), or
from the snapshot (`LoadSnapshot`) and the events after it (`LoadEvents`), puts it in the cache
(`LoadSet`) and may save a snapshot (`UpdateSnapshot`). Each call of Redis and each access of the
shared cache is a step, so the cache may change and the stream may grow in between. `Handle` runs
the handler: one that is `Conditional` may load the aggregate or not, raise its event or not, and
throw before or after that, as the sample's `CreateAccount` does
(`Sample/Sample.CommandHandler/Banks/AccountCommandHandler.cs` 43-49); the unit of work is committed
in each case. The append is one Lua script and one step with its four answers (`AppendDuplicate`,
`AppendStored`, `AppendExisting`, `AppendConflict`), and `AppendFails` is the call failing. The
cache is updated in another step (`CommitCache`), messages are handed to the publisher in `Finish`.
A conflict goes through `Retry` to the start, with the state rebuilt, or through `GiveUp`. An
aggregate is a version and how often each command's event was applied to it: enough to see an event
missing or applied twice.

`CommandLedger` is what remains without servers: a log, its head, an outcome per command that is
fixed once, and messages that are justified by log and outcome. `Append` fixes the version that the
reply names to that of the event itself, which is only true if the handler ran on the state at the
head: a lost update would break it. The mapping takes `log` from the stream, `head` from its top,
`outcome` from the stored results and `told` from the published messages.

### EventSourcingSubscriber

Here the handlers run on every delivery, and `HandleEvent` of the event store (`Store`,
`HandleEvent`) decides whose messages count: the first to set the hash field. Later turns get the
stored messages instead of their own, if they can be read. `bus` is the event bus of the turn,
`passed` what the attempt has handed to the senders. There is no table of unsent messages: what the
process had not sent when it died can only come from a redelivery.

### CommandReplies

`pc` is a call's way through `SendAsync` or `StartSaga` to the broker; `sendTask` and `replyTask`
are its two task completion sources, `table` is `_commandStateQueues`. Timers (`OnSendTimeout`),
the two cancellation tokens (`OnSendCancel`, `OnReplyCancel` with `RemoveCanceled`) and the handlers
of replies (`LookUp`, `Remove`, `CompleteReply`) interleave at every access of the table. Whether a
reply is a result or an exception is left open. Replies come only after a command was sent, and at
most as often as `MaxReplies` allows (`Reply`, the whole of `CommandProcessor.ConsumeMessage` as seen
from the bus).

## Runs

| Run | Instance | Shows |
|---|---|---|
| `sliding_door` | five messages at offsets 0, 2, 3, 5, 6, offset 3 a rejected null message, threshold 1, two rebalances, one stop or crash, one failed commit | `SafeCommit`, `NoStuckOffset`, `DrainedCommitted`, `LoadBounded`, `CommitsAdvance`, `EventuallyHandled` |
| `mailbox` | three messages of one key, one of them without yielding, one with a blank key, batches of two, `Stop` at any time | `OneRunner`, `NoLostWakeup`, `ExactlyOnce`, `NoMailboxLeak`, `EventuallyRun` |
| `mailbox_lost_update` | the same, all tasks yield, no `Stop` | violates `NoLostUpdate` (finding 1) |
| `command_pipeline` | one command, two processes, two deliveries, one crash, one database failure | `EffectOnce`, `NoPhantomEvent`, `EventsKept`, `NothingDropped`, `ImplementsFairOutbox` |
| `command_pipeline_replies` | one command that needs a reply, one process, one crash | violates `RepliesKept` (finding 2) |
| `event_subscriber` | one event with two handlers that raise a command and an event, one process with overlapping attempts, two deliveries, one crash, one database failure | `MessagesKept`, `NothingSkipped`, `ImplementsOutbox`, `HandlersSettled`, `EventsArrive` |
| `event_subscriber_commands` | one event, two handlers, one process, one crash | violates `CommandsArrive` (finding 3) |
| `unit_of_work` | three commits, the second with an event to be published anyway, one crash, two database failures | `MessagesKept`, `RetryUnharmed`, `ImplementsFairOutbox` |
| `event_sourcing` | a command that creates and may throw or raise nothing, one that creates or changes, one that changes the aggregate; two servers whose cache is not full, no retry, one fault | `ImplementsLedger`, `EventsAccounted`, `OneAnswer` |
| `event_sourcing_cache` | a command that creates and two that change the aggregate, one of these without reply and possibly throwing; two threads and a query on one server, a cache that evicts, three retries, no faults | `AggregatesBuilt`, `NeverGivesUp` |
| `event_sourcing_subscriber` | one event of a saga with two handlers, two processes, two deliveries, one crash, one failing Redis call | `OneVoice`, `NoPhantomMessage`, `NothingSkipped`, `StoredIsSent`, `LastHandlingReturned` |
| `command_replies` | a command that needs a reply, with two replies, and a saga with one | `AnswerDelivered`, `WaitersFound`, `NoStaleState`, `Answered`, `CallsReturn` |

The type invariants and the inductive invariants are theorems, as are `HandlerOnce` and
`NoPhantomMessage` of `EventSubscriber` and `UnitOfWork`; the runs do not repeat them.

Why these bounds are enough to be interesting:
- The log of the door has a gap below a pending message, at the start of a run of messages and after
  the null one; two rebalances let the door see an offset three times; the threshold is smaller than
  the log, so the consumer blocks, and equal to the number of null messages, so one more would block
  it for good. One restart is enough for a dropped door beside a new one.
- Three messages of one key with batches of two make a mailbox that is rescheduled, reported empty,
  dropped and made anew.
- Two processes with two deliveries give every overlap of two attempts, before and after a crash of
  either; commands (and events) do not share rows, so a second one adds no interaction to the
  safety properties.
- Two handlers are needed for a handler to be skipped because of the one before. The attempts of the
  event subscriber share nothing but the database, so two overlapping attempts of one process show
  what two processes would, except that a crash ends both: an attempt that goes on after the crash
  of another is left to the proofs, which hold for any number of processes. What an
  attempt leaves in the queue of events and in the table at the crash is in the run, since the
  handlers raise an event as well as a command.
- In `EventSourcing`, three commands on two servers give creation against creation, change against
  creation and change against change, and the fault a redelivery, a crash or a failing call at any
  point of that; without a retry a conflict ends the command, which is more outcomes and fewer steps.
  The other run has the retries: two threads and a query on one server are the smallest number in
  which an old copy is put back in the cache after `Retry` dropped it, by a command and by a query,
  and three retries are what `Enough` asks for. The bound is attained when the changes come from
  another server: with a thread and a query on one server and a thread on the other, one retry is too
  few and two are enough. In this run the worker that changes the aggregate shares the cache and has
  no old copy itself, so that two would do.
  Evictions (`Crowded`) are in that run.
- Three commits are one before, one with and one after the event to be published anyway; two
  failures let a retry fail.
- Two replies to a call are the smallest number that may race for one table entry.

Each property has a mutant of the code's logic that violates it under the same bounds (the
definitions marked *Mutant* in the modules, listed in `PROJECT.json`).

Deadlock is not checked: each of these systems may come to rest when all messages are dealt with and
the bounds are used up. That nothing rests too early is what the liveness properties say. Symmetry
(of commands, processes, servers, threads or messages) is used in runs without liveness only.

### Fairness

- `SlidingDoor`: the consumer is started again after a stop or crash (an assumption on operation);
  its thread polls whenever it is not blocked; every processor ends, since `ConsumeMessage` commits
  the offset in a `finally` block.
- `Mailbox`: the processor thread and the pool threads are scheduled; tasks come to an end. Nobody
  is obliged to post or to stop.
- `CommandPipeline`, `UnitOfWork`: attempts and commits go on, a process that died is started again,
  and the publisher sends what it holds: `KafkaProducer.SendAsync` retries until it succeeds
  (`KafkaProducer.cs` 92-118). The daemon, redelivery and database failures are not fair.
- `EventSubscriber`: the same, and an event whose offset is not committed is delivered (again) to
  some process, which is what the door and the broker provide.
- `CommandReplies`: the sending thread and the handlers of replies run. Timers and cancellations are
  not fair: they may never happen. Nor is `Reply`: the processor may lose a reply (finding 2) and
  replies to a saga only when a handler finishes it, so `Answered` starts at the reply's arrival.
- `EventSourcing` and `EventSourcingSubscriber` have no fairness and no liveness property: a command
  that runs out of retries, and a fault after the offset, end a command without an answer. What
  stands in for it is a bound, `NeverGivesUp`, and the account of messages, `EventsAccounted`.

### Findings

1. *Two mailboxes of one key* (`mailbox_lost_update`). `CompleteProcessMessage` drops the mailbox
   of a key when its queue is empty. The report of emptiness may be old by then: the mailbox has
   got another message and is running it, with an empty queue. The next message of the key gets a
   new mailbox and runs beside it. `NoMailboxLeak`, `OneRunner` (per mailbox) and `ExactlyOnce`
   still hold; what is lost is the exclusion per key that users rely on.
2. *Replies are not kept* (`command_pipeline_replies`). With `EnsureArrival` the reply to a command
   is stored beside its events, but on restart a row whose body is not an `IMessage` is deleted,
   and a reply is whatever object the handler returned. If the offset of the command has been
   committed nothing sends the reply again. Events are not affected (`EventsKept`, proved).
3. *Stored commands are not sent after a restart* (`event_subscriber_commands`). The commands an
   event handler raised are stored in `UnSentCommands`, but `CommandBus.Start` never reads that
   table. Safety holds (`MessagesKept`: the row is there), and events do arrive (`EventsArrive`).

Properties that state their limits, because the code does:
- `DrainedCommitted` and `CommitsAdvance` hold until a rebalance (and `DrainedCommitted` until a
  failed commit): the door keeps its state and never repeats a commit. They also end when a thread
  that had looked a door up before `Stop` uses it after `Start` (`late`): its commit, of an offset of
  the dropped door, goes through the new Kafka consumer and may move the group's offset back. That
  costs redelivery and no message: `SafeCommit` has no such limit. A rejected null message holds
  back everything after it, and everything before it as well if there is a gap right below it: the
  consumed offset is then an offset without a message, for which the door finds nothing to commit.
- `EventuallyHandled` supposes that the rejected null messages are not more than
  `FullLoadThreshold`: they stay in the door, and with one more `BlockIfFullLoad` never returns.
- `NothingDropped` and `NothingSkipped` hold until the database (or Redis) fails: `ConsumeMessage`
  logs such a failure and commits the offset in its `finally` block. A turn that finds its event
  recorded by another process when it records a failure ends its loop as well, and leaves the
  handlers that follow to the other process, which may crash.
- `RetryUnharmed` holds until an event to be published anyway was raised: its state is never
  cleared, so later commits of the same unit of work fail on the tracked row. After a successful
  commit such an event is stored and not handed to the publisher (the union that
  `AfterCommitAsync` computes is not used), so it waits for the next start of a process.
- `LastHandlingReturned` is about loops that come to their end. `HandleEvent` stores a null saga
  result as an empty payload and throws on reading it: a redelivery of such an event neither returns
  the stored messages nor gives the handlers that follow their turn. The comment at
  `iFramework/EventStore/IEventStore.cs` 50 ("return the last handling commands") makes no such exception.
- `AnswerDelivered` and `WaitersFound` need every call to have an id of its own (`DistinctIds`). The
  second call of a command that is being waited for is registered nowhere, and its cancellation
  removes the first call's entry, so that the reply completes neither. The comment at
  `CommandBus.cs` 23 ("When reply comes, make replyTaskCompletionSouce completed") makes no such
  exception.
- `NeverGivesUp` supposes as many retries as there are other commands that change the aggregate,
  times the threads and queries that share the cache (`Enough`; the default of `ProcessAsync` is 50).
  Each change can cost a retry because the attempt itself was behind, and another for each of the
  other workers, which may put an old copy back in the cache between a conflict and its retry.
- `NoStaleState` is about calls that have their reply; a call that was cancelled may stay in the
  table, as described below.
- `EventsAccounted` holds unless a fault destroyed the messages: the event-sourced service has no
  table of unsent messages, so a crash after the offset is committed loses them.
- `OneAnswer` is about stored results. A refusal to create the aggregate twice is not stored: a handler
  that finds the aggregate at the next delivery and throws before it raises stores that answer, so
  the caller may hear both. Commands whose handler sets no reply are left out: a stored null reply is
  replaced by that of the later attempt.

Other behaviour of the code that the models keep, and that a reader might not expect: an exception
of a handler in the event-sourced service still commits the events it had raised; a time-out or
cancellation of a send does not stop the send; a saga that is cancelled, and a call that is
cancelled before it is registered, leave their entry in the table; a failing database at the look-up
of an event handler is recorded as a failure of the handler.

## Proofs

All theorems hold for every value of the constants that satisfies the named assumptions, that is,
for any log, any number of commands, processes, deliveries, restarts and failures.

`SlidingDoorProofs` (assumptions: the log is a set of naturals that contains the rejected messages,
bounds are naturals; any number of restarts, so of dropped doors)
- `TypeCorrect`: `Spec => []TypeOK`.
- `CommitIsSafe` and `OffsetsAreReleased`: `Spec => []SafeCommit` and `[]NoStuckOffset`, from the
  inductive `DoorInv`. `SafeCommit` alone is not inductive: what the next commit will cover depends
  on the door. `DoorInv` adds that everything at or below `ConsumedOffset` is handled, and that
  every offset of the log below a pending one, below `LastOffset` or below the consumer's position
  is handled or pending. The last three are needed together, because after a rebalance the consumer
  polls offsets smaller than `LastOffset`. All this is said of every door, dropped ones too, since
  a thread may still commit through one; a thread that has found a door is past its message
  (`FinishingHandled`), and the door of the next start is fresh (`DoorLifetime`).
- `CommitsOnlyAdvance`: `Spec => CommitsAdvance`, an action property, from `AdvanceInv`: without a
  rebalance and without use of a dropped door, the door only holds offsets between the committed one
  and the position. Late ends of messages polled before a stop, which meet the new door, are the
  difficult case.
- `DrainedIsCommitted`: `Spec => []DrainedCommitted`, from `DrainInv`: every polled offset that is not
  committed is pending or removed, not both, and what lies below the first pending one is committed
  unless a gap is right below that one. The case that needs the last clause is in the list of
  limits above; it came out of the attempt to prove the property without it.
- `LoadIsBounded`: `Spec => []LoadBounded`, from `LoadInv`: while the partition is read once, each
  message in work is the only copy of a pending offset, so the number of pending offsets, which the
  poll loop compares with the threshold, bounds both.

`CommandPipelineProofs` (assumptions: the sets of commands are subsets of `Commands`, options are
Boolean, bounds are naturals, `NoOwner` is no process)
- `TypeCorrect`, and `PipelineInvariant` for the inductive `PipelineInv`. It adds to the three
  properties below that attempts not yet delivered are idle, that effects and messages exist only
  for attempts past their transaction and agree with its outcome, and that the daemon is only told
  of published messages. Without the first, a delivery could reuse the number of an attempt with
  effects; without the last, the daemon could delete an unpublished row.
- `CommandTakesEffectOnce`, `NoEventOfARollback`, `EventsAreKept`: `EffectOnce`, `NoPhantomEvent`,
  `EventsKept`. The step lemmas are `QuietStep` (an attempt moves on without effects), `HandleInv`,
  `FailedInv`, `ReceiveInv`, `MoveStep` (publisher and daemon) and `CrashInv`.
- `NothingIsDropped`: `Spec => []NothingDropped`, from `DealtWith`: no attempt gets past its
  transaction before the command has a row. An attempt that loses the race for the row does so
  because the row is there.
- `OutboxRefinement`: `Spec => ImplementsOutbox`. With `EnsureIdempotent` all attempts at a command
  are one task, without it each is a task of its own. Handling a command is a
  `Take` (`HandleTakes`, from the record that `EffectOnce` rests on), publishing an event is a
  `Tell` (`SendTells`, from the part of `PipelineInv` on queued messages), and every other step
  stutters.

`EventSourcingProofs` (assumptions: kinds of commands, hosts of threads and readers, bounds)
- `TypeCorrect`, and `LedgerInvariant` for the inductive `LedgerInv`, which has six parts:
  `StreamDense` (the versions are those from one to the top), `WorkersPlaced` (who has a
  command, and where), `NothingAhead` (no copy of the aggregate, in cache, snapshot, local store or
  under way, is ahead of the stream), `AttemptsReady` (what an append is about to store is consistent
  with the entry it was computed from), `ResultsTrue` (a stored result that names an event agrees
  with the stream) and `MessagesTrue` (a message in memory is justified by stream and results). The
  third is why an append on the expected version extends the head: the copy is at most at the head
  and the script demands that it is not behind.
- `Refinement`: `Spec => ImplementsLedger`, one lemma per kind of step: an append that is stored is
  `Append` or `Observe`, publishing is `Tell`, everything else stutters.
- `OneAnswerTheorem`: `Spec => []OneAnswer`, from the ledger's invariant: replies that are on the way
  are copies of the stored result or refusals, and a refusal means that the stream is not empty
  (`MessagesTrue`), so an attempt that can only create cannot store an event any more.
- `EventsAreAccounted`: `Spec => []EventsAccounted`, from `AccountInv`: of a command with a stored event
  some thread still has it before the append, where it will find the stored result, or has left
  the append with the event among its messages (`Carries`), or it is delivered again, lost or told
  (`EventSafe`). A thread in a conflict or with a refusal is no account, as another has the command's
  event then. An idle thread has no command (`IdleFree`).
- `AggregatesAreBuilt`: `Spec => []AggregatesBuilt`, from `BuildInv`. It extends the property to a
  copy between snapshot and events, whose version is the one the events are asked from, and to an
  attempt about to be appended, which has one event of its command more than the stream at the
  version it started from. An append cannot change what a copy was built from, because no copy is
  ahead of the stream (`NothingAhead`); the counts of the two parts of a replay add up because
  they are disjoint (`CountUnion`).
- `ServersNeverGiveUp`: `Spec => []NeverGivesUp`, from `RetryInv`. A worker is *late* when it is about
  to put a copy in the cache that is behind the stream, and an attempt is *behind* when the version
  it works on, or would take from the cache, is. The retries of an attempt and the number of workers
  of its server that are late or behind (`Overdue`) are together at most the number of workers times
  the number of changes so far (`RetryBound`): an append makes at most each of them overdue, and a
  retry uses one up. Every event but the first belongs to another command that changes the
  aggregate (`EventsStored`), and a pigeonhole argument (`StreamShort`) bounds the stream, and with
  it the retries.

`CommandRepliesProofs` (assumptions: the types of ids and calls; `DistinctIds`, that no two calls
share a key, is a hypothesis of the second item)
- `TypeCorrect`.
- `WaitersFoundTheorem` and `AnswerDeliveredTheorem`: with distinct ids a waiting call is in the
  table under its key or in the hands of a handler of its reply, and a consumed reply completes the
  call. They are proved together from one inductive invariant, which also says that an entry of the
  table is the call of its key.
- `NoStaleStateTheorem`: `Spec => []NoStaleState`, also for calls that share ids, from `StaleInv`: an
  entry and the state a handler has found are calls that registered, under their own key, and
  what a handler has removed or answered does not come back.

`EventSubscriberProofs` (assumptions: the types of the constants, `NoOwner` is no process)
- `TypeCorrect`, `HandlerOnceTheorem`, `MessagesAreKept`, `NoMessageOfARollback` (`NoPhantomMessage`)
  and `OutboxRefinement` (`ImplementsOutbox`), from the inductive `SubscriberInv`. Its parts are
  those of `PipelineInv` with turns in the place of attempts: effects belong to turns an attempt
  has behind it (`EffectsPast`), and so do rows and messages in memory, which also agree with how
  the turn came out (`KnownTrue`); the daemon is only told of what was sent (`Removable`), and an
  attempt is idle before its delivery (`Delivered`). Without `EffectsPast` a handler that comes to
  its turn could already have an effect. `SaveStep` covers every transaction that stores a
  handled event, `NoSaveStep` every step that stores nothing.
- `NoHandlerIsSkipped`: `Spec => []NothingSkipped`, from `SkipInv`: the rows of an event are those of
  its first handlers (`RowsInOrder`), an attempt has a row for every handler behind it
  (`RowsBehind`), and if there is a row at all some attempt is ahead of all rows and has not given
  way to another (`SomeoneLeads`). That attempt is at work, has come to the end, or is the one whose
  crash or failure is the excuse. The last part is what makes it inductive: an attempt
  gives way only to a row, and whoever stored that row leads.

`MailboxProofs` (assumptions: a positive batch size, every message has a key, the names of the
processor and of no mailbox are no messages; a mailbox is named by the message that made it)
- `TypeCorrect`, `OneRunnerTheorem`, `NoLostWakeupTheorem`, `ExactlyOnceTheorem`,
  `NoMailboxLeakTheorem`, from the inductive `MailboxInv`. `PlaceInv` says that a posted message
  waits at exactly one place, in the command queue or in a mailbox, until it is started. `FlagInv`
  says that the flag of a mailbox is up exactly while one thread is between raising and lowering
  it: `OneRunner` alone does not tell whether a thread at the compare-and-swap may succeed.
  `WakeInv` says that a mailbox with messages and a lowered flag has a thread that is yet to look
  at the queue. `DictionaryInv` says that somebody still works for a key in the dictionary or has
  reported its mailbox empty. Exclusion is per mailbox, not per key, which is why all this holds
  in spite of finding 1.

`UnitOfWorkProofs` (assumptions: the bounds are naturals)
- `TypeCorrect`, `MessagesAreKept`, `NoMessageOfARollback` and `OutboxRefinement`, from the inductive
  `UnitInv`: the messages of the commit under way are on the bus, then tracked by the database
  context (`OnTheWay`); the bus and the collected states hold the event of that commit only, and
  the bus holds none between commits (`BusFresh`); effects belong to commits that are past their
  transaction (`EffectsPast`); an event stored, queued or sent is that of a commit that took effect,
  and an exception event that of one that did not (`MessagesTrue`). `BusFresh` is what keeps an event of a commit that
  was rolled back from being stored with the next.
- `RetryIsUnharmed`: `Spec => []RetryUnharmed`, from `FromEarlier`: before a commit adds its rows,
  everything the context tracks is from earlier commits and everything on the bus from this one,
  so only a state to be published anyway, which is never cleared, can meet a row it has tracked.

`EventSourcingSubscriberProofs` (assumptions: the types of the constants, `NoOwner` is no process)
- `TypeCorrect`, `OneVoiceTheorem` and `NoMessageOfAFailure` (`NoPhantomMessage`), from the inductive
  `VoiceInv`: what is stored for a handler was raised in one turn of it (`StoredOnce`); a turn that is
  about to store has raised its messages itself, one that is about to send has them from the store
  (`BusOwn`); what is queued or sent is stored (`SentStored`); an attempt is idle before its delivery
  (`Delivered`).
- `LastHandlingIsReturned` and `StoredMessagesAreSent`: `LastHandlingReturned` and `StoredIsSent`,
  from `ReturnInv`: what is behind an attempt is stored and passed on by it (`Returned`), and what
  it is about to send is all that is stored for the handler (`SendsStored`), whoever stored it.
- `NoHandlerIsSkipped`: `NothingSkipped`, by the argument of `EventSubscriberProofs` with stored
  messages in the place of rows.

Only model-checked: liveness (`EventuallyHandled`, `EventuallyRun`, `HandlersSettled`, `EventsArrive`,
`Answered`, `CallsReturn`, and the `Delivery` part of `ImplementsFairOutbox`), since fairness is
beyond the prover. Every safety property of a passing run has its theorem.

## Not modelled

- `Stop` of publisher, daemon and command bus: a crash loses at least as much.
- The `CommitPerMessage` branch of the consumer and the RabbitMQ client, which acknowledges per
  message and has no door; the in-memory queue, which has no redelivery; the MongoDB message store;
  the Kafka producer, whose retry loop is a fairness assumption above.
- The `Events` table, which is written and never read. Retries of Entity Framework's execution
  strategy inside a transaction.
- Locks and caches (wrappers over third-party code), the id generator (a thin adapter), repositories,
  dependency injection, JSON and configuration (no protocol state), the ASP.NET, single-sign-on and
  logging plugins, vendored code and samples.
- The task worker, which nothing in the framework uses, and the dictionary of limited size, whose
  changes all hold one lock; what its eviction does to the cache is `Evict` of `EventSourcing`.

## Plan

Done: the modules and runs above, proofs of every invariant and action property the runs check, and
three refinements of `Outbox` and one of `CommandLedger`. What is left:

1. The daemon and the publisher as a component of their own, so that `CommandPipeline`,
   `EventSubscriber` and `UnitOfWork` share its lemmas instead of proving them three times.
2. The safety part of the liveness arguments, as theorems: what is enabled for a command that is not
   yet dealt with, stated without `ENABLED` as the step the code can take next (for the mailbox,
   `NoLostWakeup` is that statement already).
3. A run for each of the two comments that only hold within limits, `IEventStore.cs` 50 and
   `CommandBus.cs` 23.
