--------------------------- MODULE EventSourcing ---------------------------
(***************************************************************************)
(* The event-sourced command service, for one aggregate:                   *)
(*                                                                         *)
(*   IFramework.Infrastructure.EventSourcing/EventSourcingCommandProcessor *)
(*   IFramework.Infrastructure.EventSourcing/UnitOfWork.cs                 *)
(*   IFramework.Infrastructure.EventSourcing/Repositories, Stores          *)
(*   IFramework.EventStore.Redis/EventStore.cs, RedisSnapshotStore.cs      *)
(*   iFramework/Infrastructure/ConcurrencyProcessor.cs                     *)
(*                                                                         *)
(* A server handles a command on the aggregate it has cached or rebuilt    *)
(* from snapshot and events, appends the new events under the version it   *)
(* started from, and starts over when the stream has moved on.  The store  *)
(* keeps the result under the command's id and gives it back to a command  *)
(* delivered again.                                                        *)
(*                                                                         *)
(* Streams, results, caches and mailboxes are all kept per aggregate, so   *)
(* one aggregate is modelled.  A server may run several commands of it at  *)
(* a time: its mailbox is meant to exclude that and does not always (see   *)
(* Mailbox), and two servers run commands of it, also the same command,    *)
(* when the broker reassigns its partition.  The events one command raises *)
(* share one version and are one element of the stream                     *)
(* (VersionedAggregateRoot.NewVersion).  The script that appends is one    *)
(* step of Redis; what the server does with its answer is another.         *)
(***************************************************************************)
EXTENDS Naturals, FiniteSets

CONSTANTS Commands,
          Creates, Modifies,   \* commands whose handler may add a new aggregate, may change
                               \* the one it has loaded; the others only read
          Silent,              \* commands whose handler sets no reply
          Conditional,         \* commands whose handler may throw, or raise no event
          Servers,             \* processes of the command service
          Threads,             \* the threads that run commands
          Readers,             \* other scopes that load the aggregate
          Host,                \* the server of each thread and reader
          Crowded,             \* whether other aggregates fill the limited cache
          RetryCount,          \* retryCount of ConcurrencyProcessor.ProcessAsync
          MaxFaults            \* bound: redeliveries, crashes and failing Redis calls

ASSUME KindsAssumption ==
    /\ Creates \subseteq Commands /\ Modifies \subseteq Commands
    /\ Silent \subseteq Commands /\ Conditional \subseteq Commands
ASSUME HostAssumption == Host \in [Threads \cup Readers -> Servers] /\ Threads \cap Readers = {}
ASSUME CrowdedAssumption == Crowded \in BOOLEAN
ASSUME BoundAssumption == RetryCount \in Nat /\ MaxFaults \in Nat

VARIABLES
    \* Redis
    stream,    \* sorted set of the aggregate's events: [cmd, version] records
    results,   \* what is stored under each command's key
    snapshot,  \* the aggregate in the snapshot store
    \* the broker
    copies,    \* deliveries of each command still to be taken
    sent,      \* messages published
    \* a server
    cache,     \* InMemoryStore
    outbox,    \* messages handed to the publisher, in memory
    \* a worker: a command thread or a reader
    pc, cmd,
    entry,     \* _local of the repository: entry.Version and the aggregate
    from,      \* fromVersion in GetByKeyAsync
    reply,     \* Reply of the context, and whether the event bus holds an event
    retries,
    messages,  \* eventMessageStates
    \* history
    lost,      \* commands whose messages, or whose last delivery, a fault has destroyed
    faults

redis == <<stream, results, snapshot>>
worker == <<pc, cmd, entry, from, reply, retries, messages>>
vars == <<redis, copies, sent, cache, outbox, worker, lost, faults>>

Workers == Threads \cup Readers

NoCommand == "no command"
ASSUME NoCommandAssumption == NoCommand \notin Commands

\* An aggregate is its version and how often each command's event has been applied
\* to it; version 0 is null.
NoAggregate == [version |-> 0, applied |-> [c \in Commands |-> 0]]
NoEntry == [version |-> 0, ag |-> NoAggregate]
NoReply == [outcome |-> "null", version |-> 0, app |-> FALSE]
NoResult == [outcome |-> "none", version |-> 0, app |-> FALSE, event |-> 0]

\* What a handler comes to; "null" is a return without a reply.  A "duplicate" is
\* an AddDuplicatedAggregateRoot exception.
Results == {"ok", "null", "domain", "unknown"}
Outcomes == Results \cup {"duplicate"}
Msg(c, outcome, version) == [cmd |-> c, outcome |-> outcome, version |-> version]

Records == [cmd : Commands, version : Nat]
Aggregates == [version : Nat, applied : [Commands -> Nat]]
Messages == [cmd : Commands, outcome : Outcomes \cup {"event", "app"}, version : Nat]

TypeOK ==
    /\ stream \subseteq Records
    /\ results \in [Commands -> [outcome : Results \cup {"none"}, version : Nat,
                                 app : BOOLEAN, event : Nat]]
    /\ snapshot \in Aggregates
    /\ copies \in [Commands -> Nat]
    /\ sent \subseteq Messages
    /\ cache \in [Servers -> Aggregates]
    /\ outbox \in [Servers -> SUBSET Messages]
    /\ pc \in [Workers -> {"idle", "begin", "events", "set", "snapshot", "handle",
                           "append", "appended", "conflict", "finish"}]
    /\ cmd \in [Workers -> Commands \cup {NoCommand}]
    /\ entry \in [Workers -> [version : Nat, ag : Aggregates]]
    /\ from \in [Workers -> Nat]
    /\ reply \in [Workers -> [outcome : Results, version : Nat, app : BOOLEAN]]
    /\ retries \in [Workers -> 0..RetryCount]
    /\ messages \in [Workers -> SUBSET Messages]
    /\ lost \subseteq Commands
    /\ faults \in 0..MaxFaults

Init ==
    /\ stream = {}
    /\ results = [c \in Commands |-> NoResult]
    /\ snapshot = NoAggregate
    /\ copies = [c \in Commands |-> 1]
    /\ sent = {}
    /\ cache = [s \in Servers |-> NoAggregate]
    /\ outbox = [s \in Servers |-> {}]
    /\ pc = [w \in Workers |-> "idle"]
    /\ cmd = [w \in Workers |-> NoCommand]
    /\ entry = [w \in Workers |-> NoEntry]
    /\ from = [w \in Workers |-> 0]
    /\ reply = [w \in Workers |-> NoReply]
    /\ retries = [w \in Workers |-> 0]
    /\ messages = [w \in Workers |-> {}]
    /\ lost = {}
    /\ faults = 0

Goto(w, place) == pc' = [pc EXCEPT ![w] = place]

-----------------------------------------------------------------------------
(* The event store *)

\* The highest score of the sorted set; a stream without events has none.
Top(S) == IF S = {} THEN 0
          ELSE CHOOSE v \in {r.version : r \in S} : \A r \in S : r.version <= v

\* Mutant: the script does not compare versions.
ExpectedAny(version) == TRUE

\* The script's own test: an empty stream takes any version.
Expected(version) == stream = {} \/ Top(stream) = version

\* Mutant: the event of the version the snapshot is at is read again.
GetEventsInclusive(start) == {r \in stream : r.version >= start - 1}

\* GetEvents: the events from a version on.
GetEvents(start) == {r \in stream : r.version >= start}

\* How often each command's event is among some events.
Count(S) == [c \in Commands |-> Cardinality({r \in S : r.cmd = c})]

\* EventSourcingAggregateRoot.Replay: each event is applied and leaves its version.
Replay(ag, events) ==
    [version |-> IF events = {} THEN ag.version ELSE Top(events),
     applied |-> [c \in Commands |-> ag.applied[c] + Count(events)[c]]]

-----------------------------------------------------------------------------
(* Loading the aggregate: EventSourcingRepository.GetByKeyAsync.  A worker *)
(* that calls it has no local entry: the repository is new or was reset.   *)

\* A command that is delivered starts its first attempt.  A handler that only
\* creates the aggregate need not look for it, one that throws may do so before it looks.
Receive(w, c) ==
    /\ w \in Threads
    /\ pc[w] = "idle"
    /\ copies[c] > 0
    /\ copies' = [copies EXCEPT ![c] = @ - 1]
    /\ cmd' = [cmd EXCEPT ![w] = c]
    /\ \/ Goto(w, "begin")
       \/ c \in (Creates \ Modifies) \cup Conditional /\ Goto(w, "handle")
    /\ UNCHANGED <<redis, sent, cache, outbox, entry, from, reply, retries, messages, lost, faults>>

Query(w) ==
    /\ w \in Readers
    /\ pc[w] = "idle"
    /\ Goto(w, "begin")
    /\ UNCHANGED <<redis, copies, sent, cache, outbox, cmd, entry, from, reply, retries, messages, lost, faults>>

Entry(ag) == [version |-> ag.version, ag |-> ag]

LoadCached(w) ==
    /\ pc[w] = "begin"
    /\ cache[Host[w]].version > 0
    /\ entry' = [entry EXCEPT ![w] = Entry(cache[Host[w]])]
    /\ Goto(w, "handle")
    /\ UNCHANGED <<redis, copies, sent, cache, outbox, cmd, from, reply, retries, messages, lost, faults>>

LoadSnapshot(w) ==
    /\ pc[w] = "begin"
    /\ cache[Host[w]].version = 0
    /\ entry' = [entry EXCEPT ![w] = Entry(snapshot)]
    /\ from' = [from EXCEPT ![w] = snapshot.version]
    /\ Goto(w, "events")
    /\ UNCHANGED <<redis, copies, sent, cache, outbox, cmd, reply, retries, messages, lost, faults>>

LoadEvents(w) ==
    LET ag == Replay(entry[w].ag, GetEvents(from[w] + 1))
    IN /\ pc[w] = "events"
       /\ entry' = [entry EXCEPT ![w] = Entry(ag)]
       /\ Goto(w, IF ag.version = 0 THEN "handle" ELSE "set")
       /\ UNCHANGED <<redis, copies, sent, cache, outbox, cmd, from, reply, retries, messages, lost, faults>>

LoadSet(w) ==
    /\ pc[w] = "set"
    /\ cache' = [cache EXCEPT ![Host[w]] = entry[w].ag]
    /\ Goto(w, IF entry[w].ag.version > from[w] THEN "snapshot" ELSE "handle")
    /\ UNCHANGED <<redis, copies, sent, outbox, cmd, entry, from, reply, retries, messages, lost, faults>>

UpdateSnapshot(w) ==
    /\ pc[w] = "snapshot"
    /\ snapshot' = entry[w].ag
    /\ Goto(w, "handle")
    /\ UNCHANGED <<stream, results, copies, sent, cache, outbox, cmd, entry, from, reply, retries, messages, lost, faults>>

\* A call of Redis that fails while the aggregate is loaded is an exception of the
\* handler: the command is committed with the failure as its reply.
LoadFails(w) ==
    /\ pc[w] \in {"begin", "events", "snapshot"}
    /\ w \in Threads
    /\ cache[Host[w]].version = 0 \/ pc[w] # "begin"
    /\ faults < MaxFaults
    /\ faults' = faults + 1
    /\ entry' = [entry EXCEPT ![w] = NoEntry]
    /\ reply' = [reply EXCEPT ![w] = [outcome |-> "unknown", version |-> 0, app |-> FALSE]]
    /\ Goto(w, "append")
    /\ UNCHANGED <<redis, copies, sent, cache, outbox, cmd, from, retries, messages, lost>>

-----------------------------------------------------------------------------
(* Handling and committing a command *)

\* The entries a handler may leave when it raises an event: of a new aggregate, or of
\* the one it has loaded.  Add overwrites the entry of a loaded aggregate.
Raised(w) ==
    LET c == cmd[w]
        Raise(version, ag) ==
            [version |-> version,
             ag |-> [version |-> ag.version + 1, applied |-> [ag.applied EXCEPT ![c] = @ + 1]]]
    IN {e \in {Raise(0, NoAggregate)} : c \in Creates}
       \cup {e \in {Raise(entry[w].version, entry[w].ag)} : c \in Modifies /\ entry[w].ag.version > 0}

Return(c) == IF c \in Silent THEN "null" ELSE "ok"

\* The handler raises its event if it can and returns; a missing aggregate is a
\* DomainException.  A conditional one may leave the event out, and may throw before
\* or after it has raised it.  Nothing is rolled back then, the command is committed
\* with what there is; a DomainException publishes its event.
Handle(w, after, outcome) ==
    /\ w \in Threads
    /\ pc[w] = "handle"
    /\ \/ /\ Raised(w) # {} => after \in Raised(w)
          /\ outcome = IF after.ag.version = 0 THEN "domain" ELSE Return(cmd[w])
       \/ /\ cmd[w] \in Conditional
          /\ outcome \in {Return(cmd[w]), "domain", "unknown"}
    /\ entry' = [entry EXCEPT ![w] = after]
    /\ reply' = [reply EXCEPT ![w] =
         IF outcome = "null" THEN NoReply
         ELSE [outcome |-> outcome, version |-> after.ag.version, app |-> outcome = "domain"]]
    /\ Goto(w, "append")
    /\ UNCHANGED <<redis, copies, sent, cache, outbox, cmd, from, retries, messages, lost, faults>>

Changed(e) == e.ag.version > e.version

\* A query ends when it has its aggregate, or a call of Redis fails.
EndQuery(w) ==
    /\ w \in Readers
    /\ pc[w] \in {"begin", "events", "snapshot", "handle"}
    /\ Goto(w, "idle")
    /\ entry' = [entry EXCEPT ![w] = NoEntry]
    /\ from' = [from EXCEPT ![w] = 0]
    /\ UNCHANGED <<redis, copies, sent, cache, outbox, cmd, reply, retries, messages, lost, faults>>

\* The result of the command, to be stored under its key.
Result(w) == [outcome |-> reply[w].outcome, version |-> reply[w].version, app |-> reply[w].app,
              event |-> IF Changed(entry[w]) THEN entry[w].ag.version ELSE 0]

\* The messages a result gives rise to: its events, and the reply.
MessagesOf(c, r) ==
    {Msg(c, r.outcome, r.version)}
    \cup (IF r.event > 0 THEN {Msg(c, "event", r.event)} ELSE {})
    \cup (IF r.app THEN {Msg(c, "app", 0)} ELSE {})

\* Mutant: a command delivered again is answered with its latest attempt.
ReplayedAnew(w, r) == [r EXCEPT !.outcome = reply[w].outcome, !.version = reply[w].version]

\* What AppendEvents gives back to a command it finds stored.  A reply that was
\* null is not stored, and the reply of the latest attempt stands.
Replayed(w, r) ==
    IF r.outcome = "null"
    THEN [r EXCEPT !.outcome = reply[w].outcome, !.version = reply[w].version]
    ELSE r

\* Mutant: only the reply is given again.
DuplicateReplied(w) ==
    /\ pc[w] = "append"
    /\ results[cmd[w]] # NoResult
    /\ messages' = [messages EXCEPT ![w] = {Msg(cmd[w], results[cmd[w]].outcome, results[cmd[w]].version)}]
    /\ Goto(w, "finish")
    /\ UNCHANGED <<redis, copies, sent, cache, outbox, cmd, entry, from, reply, retries, lost, faults>>

\* The script finds the command's key.
AppendDuplicate(w) ==
    /\ pc[w] = "append"
    /\ results[cmd[w]] # NoResult
    /\ messages' = [messages EXCEPT ![w] = MessagesOf(cmd[w], Replayed(w, results[cmd[w]]))]
    /\ Goto(w, "finish")
    /\ UNCHANGED <<redis, copies, sent, cache, outbox, cmd, entry, from, reply, retries, lost, faults>>

\* The script stores the result, and the events if there are any.
Store(w) ==
    /\ results[cmd[w]] = NoResult
    /\ Changed(entry[w]) => Expected(entry[w].version)
    /\ results' = [results EXCEPT ![cmd[w]] = Result(w)]
    /\ stream' = IF Changed(entry[w])
                 THEN stream \cup {[cmd |-> cmd[w], version |-> entry[w].version + 1]}
                 ELSE stream

AppendStored(w) ==
    /\ pc[w] = "append"
    /\ Store(w)
    /\ messages' = [messages EXCEPT ![w] = MessagesOf(cmd[w], Result(w))]
    /\ Goto(w, IF Changed(entry[w]) THEN "appended" ELSE "finish")
    /\ UNCHANGED <<snapshot, copies, sent, cache, outbox, cmd, entry, from, reply, retries, lost, faults>>

\* The versions differ: -2.
Refused(w) == results[cmd[w]] = NoResult /\ Changed(entry[w]) /\ ~Expected(entry[w].version)

\* A new aggregate whose id is taken is not tried again.
AppendExisting(w) ==
    /\ pc[w] = "append"
    /\ Refused(w)
    /\ entry[w].version = 0
    /\ messages' = [messages EXCEPT ![w] = {Msg(cmd[w], "duplicate", 0)}]
    /\ Goto(w, "finish")
    /\ UNCHANGED <<redis, copies, sent, cache, outbox, cmd, entry, from, reply, retries, lost, faults>>

AppendConflict(w) ==
    /\ pc[w] = "append"
    /\ Refused(w)
    /\ entry[w].version > 0
    /\ Goto(w, "conflict")
    /\ UNCHANGED <<redis, copies, sent, cache, outbox, cmd, entry, from, reply, retries, messages, lost, faults>>

\* UnitOfWork.CommitAsync after the append.
CommitCache(w) ==
    /\ pc[w] = "appended"
    /\ cache' = [cache EXCEPT ![Host[w]] = entry[w].ag]
    /\ Goto(w, "finish")
    /\ UNCHANGED <<redis, copies, sent, outbox, cmd, entry, from, reply, retries, messages, lost, faults>>

\* Mutant: the cached aggregate stays after a conflict.
RetryCached(w) ==
    /\ pc[w] = "conflict"
    /\ retries[w] < RetryCount
    /\ retries' = [retries EXCEPT ![w] = @ + 1]
    /\ entry' = [entry EXCEPT ![w] = NoEntry]
    /\ reply' = [reply EXCEPT ![w] = NoReply]
    /\ Goto(w, "begin")
    /\ UNCHANGED <<redis, copies, sent, cache, outbox, cmd, from, messages, lost, faults>>

\* A conflict resets the repository and drops the cached aggregate; the concurrency
\* processor starts the handler again.
Retry(w) ==
    /\ pc[w] = "conflict"
    /\ retries[w] < RetryCount
    /\ retries' = [retries EXCEPT ![w] = @ + 1]
    /\ cache' = [cache EXCEPT ![Host[w]] = NoAggregate]
    /\ entry' = [entry EXCEPT ![w] = NoEntry]
    /\ reply' = [reply EXCEPT ![w] = NoReply]
    /\ Goto(w, "begin")
    /\ UNCHANGED <<redis, copies, sent, outbox, cmd, from, messages, lost, faults>>

\* The command is over: its worker is free and its offset committed.
Release(w) ==
    /\ Goto(w, "idle")
    /\ cmd' = [cmd EXCEPT ![w] = NoCommand]
    /\ entry' = [entry EXCEPT ![w] = NoEntry]
    /\ from' = [from EXCEPT ![w] = 0]
    /\ reply' = [reply EXCEPT ![w] = NoReply]
    /\ retries' = [retries EXCEPT ![w] = 0]
    /\ messages' = [messages EXCEPT ![w] = {}]

\* The last conflict is thrown, logged and the command dropped.
GiveUp(w) ==
    /\ pc[w] = "conflict"
    /\ retries[w] = RetryCount
    /\ cache' = [cache EXCEPT ![Host[w]] = NoAggregate]
    /\ Release(w)
    /\ UNCHANGED <<redis, copies, sent, outbox, lost, faults>>

\* So is the command when the append fails, whether or not the script has run.
AppendFails(w) ==
    /\ pc[w] = "append"
    /\ faults < MaxFaults
    /\ faults' = faults + 1
    /\ \/ UNCHANGED redis
       \/ Store(w) /\ UNCHANGED snapshot
    /\ lost' = lost \cup {cmd[w]}
    /\ Release(w)
    /\ UNCHANGED <<copies, sent, cache, outbox>>

\* The messages are handed to the publisher, nobody waits until they are sent.
Finish(w) ==
    /\ pc[w] = "finish"
    /\ outbox' = [outbox EXCEPT ![Host[w]] = @ \cup messages[w]]
    /\ Release(w)
    /\ UNCHANGED <<redis, copies, sent, cache, lost, faults>>

-----------------------------------------------------------------------------
(* The environment *)

Publish(s, m) ==
    /\ m \in outbox[s]
    /\ sent' = sent \cup {m}
    /\ outbox' = [outbox EXCEPT ![s] = @ \ {m}]
    /\ UNCHANGED <<redis, copies, cache, worker, lost, faults>>

\* The cache is limited: another aggregate may push this one out.
Evict(s) ==
    /\ Crowded
    /\ cache[s].version > 0
    /\ cache' = [cache EXCEPT ![s] = NoAggregate]
    /\ UNCHANGED <<redis, copies, sent, outbox, worker, lost, faults>>

\* The broker delivers a command again: its offset was not committed in time, or
\* its partition moved while it was handled.
Redeliver(c) ==
    /\ faults < MaxFaults
    /\ faults' = faults + 1
    /\ copies[c] = 0
    /\ copies' = [copies EXCEPT ![c] = 1]
    /\ UNCHANGED <<redis, sent, cache, outbox, worker, lost>>

\* A server dies with its cache and its outbox; what it was handling is delivered
\* again.
Crash(s) ==
    LET Dead(w) == Host[w] = s
        Clear(f, value) == [w \in Workers |-> IF Dead(w) THEN value ELSE f[w]]
    IN /\ faults < MaxFaults
       /\ faults' = faults + 1
       /\ copies' = [c \in Commands |-> IF \E w \in Workers : Dead(w) /\ cmd[w] = c
                                      THEN copies[c] + 1 ELSE copies[c]]
       /\ cache' = [cache EXCEPT ![s] = NoAggregate]
       /\ lost' = lost \cup {m.cmd : m \in outbox[s]}
       /\ outbox' = [outbox EXCEPT ![s] = {}]
       /\ pc' = Clear(pc, "idle")
       /\ cmd' = Clear(cmd, NoCommand)
       /\ entry' = Clear(entry, NoEntry)
       /\ from' = Clear(from, 0)
       /\ reply' = Clear(reply, NoReply)
       /\ retries' = Clear(retries, 0)
       /\ messages' = Clear(messages, {})
       /\ UNCHANGED <<redis, sent>>

Load(w) == LoadCached(w) \/ LoadSnapshot(w) \/ LoadEvents(w) \/ LoadSet(w) \/ UpdateSnapshot(w)

Commit(w) ==
    \/ AppendDuplicate(w) \/ AppendStored(w) \/ AppendExisting(w) \/ AppendConflict(w)
    \/ CommitCache(w) \/ Retry(w) \/ GiveUp(w) \/ Finish(w)

Work(w) ==
    \/ \E c \in Commands : Receive(w, c)
    \/ Load(w)
    \/ \E after \in {entry[w]} \cup Raised(w), outcome \in Results : Handle(w, after, outcome)
    \/ Commit(w)

Next ==
    \/ \E w \in Workers : Work(w) \/ Query(w) \/ EndQuery(w) \/ LoadFails(w) \/ AppendFails(w)
    \/ \E s \in Servers : \E m \in outbox[s] : Publish(s, m)
    \/ \E s \in Servers : Evict(s) \/ Crash(s)
    \/ \E c \in Commands : Redeliver(c)

Spec == Init /\ [][Next]_vars

-----------------------------------------------------------------------------
(* Properties *)

\* Every aggregate a server has cached, has stored as a snapshot or is about to hand
\* to a handler is the replay of the stream up to its version: no event is missing
\* or applied twice, whatever was cached, evicted or saved when.
Built(ag) == ag.applied = Count({r \in stream : r.version <= ag.version})
AggregatesBuilt ==
    /\ Built(snapshot)
    /\ \A s \in Servers : Built(cache[s])
    /\ \A w \in Workers : pc[w] \in {"set", "snapshot", "handle", "appended"} => Built(entry[w].ag)

\* The events of a command that took effect reach the publisher: they are sent, on
\* their way, or the command is still to be handled (again), unless a fault after
\* the offset was committed has destroyed them (EventSourcingCommandProcessor does
\* not wait for the send and keeps no table of unsent events).
EventsAccounted ==
    \A c \in Commands :
        results[c].event > 0 =>
            \/ Msg(c, "event", results[c].event) \in sent \cup UNION {outbox[s] : s \in Servers}
            \/ copies[c] > 0
            \/ \E w \in Threads : cmd[w] = c
            \/ c \in lost

\* A command whose handler sets a reply is only ever told one stored result, however
\* often it is delivered and whatever the aggregate has become in between.  The refusal
\* to create the aggregate twice is not stored: a handler that finds the aggregate the
\* next time may still store another answer.  But a command that can only create has
\* not taken effect when it is refused, and never will (EventStore.AppendEvents,
\* UnitOfWork.CommitAsync).
Replies(c) == {m \in sent \cup UNION {outbox[s] : s \in Servers} : m.cmd = c /\ m.outcome \in Outcomes}
Stored(c) == {m \in Replies(c) : m.outcome # "duplicate"}
OneAnswer ==
    \A c \in Commands :
        /\ c \notin Silent => \A m, n \in Stored(c) : m = n
        /\ c \notin Modifies /\ Stored(c) # Replies(c) => results[c].event = 0

\* The workers of a server never drive a command out of retries: an attempt is refused
\* only when another command has changed the aggregate since it was read, by this worker
\* or by one that shares its cache and has put an old copy there after Retry dropped the
\* one before.  Each of the other commands can cost one retry for each of these workers,
\* and no more.
Sharing(w) == {v \in Workers : Host[v] = Host[w]}
Enough(w) == /\ IsFiniteSet(Sharing(w)) /\ IsFiniteSet(Modifies)
             /\ Cardinality(Sharing(w)) * (Cardinality(Modifies) - 1) <= RetryCount
NeverGivesUp == \A w \in Threads : Enough(w) /\ pc[w] = "conflict" => retries[w] < RetryCount

\* The service implements the ledger: commands take effect one at a time, once, on
\* the state the last one left, and only what is stored is ever told (the script of
\* AppendEvents, and what UnitOfWork.CommitAsync does with its answer).
Ledger == INSTANCE CommandLedger
    WITH log <- stream, head <- Top(stream), outcome <- results, told <- sent
ImplementsLedger == Ledger!Spec

-----------------------------------------------------------------------------
(* The inductive invariant *)

\* The versions in the stream have no gap.
StreamDense ==
    /\ IsFiniteSet(stream)
    /\ Top(stream) \in Nat
    /\ {r.version : r \in stream} = 1..Top(stream)

\* Which command a worker has, and where it can be.
WorkersPlaced ==
    /\ \A w \in Threads : pc[w] # "idle" => cmd[w] \in Commands
    /\ \A w \in Readers : /\ pc[w] \in {"idle", "begin", "events", "set", "snapshot", "handle"}
                          /\ cmd[w] = NoCommand
    /\ \A w \in Workers : pc[w] \in {"begin", "idle"} => entry[w] = NoEntry

\* No copy of the aggregate is ahead of the stream.
NothingAhead ==
    /\ snapshot.version <= Top(stream)
    /\ \A s \in Servers : cache[s].version <= Top(stream)
    /\ \A w \in Workers :
         /\ entry[w].version <= Top(stream)
         /\ pc[w] \notin {"append", "conflict", "finish"} => entry[w].ag.version <= Top(stream)
         /\ pc[w] \in {"events", "set", "snapshot", "handle"} => entry[w].version = entry[w].ag.version

\* What an attempt is about to store.
AttemptReady(w) ==
    /\ Changed(entry[w]) => entry[w].ag.version = entry[w].version + 1
    /\ reply[w].outcome = "null" => reply[w].version = 0 /\ cmd[w] \in Silent
    /\ Changed(entry[w]) /\ reply[w].outcome # "null" => reply[w].version = entry[w].version + 1
    /\ ~Changed(entry[w]) => reply[w].version <= Top(stream)
    /\ Changed(entry[w]) => cmd[w] \in IF entry[w].version = 0 THEN Creates ELSE Modifies
AttemptsReady == \A w \in Workers : pc[w] = "append" => AttemptReady(w)

\* Messages on their way are true, and a creation that was refused never takes effect.
OnTheWay == (UNION {outbox[s] : s \in Servers}) \cup (UNION {messages[w] : w \in Workers})
MessagesTrue ==
    /\ \A m \in OnTheWay : Ledger!Justified(m) /\ m.version <= Top(stream) + 1
    /\ \A m \in sent : Ledger!Justified(m)
    /\ \A m \in OnTheWay \cup sent :
         m.outcome = "duplicate" =>
             m.version = 0 /\ stream # {} /\ (m.cmd \notin Modifies => results[m.cmd].event = 0)

\* What is stored of a command.
ResultsTrue ==
    \A c \in Commands :
        /\ results[c].outcome = "none" => results[c] = NoResult
        /\ results[c].event > 0 => [cmd |-> c, version |-> results[c].event] \in stream
        /\ results[c].version <= Top(stream)
        /\ c \notin Silent => results[c].outcome # "null"

\* What makes the refinement inductive: see the parts.
LedgerInv == StreamDense /\ WorkersPlaced /\ NothingAhead /\ AttemptsReady /\ ResultsTrue /\ MessagesTrue
=============================================================================
