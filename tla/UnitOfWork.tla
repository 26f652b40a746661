----------------------------- MODULE UnitOfWork -----------------------------
(***************************************************************************)
(* The unit of work on Entity Framework, as an application service uses it *)
(* outside any message handler:                                            *)
(*                                                                         *)
(*   IFramework.EntityFrameworkCore/UnitOfWorks/UnitOfWork.cs              *)
(*   IFramework.EntityFrameworkCore/UnitOfWorks/UnitOfWorkBase.cs          *)
(*   IFramework.EntityFrameworkCore/MsDbContext.cs                         *)
(*                                                                         *)
(* One unit of work, committed several times: a service may commit in      *)
(* steps, or run again after a concurrency conflict.  Commit number n      *)
(* raises one event and perhaps one event to be published anyway; messages *)
(* are identified by kind and commit.  The messages are rows of the same   *)
(* database context as the changes.  The context tracks the rows it has    *)
(* seen: adding a row with the id of a tracked one throws.  EnsureArrival  *)
(* is on, as by default.                                                   *)
(***************************************************************************)
EXTENDS Naturals

CONSTANTS MaxCommits,    \* bound: commits of the unit of work
          Anyway,        \* the commits that publish an event anyway
          MaxCrashes,    \* bound: crashes of the process
          MaxDbFailures  \* bound: failures of the database, conflicts included

ASSUME LimitsAssumption ==
    MaxCommits \in Nat /\ MaxCrashes \in Nat /\ MaxDbFailures \in Nat /\ Anyway \subseteq Nat

VARIABLES
    n,             \* number of the commit
    pc,            \* how far it is
    busEvents, busAnyway,       \* the event bus
    eventStates, anywayStates,  \* EventMessageStates, AnywayPublishEventMessageStates
    exception,     \* Exception
    tracked,       \* messages whose rows the context tracks
    effects,       \* commits whose changes are in the database
    unPublished,   \* UnPublishedEvents
    sendQueue, published,
    alive, crashes, dbFailures

bus == <<busEvents, busAnyway>>
states == <<eventStates, anywayStates>>
publisher == <<sendQueue, published>>
vars == <<n, pc, bus, states, exception, tracked, effects, unPublished, publisher,
          alive, crashes, dbFailures>>

Commits == 1..MaxCommits
Messages == [kind : {"event", "anyway", "exception"}, commit : Commits]
Msg(kind) == [kind |-> kind, commit |-> n]
Exceptions == {"domain", "domainEvent", "database", "tracked"}

TypeOK ==
    /\ n \in 0..MaxCommits
    /\ pc \in {"idle", "save", "committing", "transaction", "rollback", "after", "over"}
    /\ pc \notin {"idle", "over"} => n # 0
    /\ busEvents \subseteq Messages /\ busAnyway \subseteq Messages
    /\ eventStates \subseteq Messages /\ anywayStates \subseteq Messages
    /\ exception \in {"none"} \cup Exceptions
    /\ pc \in {"idle", "save", "committing", "transaction"} => exception = "none"
    /\ tracked \subseteq Messages
    /\ effects \subseteq Commits
    /\ unPublished \subseteq Messages
    /\ sendQueue \subseteq Messages /\ published \subseteq Messages
    /\ alive \in BOOLEAN
    /\ crashes \in 0..MaxCrashes /\ dbFailures \in 0..MaxDbFailures

Init ==
    /\ n = 0 /\ pc = "idle"
    /\ busEvents = {} /\ busAnyway = {}
    /\ eventStates = {} /\ anywayStates = {}
    /\ exception = "none"
    /\ tracked = {} /\ effects = {} /\ unPublished = {}
    /\ sendQueue = {} /\ published = {}
    /\ alive = TRUE
    /\ crashes = 0 /\ dbFailures = 0

-----------------------------------------------------------------------------

\* The service works on its aggregates and calls Commit or CommitAsync.
Work ==
    /\ pc = "idle"
    /\ n < MaxCommits
    /\ n' = n + 1
    /\ pc' = "save"
    /\ busAnyway' = busAnyway \cup (IF n' \in Anyway THEN {[kind |-> "anyway", commit |-> n']} ELSE {})
    /\ UNCHANGED <<busEvents, states, exception, tracked, effects, unPublished, publisher,
                   alive, crashes, dbFailures>>

Throw(e) == exception' = e /\ pc' = "rollback"

DatabaseFails ==
    /\ dbFailures < MaxDbFailures
    /\ dbFailures' = dbFailures + 1
    /\ Throw("database")

\* DoCommit: save, and hand the events of the aggregates to the bus.  What fails here
\* may be the database, a conflict included, or an exception of the domain.
DoCommit ==
    /\ pc = "save"
    /\ \/ /\ pc' = "committing"
          /\ UNCHANGED <<exception, dbFailures>>
       \/ DatabaseFails
       \/ \E e \in {"domain", "domainEvent"} : Throw(e) /\ UNCHANGED dbFailures
    /\ busEvents' = busEvents \cup {Msg("event")}
    /\ UNCHANGED <<n, busAnyway, states, tracked, effects, unPublished, publisher, alive, crashes>>

\* Mutants: the states of the previous commit are kept; the events to be published
\* anyway are not stored.
CommittingAppends ==
    LET states2 == eventStates \cup busEvents
        all == states2 \cup anywayStates \cup busAnyway
    IN /\ pc = "committing"
       /\ eventStates' = states2
       /\ anywayStates' = anywayStates \cup busAnyway
       /\ IF all \cap tracked # {}
          THEN Throw("tracked") /\ UNCHANGED tracked
          ELSE /\ pc' = "transaction" /\ tracked' = tracked \cup all
               /\ UNCHANGED exception
       /\ UNCHANGED <<n, bus, effects, unPublished, publisher, alive, crashes, dbFailures>>
CommittingEventsOnly ==
    /\ pc = "committing"
    /\ eventStates' = busEvents
    /\ anywayStates' = anywayStates \cup busAnyway
    /\ IF busEvents \cap tracked # {}
       THEN Throw("tracked") /\ UNCHANGED tracked
       ELSE /\ pc' = "transaction" /\ tracked' = tracked \cup busEvents
            /\ UNCHANGED exception
    /\ UNCHANGED <<n, bus, effects, unPublished, publisher, alive, crashes, dbFailures>>

\* CommittingAsync wraps the events and adds their rows.  The states to be published
\* anyway are never cleared: those of an earlier commit are added again.
Committing ==
    LET all == busEvents \cup anywayStates \cup busAnyway
    IN /\ pc = "committing"
       /\ eventStates' = busEvents
       /\ anywayStates' = anywayStates \cup busAnyway
       /\ IF all \cap tracked # {}
          THEN Throw("tracked") /\ UNCHANGED tracked
          ELSE /\ pc' = "transaction" /\ tracked' = tracked \cup all
               /\ UNCHANGED exception
       /\ UNCHANGED <<n, bus, effects, unPublished, publisher, alive, crashes, dbFailures>>

\* The rows are inserted and the transaction commits, both or neither.
CommitTransaction ==
    /\ pc = "transaction"
    /\ \/ /\ pc' = "after"
          /\ effects' = effects \cup {n}
          /\ unPublished' = unPublished \cup (tracked \cap (eventStates \cup anywayStates))
          /\ UNCHANGED <<exception, dbFailures>>
       \/ DatabaseFails /\ UNCHANGED <<effects, unPublished>>
    /\ UNCHANGED <<n, bus, states, tracked, publisher, alive, crashes>>

\* The catch block: the context forgets everything, the bus what it should publish.
Rollback ==
    /\ pc = "rollback"
    /\ pc' = "after"
    /\ tracked' = {}
    /\ busEvents' = {}
    /\ UNCHANGED <<n, busAnyway, states, exception, effects, unPublished, publisher,
                   alive, crashes, dbFailures>>

\* Mutant: nothing is sent.
AfterCommitSilent ==
    /\ pc = "after" /\ exception = "none"
    /\ pc' = "idle"
    /\ busEvents' = {} /\ busAnyway' = {}
    /\ UNCHANGED <<n, states, exception, tracked, effects, unPublished, publisher, alive, crashes, dbFailures>>

\* AfterCommitAsync, the finally block: the events are sent; those to be published
\* anyway are not.
AfterCommit ==
    /\ pc = "after" /\ exception = "none"
    /\ pc' = "idle"
    /\ sendQueue' = sendQueue \cup eventStates
    /\ busEvents' = {} /\ busAnyway' = {}
    /\ UNCHANGED <<n, states, exception, tracked, effects, unPublished, published, alive, crashes, dbFailures>>

\* The same after a failure: what is to be published anyway is stored and sent,
\* unless its rows exist or the database fails.  The exception goes to the caller.
AfterFailure ==
    LET all == anywayStates \cup (IF exception = "domainEvent" THEN {Msg("exception")} ELSE {})
    IN /\ pc = "after" /\ exception # "none"
       /\ pc' = "idle"
       /\ exception' = "none"
       /\ anywayStates' = all
       /\ tracked' = all
       /\ busEvents' = {} /\ busAnyway' = {}
       /\ \/ /\ all \cap unPublished = {}
             /\ unPublished' = unPublished \cup all
             /\ sendQueue' = sendQueue \cup all
             /\ UNCHANGED dbFailures
          \/ /\ all \cap unPublished # {}
             /\ UNCHANGED <<unPublished, sendQueue, dbFailures>>
          \/ /\ all # {}
             /\ dbFailures < MaxDbFailures
             /\ dbFailures' = dbFailures + 1
             /\ UNCHANGED <<unPublished, sendQueue>>
       /\ UNCHANGED <<n, eventStates, effects, published, alive, crashes>>

-----------------------------------------------------------------------------
(* The publisher and the daemon, as in CommandPipeline *)

SendMessageState(m) ==
    /\ alive /\ m \in sendQueue
    /\ sendQueue' = sendQueue \ {m}
    /\ published' = published \cup {m}
    /\ UNCHANGED <<n, pc, bus, states, exception, tracked, effects, unPublished, alive, crashes, dbFailures>>

RemoveMessage(m) ==
    /\ m \in published \cap unPublished
    /\ unPublished' = unPublished \ {m}
    /\ UNCHANGED <<n, pc, bus, states, exception, tracked, effects, publisher, alive, crashes, dbFailures>>

\* The unit of work ends with its process.
Crash ==
    /\ alive
    /\ crashes < MaxCrashes
    /\ crashes' = crashes + 1
    /\ alive' = FALSE
    /\ pc' = "over"
    /\ exception' = "none"
    /\ busEvents' = {} /\ busAnyway' = {} /\ eventStates' = {} /\ anywayStates' = {}
    /\ tracked' = {} /\ sendQueue' = {}
    /\ UNCHANGED <<n, effects, unPublished, published, dbFailures>>

Start ==
    /\ ~alive
    /\ alive' = TRUE
    /\ sendQueue' = unPublished
    /\ UNCHANGED <<n, pc, bus, states, exception, tracked, effects, unPublished, published, crashes, dbFailures>>

-----------------------------------------------------------------------------

Commit == DoCommit \/ Committing \/ CommitTransaction \/ Rollback \/ AfterCommit \/ AfterFailure

Next ==
    \/ Work \/ Commit
    \/ \E m \in Messages : SendMessageState(m) \/ RemoveMessage(m)
    \/ Crash \/ Start

Spec == Init /\ [][Next]_vars

\* A commit runs to its end, a process is restarted, and the producer retries until it
\* succeeds.
FairSpec ==
    /\ Spec
    /\ WF_vars(Commit) /\ WF_vars(Start)
    /\ WF_vars(\E m \in Messages : SendMessageState(m))

-----------------------------------------------------------------------------
(* Properties *)

\* The messages of a commit that took effect are published or still have their rows.
MessagesKept ==
    \A c \in effects :
        /\ [kind |-> "event", commit |-> c] \in published \cup unPublished
        /\ c \in Anyway => [kind |-> "anyway", commit |-> c] \in published \cup unPublished

\* No event of a commit that was rolled back is ever published, whatever the later
\* commits of the unit of work publish, and no exception event of one that took effect.
NoPhantomMessage ==
    \A m \in published :
        /\ m.kind = "event" => m.commit \in effects
        /\ m.kind = "exception" => m.commit \notin effects

\* A commit fails on its own messages only if an earlier commit has left messages to
\* be published anyway, or an exception event: a retry of anything else goes through.
RetryUnharmed ==
    exception = "tracked" => \E m \in anywayStates : m.commit < n

\* The unit of work is an outbox: each commit is a task of its own, told by its event,
\* in the end also when the process dies after the transaction.
Announced == {c \in Commits : [kind |-> "event", commit |-> c] \in published}
Out == INSTANCE Outbox
    WITH Turns <- Commits, TaskOf <- [c \in Commits |-> c], done <- effects, told <- Announced
ImplementsFairOutbox == Out!FairSpec
=============================================================================
