---------------------------- MODULE SlidingDoor ----------------------------
(***************************************************************************)
(* The sliding door of one Kafka partition and the consumer around it:     *)
(*                                                                         *)
(*   iFramework/MessageQueue/SlidingDoor.cs                                *)
(*   IFramework.MessageQueue.Client.Abstracts/MessageConsumer.cs           *)
(*   IFramework.MessageQueueCore.ConfluentKafka/KafkaConsumer.cs           *)
(*                                                                         *)
(* The consumer thread polls messages in offset order, registers each      *)
(* offset with the door and hands the message to the processors, which     *)
(* finish in any order, on any thread.  A Kafka commit acknowledges every  *)
(* smaller offset, so the door may only commit an offset when nothing      *)
(* smaller is still being processed.                                       *)
(*                                                                         *)
(* AddOffset and RemoveOffset run under one lock, the synchronous commit   *)
(* included, so each of them is one step.  Finding the door is another: a  *)
(* thread may look it up, see the consumer stopped and started anew, and   *)
(* only then remove its offset, from the dropped door and through the new  *)
(* Kafka consumer.  The door is modelled in the mode Kafka uses            *)
(* (CommitPerMessage = false).  The broker is external: a log with gaps    *)
(* (compaction, transaction markers), a committed offset and a group that  *)
(* may revoke the partition and give it back.                              *)
(***************************************************************************)
EXTENDS Integers, FiniteSets

CONSTANTS Log,                \* offsets of the partition that hold a message
          Poison,             \* null-valued messages the message builder rejects
          FullLoadThreshold,  \* ConsumerConfig.FullLoadThreshold
          MaxRebalances,      \* bound: times the partition is revoked and returned
          MaxRestarts,        \* bound: Stop or crash of the process
          MaxCommitFailures   \* bound: broker commits that fail

ASSUME LogAssumption == Log \subseteq Nat /\ Poison \subseteq Log
ASSUME ThresholdAssumption == FullLoadThreshold \in Nat
ASSUME BoundsAssumption == /\ MaxRebalances \in Nat
                           /\ MaxRestarts \in Nat
                           /\ MaxCommitFailures \in Nat

VARIABLES
    \* the broker (external)
    committed,              \* next offset a new owner of the partition reads
    position,               \* next offset this consumer reads
    \* the consumer
    running,                \* ConsumerTask # null
    hasDoor,                \* SlidingDoors holds a door for the partition
    \* the doors: the one made after the n-th restart is number n
    Offsets, RemovedMessageOffsets, ConsumedOffset, LastCommittedOffset, LastOffset,
    \* the processors
    inFlight,               \* copies of each message being processed here
    finishing,              \* threads that have looked a door up to remove an offset
    handled,                \* offsets whose processing has come to an end somewhere
    \* history
    late,                   \* since Start, a dropped door has been used
    \* bounds
    rebalances, restarts, commitFailures

door == <<Offsets, RemovedMessageOffsets, ConsumedOffset, LastCommittedOffset, LastOffset>>
bounds == <<rebalances, restarts, commitFailures>>
vars == <<committed, position, running, hasDoor, door, inFlight, finishing, handled, late, bounds>>

NoOffset == -1

\* The doors there can be.  SlidingDoors holds number restarts, if any; the
\* smaller ones are dropped.
Doors == 0..MaxRestarts

TypeOK ==
    /\ committed \in Nat
    /\ position \in Nat
    /\ running \in BOOLEAN
    /\ hasDoor \in BOOLEAN
    /\ Offsets \in [Doors -> SUBSET Log]
    /\ RemovedMessageOffsets \in [Doors -> SUBSET Log]
    /\ ConsumedOffset \in [Doors -> Nat \cup {NoOffset}]
    /\ LastCommittedOffset \in [Doors -> Nat \cup {NoOffset}]
    /\ LastOffset \in [Doors -> Log \cup {NoOffset}]
    /\ inFlight \in [Log -> Nat]
    /\ finishing \in [Doors -> [Log -> Nat]]
    /\ handled \subseteq Log
    /\ late \in BOOLEAN
    /\ rebalances \in Nat /\ restarts \in Doors /\ commitFailures \in Nat

-----------------------------------------------------------------------------
(* The door *)

\* A door as its constructor leaves it.
FreshDoor(d) ==
    /\ Offsets[d] = {}
    /\ RemovedMessageOffsets[d] = {}
    /\ ConsumedOffset[d] = NoOffset
    /\ LastCommittedOffset[d] = NoOffset
    /\ LastOffset[d] = NoOffset

\* Mutants: the count is off by one, either way.
MessageCountLess1 == Cardinality(Offsets[restarts]) - 1
MessageCountMore1 == Cardinality(Offsets[restarts]) + 1

\* What the door in SlidingDoors counts.
MessageCount == Cardinality(Offsets[restarts])

AddOffset(d, o) ==
    /\ Offsets' = [Offsets EXCEPT ![d] = @ \cup {o}]
    /\ LastOffset' = [LastOffset EXCEPT ![d] = o]
    /\ UNCHANGED <<RemovedMessageOffsets, ConsumedOffset, LastCommittedOffset>>

\* SortedSet.First().
First(S) == CHOOSE x \in S : \A y \in S : x <= y

\* Mutants: pending offsets are ignored; the last offset is not reached.
ConsumedIgnoringPending(d, rest) == LastOffset[d]
ConsumedShort(d, rest) == IF rest # {} THEN First(rest) - 1 ELSE LastOffset[d] - 1

\* How far the door is consumed once only the offsets in rest are pending.
ConsumedUpTo(d, rest) == IF rest # {} THEN First(rest) - 1 ELSE LastOffset[d]

\* The synchronous commit, through the Kafka consumer of the moment.  A failure
\* is logged and swallowed, and the door goes on as if it had succeeded.  While
\* the consumer is stopped, Commit throws on the disposed Kafka consumer, or
\* succeeds if Stop has not come that far.
CommitOffset(o) ==
    \/ /\ committed' = o + 1
       /\ UNCHANGED commitFailures
    \/ /\ commitFailures < MaxCommitFailures
       /\ commitFailures' = commitFailures + 1
       /\ UNCHANGED committed
    \/ /\ ~running
       /\ UNCHANGED <<committed, commitFailures>>

\* The tail of RemoveOffset: commit when the consumed offset has moved past
\* the last committed one.  TryRemoveBeforeKey finds a message to commit only
\* when the consumed offset itself is in the list of removed messages (it is
\* not when the log has a gap there); the door records it as committed anyway.
CommitIfConsumed(d, consumed, removed) ==
    IF consumed > LastCommittedOffset[d]
    THEN /\ LastCommittedOffset' = [LastCommittedOffset EXCEPT ![d] = consumed]
         /\ IF consumed \in removed
            THEN /\ RemovedMessageOffsets' =
                        [RemovedMessageOffsets EXCEPT ![d] = {x \in removed : x > consumed}]
                 /\ CommitOffset(consumed)
            ELSE /\ RemovedMessageOffsets' = [RemovedMessageOffsets EXCEPT ![d] = removed]
                 /\ UNCHANGED <<committed, commitFailures>>
    ELSE /\ RemovedMessageOffsets' = [RemovedMessageOffsets EXCEPT ![d] = removed]
         /\ UNCHANGED <<LastCommittedOffset, committed, commitFailures>>

\* Mutant: the exception comes before the offset is removed.
RemoveDuplicateTooEarly(d, o) ==
    /\ o \in Offsets[d] /\ o \in RemovedMessageOffsets[d]
    /\ UNCHANGED <<Offsets, RemovedMessageOffsets, ConsumedOffset, LastCommittedOffset,
                   committed, commitFailures>>

\* SortedList.Add throws on a key it holds: the offset has left Offsets and
\* nothing else happens.
RemoveDuplicate(d, o) ==
    /\ o \in Offsets[d] /\ o \in RemovedMessageOffsets[d]
    /\ Offsets' = [Offsets EXCEPT ![d] = @ \ {o}]
    /\ UNCHANGED <<RemovedMessageOffsets, ConsumedOffset, LastCommittedOffset,
                   committed, commitFailures>>

RemovePending(d, o) ==
    /\ o \in Offsets[d] /\ o \notin RemovedMessageOffsets[d]
    /\ Offsets' = [Offsets EXCEPT ![d] = @ \ {o}]
    /\ ConsumedOffset' = [ConsumedOffset EXCEPT ![d] = ConsumedUpTo(d, Offsets[d] \ {o})]
    /\ CommitIfConsumed(d, ConsumedUpTo(d, Offsets[d] \ {o}), RemovedMessageOffsets[d] \cup {o})

RemoveUnknown(d, o) ==
    /\ o \notin Offsets[d]
    /\ CommitIfConsumed(d, ConsumedOffset[d], RemovedMessageOffsets[d])
    /\ UNCHANGED <<Offsets, ConsumedOffset>>

RemoveOffset(d, o) ==
    /\ RemoveDuplicate(d, o) \/ RemovePending(d, o) \/ RemoveUnknown(d, o)
    /\ UNCHANGED LastOffset

-----------------------------------------------------------------------------
(* The consumer *)

Init ==
    /\ committed = 0 /\ position = 0
    /\ running = FALSE
    /\ hasDoor = FALSE
    /\ Offsets = [d \in Doors |-> {}]
    /\ RemovedMessageOffsets = [d \in Doors |-> {}]
    /\ ConsumedOffset = [d \in Doors |-> NoOffset]
    /\ LastCommittedOffset = [d \in Doors |-> NoOffset]
    /\ LastOffset = [d \in Doors |-> NoOffset]
    /\ inFlight = [o \in Log |-> 0]
    /\ finishing = [d \in Doors |-> [o \in Log |-> 0]]
    /\ handled = {}
    /\ late = FALSE
    /\ rebalances = 0 /\ restarts = 0 /\ commitFailures = 0

\* Mutant: reading starts anew at the beginning.
StartOver ==
    /\ ~running
    /\ running' = TRUE
    /\ position' = 0
    /\ late' = FALSE
    /\ UNCHANGED <<committed, hasDoor, door, inFlight, finishing, handled, bounds>>

\* A new Kafka consumer subscribes and reads on from the committed offset.
Start ==
    /\ ~running
    /\ running' = TRUE
    /\ position' = committed
    /\ late' = FALSE
    /\ UNCHANGED <<committed, hasDoor, door, inFlight, finishing, handled, bounds>>

\* One round of ReceiveMessages.  BlockIfFullLoad has let the thread through,
\* the broker delivers the next message, AddMessageOffset registers it (making
\* the door if need be) and OnMessageReceived hands it over.  When that throws,
\* the offset is finished at once, except for a null value: then it stays.
PollMessages(o) ==
    /\ running
    /\ MessageCount <= FullLoadThreshold
    /\ position <= o /\ \A x \in Log : position <= x => o <= x
    /\ position' = o + 1
    /\ hasDoor' = TRUE
    /\ AddOffset(restarts, o)
    /\ inFlight' = IF o \in Poison THEN inFlight ELSE [inFlight EXCEPT ![o] = @ + 1]
    /\ UNCHANGED <<committed, running, finishing, handled, late, bounds>>

\* A processor is done with a copy of the message (handled it, gave it up or
\* could not read it), calls CommitOffset and looks the door up.  Without a
\* door that throws.
FinishConsumingMessage(o) ==
    /\ inFlight[o] > 0
    /\ inFlight' = [inFlight EXCEPT ![o] = @ - 1]
    /\ handled' = handled \cup {o}
    /\ finishing' = IF hasDoor THEN [finishing EXCEPT ![restarts][o] = @ + 1] ELSE finishing
    /\ UNCHANGED <<committed, position, running, hasDoor, door, late, bounds>>

\* The thread removes the offset from the door it has found, which Stop may
\* have dropped meanwhile.
RemoveMessageOffset(d, o) ==
    /\ finishing[d][o] > 0
    /\ finishing' = [finishing EXCEPT ![d][o] = @ - 1]
    /\ RemoveOffset(d, o)
    /\ late' = (late \/ d # restarts)
    /\ UNCHANGED <<position, running, hasDoor, inFlight, handled, rebalances, restarts>>

\* Stop cancels the consumer thread and drops the doors.  The processors go on
\* with the messages, and the doors, they hold.
Stop ==
    /\ running
    /\ restarts < MaxRestarts
    /\ restarts' = restarts + 1
    /\ running' = FALSE
    /\ hasDoor' = FALSE
    /\ UNCHANGED <<committed, position, door, inFlight, finishing, handled, late,
                   rebalances, commitFailures>>

\* The process dies with everything it holds in memory.
Crash ==
    /\ restarts < MaxRestarts
    /\ restarts' = restarts + 1
    /\ running' = FALSE
    /\ hasDoor' = FALSE
    /\ inFlight' = [o \in Log |-> 0]
    /\ finishing' = [d \in Doors |-> [o \in Log |-> 0]]
    /\ Offsets' = [d \in Doors |-> {}]
    /\ RemovedMessageOffsets' = [d \in Doors |-> {}]
    /\ ConsumedOffset' = [d \in Doors |-> NoOffset]
    /\ LastCommittedOffset' = [d \in Doors |-> NoOffset]
    /\ LastOffset' = [d \in Doors |-> NoOffset]
    /\ UNCHANGED <<committed, position, handled, late, rebalances, commitFailures>>

\* The group revokes the partition and gives it back.  Another member may have
\* handled and committed messages up to c meanwhile.  KafkaConsumer installs no
\* rebalance handler: the door is kept as it is.
Rebalance(c) ==
    /\ running
    /\ rebalances < MaxRebalances
    /\ rebalances' = rebalances + 1
    /\ committed <= c
    /\ \A x \in Poison : x < committed \/ c <= x
    /\ handled' = handled \cup {o \in Log : o < c}
    /\ committed' = c
    /\ position' = c
    /\ UNCHANGED <<running, hasDoor, door, inFlight, finishing, late, restarts, commitFailures>>

Next ==
    \/ Start \/ Stop \/ Crash
    \/ \E o \in Log : PollMessages(o) \/ FinishConsumingMessage(o)
    \/ \E d \in Doors, o \in Log : RemoveMessageOffset(d, o)
    \/ \E c \in {committed} \cup {o + 1 : o \in Log} : Rebalance(c)

Spec == Init /\ [][Next]_vars

\* The consumer is started once and again after a stop, its thread keeps
\* polling, and every processor comes to an end (ConsumeMessage commits the
\* offset in its finally block).
Fairness ==
    /\ WF_vars(Start)
    /\ \A o \in Log : WF_vars(PollMessages(o)) /\ WF_vars(FinishConsumingMessage(o))
    /\ \A d \in Doors, o \in Log : WF_vars(RemoveMessageOffset(d, o))

FairSpec == Spec /\ Fairness

-----------------------------------------------------------------------------
(* Properties *)

\* At least once: whatever the broker would skip for the next owner of the
\* partition has been handled.  This is what the door is for: processors finish
\* out of order, the log has gaps, doors survive a rebalance, and a dropped one
\* may still commit.
SafeCommit == \A o \in Log : o < committed => o \in handled

\* Somebody will remove o from the door in use.
BeingProcessed(o) == inFlight[o] > 0 \/ finishing[restarts][o] > 0

\* No offset is stuck in the door: each pending one is being processed and will
\* be removed, so commits and the poll loop (BlockIfFullLoad) cannot stall on it.
\* Only a null-valued message that the builder rejects stays for good.
NoStuckOffset == \A o \in Offsets[restarts] : BeingProcessed(o) \/ o \in Poison

\* Nothing lags behind: once everything polled is finished, all of it is
\* committed, gaps and out-of-order ends notwithstanding.  Only a rejected
\* message holds back what follows it, and what precedes it if there is a gap
\* before it: the consumed offset then lies in the gap, where TryRemoveBeforeKey
\* finds nothing to commit.  Not so after a failed commit or a rebalance under a
\* live door (the door never repeats a commit), nor once a thread that had looked
\* a door up before Stop has used it after Start: its commit of an older offset
\* may come last.
DrainedCommitted ==
    (/\ running /\ rebalances = 0 /\ commitFailures = 0 /\ ~late
     /\ \A o \in Log : ~BeingProcessed(o))
        => \A o \in Log : o < position =>
               o < committed \/ \E p \in Poison : p < position /\ (p <= o \/ p - 1 \notin Log)

\* Back-pressure: without redelivery the process never holds more than one
\* message beyond the threshold.
LoadBounded ==
    (rebalances = 0 /\ restarts = 0)
        => Cardinality(Offsets[restarts] \cup {o \in Log : BeingProcessed(o)}) <= FullLoadThreshold + 1

\* The consumer never moves the group's committed offset backwards, restarts with
\* stale copies still in flight included: those find the new door or none.  Two
\* ways of moving it back remain, which cost redelivery and no message (SafeCommit):
\* a door kept over a rebalance, and a thread that looks a door up before Stop and
\* removes its offset after Start, through the new Kafka consumer.
CommitsAdvance == [][rebalances = 0 /\ ~late' => committed <= committed']_vars

-----------------------------------------------------------------------------
(* Why they hold: the invariants the proofs are built on *)

Accounted(d, o) == o \in handled \/ o \in Offsets[d]

\* A door that SlidingDoors does not hold yet is fresh, only a running consumer
\* has one, and a thread has found none but those.
DoorLifetime == /\ \A d \in Doors : d > restarts => FreshDoor(d)
                /\ ~hasDoor => FreshDoor(restarts)
                /\ hasDoor => running
                /\ \A d \in Doors, o \in Log :
                      finishing[d][o] > 0 => d < restarts \/ (d = restarts /\ hasDoor)

\* Nothing polled, and nothing below a pending offset of any door, dropped or
\* not, is ever forgotten.
PolledAccounted ==
    /\ \A o \in Log : running /\ o < position => Accounted(restarts, o)
    /\ \A d \in Doors, o \in Log : o <= LastOffset[d] => Accounted(d, o)
PendingAccounted == \A d \in Doors : \A x \in Offsets[d], o \in Log : o < x => Accounted(d, o)

\* The consumed offset never passes a message still being processed, and a thread
\* is past its message when it looks a door up.
ConsumedHandled == \A d \in Doors, o \in Log : o <= ConsumedOffset[d] => o \in handled
FinishingHandled == \A d \in Doors, o \in Log : finishing[d][o] > 0 => o \in handled

\* The inductive invariant behind SafeCommit and NoStuckOffset: commits are safe
\* because everything at or below the consumed offset is handled, which holds
\* because a door accounts for every offset below the ones it holds, although
\* a rebalance may have made it poll backwards and Stop may have dropped it.
DoorInv ==
    /\ DoorLifetime
    /\ PolledAccounted
    /\ PendingAccounted
    /\ ConsumedHandled
    /\ FinishingHandled
    /\ SafeCommit
    /\ NoStuckOffset

\* The inductive invariant behind CommitsAdvance: as long as the partition is
\* not taken away and no dropped door is used, the door only holds offsets
\* between the committed one and the consumer's position.
AdvanceInv ==
    /\ DoorLifetime
    /\ ConsumedOffset[restarts] <= LastCommittedOffset[restarts]
    /\ (running /\ rebalances = 0 /\ ~late) =>
          /\ committed <= position
          /\ \A x \in Offsets[restarts] \cup RemovedMessageOffsets[restarts] :
                 committed <= x /\ x < position

\* A gap in the log below the first pending offset.
GapBelowFirst ==
    \E x \in Offsets[restarts] : x - 1 \notin Log /\ \A y \in Offsets[restarts] : x <= y

\* The inductive invariant behind DrainedCommitted: the door knows every polled
\* offset that is not committed, as pending or as removed but not both, and it
\* has committed everything below the first pending one unless a gap lies there.
DrainInv ==
    /\ AdvanceInv
    /\ (running /\ rebalances = 0 /\ commitFailures = 0 /\ ~late) =>
          /\ Offsets[restarts] \cap RemovedMessageOffsets[restarts] = {}
          /\ \A o \in Log : committed <= o /\ o < position =>
                 o \in Offsets[restarts] \cup RemovedMessageOffsets[restarts]
          /\ hasDoor => position = LastOffset[restarts] + 1
          /\ LastCommittedOffset[restarts] < position
          /\ \A x \in Offsets[restarts] : LastCommittedOffset[restarts] < x
          /\ \A o \in Log : o < position /\ (\A x \in Offsets[restarts] : o < x) =>
                 o < committed \/ GapBelowFirst

\* The inductive invariant behind LoadBounded: while the partition is read once,
\* each message in work is the one copy of a pending offset.
LoadInv ==
    /\ AdvanceInv
    /\ restarts = 0 => ~late
    /\ (rebalances = 0 /\ restarts = 0) =>
          /\ IsFiniteSet(Offsets[restarts]) /\ Cardinality(Offsets[restarts]) <= FullLoadThreshold + 1
          /\ \A o \in Log : BeingProcessed(o) =>
                 /\ o \in Offsets[restarts]
                 /\ inFlight[o] + finishing[restarts][o] = 1

-----------------------------------------------------------------------------
\* Every message that is not rejected is handled in the end, stops and crashes, failed
\* commits and rebalances notwithstanding, as long as the rejected messages, which stay
\* in the door for good, are not more than the poll loop lets through: with one more
\* than FullLoadThreshold of them, BlockIfFullLoad never returns.
EventuallyHandled ==
    Cardinality(Poison) <= FullLoadThreshold => \A o \in Log \ Poison : <>(o \in handled)
=============================================================================
