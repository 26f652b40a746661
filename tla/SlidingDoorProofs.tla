------------------------- MODULE SlidingDoorProofs -------------------------
(***************************************************************************)
(* Proofs about SlidingDoor, for every log, threshold and bound.           *)
(***************************************************************************)
EXTENDS SlidingDoor, FiniteSetTheorems, NaturalsInduction, WellFoundedInduction, TLAPS

(* Every non-empty set of offsets has a first one, so SortedSet.First() on a
   non-empty set of pending offsets returns a member no larger than the rest. *)
LEMMA FirstIsLeast ==
    ASSUME NEW S \in SUBSET Nat, S # {}
    PROVE  /\ First(S) \in S
           /\ \A y \in S : First(S) <= y
  <1>1. \E x \in S : \A y \in S : <<y, x>> \notin OpToRel(<, Nat)
    BY NatLessThanWellFounded, WFMin
  <1>2. \A x, y \in Nat : <<y, x>> \notin OpToRel(<, Nat) => ~(y < x)
    BY Zenon DEF OpToRel
  <1>3. \E x \in S : \A y \in S : ~(y < x)
    BY <1>1, <1>2
  <1>4. \E x \in S : \A y \in S : x <= y
    BY <1>3
  <1> QED
    BY <1>4 DEF First

(* TypeOK is inductive: the door only ever holds offsets of the log, and the
   positions it computes stay natural numbers or "none". *)
LEMMA TypeInit == Init => TypeOK
  <1> SUFFICES ASSUME Init PROVE TypeOK
    OBVIOUS
  <1>1. /\ inFlight \in [Log -> Nat]
        /\ finishing \in [Doors -> [Log -> Nat]]
        /\ Offsets \in [Doors -> SUBSET Log] /\ RemovedMessageOffsets \in [Doors -> SUBSET Log]
        /\ ConsumedOffset \in [Doors -> Nat \cup {NoOffset}]
        /\ LastCommittedOffset \in [Doors -> Nat \cup {NoOffset}]
        /\ LastOffset \in [Doors -> Log \cup {NoOffset}]
    BY DEF Init
  <1>2. running \in BOOLEAN /\ hasDoor \in BOOLEAN /\ late \in BOOLEAN
    BY Zenon DEF Init
  <1>3. restarts \in Doors
    BY BoundsAssumption DEF Init, Doors
  <1> QED
    BY <1>1, <1>2, <1>3 DEF Init, TypeOK

LEMMA ConsumedType ==
    ASSUME TypeOK, NEW d \in Doors, NEW S \in SUBSET Log
    PROVE  ConsumedUpTo(d, S) \in Nat \cup {NoOffset}
  <1>1. CASE S = {}
    BY <1>1, LogAssumption DEF ConsumedUpTo, TypeOK, NoOffset
  <1>2. CASE S # {}
    <2>1. First(S) \in Nat
      BY <1>2, FirstIsLeast, LogAssumption
    <2> QED
      BY <1>2, <2>1 DEF ConsumedUpTo, NoOffset
  <1> QED
    BY <1>1, <1>2

LEMMA CommitType ==
    ASSUME TypeOK, NEW d \in Doors, NEW c \in Nat \cup {NoOffset}, NEW R \in SUBSET Log,
           CommitIfConsumed(d, c, R)
    PROVE  /\ committed' \in Nat
           /\ commitFailures' \in Nat
           /\ LastCommittedOffset' \in [Doors -> Nat \cup {NoOffset}]
           /\ RemovedMessageOffsets' \in [Doors -> SUBSET Log]
  <1>1. CASE c > LastCommittedOffset[d] /\ c \in R
    <2>1. c \in Nat
      BY <1>1, LogAssumption
    <2>2. /\ CommitOffset(c)
          /\ LastCommittedOffset' = [LastCommittedOffset EXCEPT ![d] = c]
          /\ RemovedMessageOffsets' = [RemovedMessageOffsets EXCEPT ![d] = {x \in R : x > c}]
      BY <1>1 DEF CommitIfConsumed
    <2>3. {x \in R : x > c} \in SUBSET Log
      OBVIOUS
    <2>4. committed' \in Nat /\ commitFailures' \in Nat
      BY <2>1, <2>2 DEF CommitOffset, TypeOK
    <2> QED
      BY <2>1, <2>2, <2>3, <2>4 DEF TypeOK
  <1>2. CASE c > LastCommittedOffset[d] /\ c \notin R
    BY <1>2 DEF CommitIfConsumed, TypeOK
  <1>3. CASE ~(c > LastCommittedOffset[d])
    BY <1>3 DEF CommitIfConsumed, TypeOK
  <1> QED
    BY <1>1, <1>2, <1>3

LEMMA RemoveType ==
    ASSUME TypeOK, NEW d \in Doors, NEW o \in Log, RemoveOffset(d, o)
    PROVE  /\ committed' \in Nat
           /\ commitFailures' \in Nat
           /\ Offsets' \in [Doors -> SUBSET Log]
           /\ RemovedMessageOffsets' \in [Doors -> SUBSET Log]
           /\ ConsumedOffset' \in [Doors -> Nat \cup {NoOffset}]
           /\ LastCommittedOffset' \in [Doors -> Nat \cup {NoOffset}]
           /\ LastOffset' \in [Doors -> Log \cup {NoOffset}]
  <1>1. LastOffset' \in [Doors -> Log \cup {NoOffset}]
    BY DEF RemoveOffset, TypeOK
  <1>2. CASE RemoveDuplicate(d, o)
    BY <1>1, <1>2 DEF RemoveDuplicate, TypeOK
  <1>3. CASE RemovePending(d, o)
    <2>1. ConsumedUpTo(d, Offsets[d] \ {o}) \in Nat \cup {NoOffset}
      BY ConsumedType DEF TypeOK
    <2>2. RemovedMessageOffsets[d] \cup {o} \in SUBSET Log
      BY DEF TypeOK
    <2>3. CommitIfConsumed(d, ConsumedUpTo(d, Offsets[d] \ {o}), RemovedMessageOffsets[d] \cup {o})
      BY <1>3 DEF RemovePending
    <2>4. Offsets' \in [Doors -> SUBSET Log] /\ ConsumedOffset' \in [Doors -> Nat \cup {NoOffset}]
      BY <1>3, <2>1 DEF RemovePending, TypeOK
    <2> QED
      BY <1>1, <2>1, <2>2, <2>3, <2>4, CommitType
  <1>4. CASE RemoveUnknown(d, o)
    <2>1. CommitIfConsumed(d, ConsumedOffset[d], RemovedMessageOffsets[d])
          /\ UNCHANGED <<Offsets, ConsumedOffset>>
      BY <1>4 DEF RemoveUnknown
    <2>2. ConsumedOffset[d] \in Nat \cup {NoOffset} /\ RemovedMessageOffsets[d] \in SUBSET Log
      BY DEF TypeOK
    <2>3. /\ committed' \in Nat /\ commitFailures' \in Nat
          /\ LastCommittedOffset' \in [Doors -> Nat \cup {NoOffset}]
          /\ RemovedMessageOffsets' \in [Doors -> SUBSET Log]
      BY <2>1, <2>2, CommitType
    <2> QED
      BY <1>1, <2>1, <2>3 DEF TypeOK
  <1> QED
    BY <1>2, <1>3, <1>4 DEF RemoveOffset

(* A removal leaves every other door alone. *)
LEMMA RemoveFrame ==
    ASSUME TypeOK, NEW d \in Doors, NEW o \in Log, RemoveOffset(d, o)
    PROVE  /\ Offsets' = [Offsets EXCEPT ![d] = @ \ {o}]
           /\ LastOffset' = LastOffset
           /\ \A e \in Doors : e # d =>
                 /\ RemovedMessageOffsets'[e] = RemovedMessageOffsets[e]
                 /\ ConsumedOffset'[e] = ConsumedOffset[e]
                 /\ LastCommittedOffset'[e] = LastCommittedOffset[e]
  <1>1. LastOffset' = LastOffset
    BY DEF RemoveOffset
  <1>2. CASE RemoveDuplicate(d, o)
    BY <1>1, <1>2 DEF RemoveDuplicate
  <1>3. CASE RemovePending(d, o)
    BY <1>1, <1>3 DEF RemovePending, CommitIfConsumed, TypeOK
  <1>4. CASE RemoveUnknown(d, o)
    BY <1>1, <1>4 DEF RemoveUnknown, CommitIfConsumed, TypeOK
  <1> QED
    BY <1>2, <1>3, <1>4 DEF RemoveOffset

LEMMA TypeStep == TypeOK /\ [Next]_vars => TypeOK'
  <1> SUFFICES ASSUME TypeOK, [Next]_vars
               PROVE  TypeOK'
    OBVIOUS
  <1>1. CASE Start
    <2>1. running' \in BOOLEAN /\ late' \in BOOLEAN
      BY <1>1, Zenon DEF Start
    <2> QED
      BY <1>1, <2>1 DEF Start, TypeOK, door, bounds
  <1>2. CASE Stop
    <2>1. running' \in BOOLEAN /\ hasDoor' \in BOOLEAN
      BY <1>2, Zenon DEF Stop
    <2>2. restarts' \in Doors
      BY <1>2, BoundsAssumption DEF Stop, TypeOK, Doors
    <2> QED
      BY <1>2, <2>1, <2>2 DEF Stop, TypeOK, door
  <1>3. CASE Crash
    <2>1. running' \in BOOLEAN /\ hasDoor' \in BOOLEAN
      BY <1>3, Zenon DEF Crash
    <2>2. restarts' \in Doors
      BY <1>3, BoundsAssumption DEF Crash, TypeOK, Doors
    <2>3. inFlight' \in [Log -> Nat] /\ finishing' \in [Doors -> [Log -> Nat]]
      BY <1>3 DEF Crash
    <2>4. /\ Offsets' \in [Doors -> SUBSET Log] /\ RemovedMessageOffsets' \in [Doors -> SUBSET Log]
          /\ ConsumedOffset' \in [Doors -> Nat \cup {NoOffset}]
          /\ LastCommittedOffset' \in [Doors -> Nat \cup {NoOffset}]
          /\ LastOffset' \in [Doors -> Log \cup {NoOffset}]
      BY <1>3 DEF Crash
    <2> QED
      BY <1>3, <2>1, <2>2, <2>3, <2>4 DEF Crash, TypeOK
  <1>4. ASSUME NEW o \in Log, PollMessages(o)
        PROVE  TypeOK'
    <2>1. hasDoor' \in BOOLEAN
      BY <1>4, Zenon DEF PollMessages
    <2> QED
      BY <1>4, <2>1, LogAssumption DEF PollMessages, AddOffset, TypeOK, bounds
  <1>5. ASSUME NEW o \in Log, FinishConsumingMessage(o)
        PROVE  TypeOK'
    <2>1. inFlight' \in [Log -> Nat]
      BY <1>5 DEF FinishConsumingMessage, TypeOK
    <2>2. finishing' \in [Doors -> [Log -> Nat]]
      BY <1>5 DEF FinishConsumingMessage, TypeOK
    <2> QED
      BY <1>5, <2>1, <2>2 DEF FinishConsumingMessage, TypeOK, door, bounds
  <1>6. ASSUME NEW d \in Doors, NEW o \in Log, RemoveMessageOffset(d, o)
        PROVE  TypeOK'
    <2>1. finishing' \in [Doors -> [Log -> Nat]]
      BY <1>6 DEF RemoveMessageOffset, TypeOK
    <2>2. late' \in BOOLEAN
      BY <1>6, Zenon DEF RemoveMessageOffset
    <2>3. RemoveOffset(d, o)
      BY <1>6 DEF RemoveMessageOffset
    <2> QED
      BY <1>6, <2>1, <2>2, <2>3, RemoveType DEF RemoveMessageOffset, TypeOK
  <1>7. ASSUME NEW c \in {committed} \cup {o + 1 : o \in Log}, Rebalance(c)
        PROVE  TypeOK'
    <2>1. c \in Nat
      BY <1>7, LogAssumption DEF TypeOK
    <2> QED
      BY <1>7, <2>1 DEF Rebalance, TypeOK, door
  <1>8. CASE UNCHANGED vars
    BY <1>8 DEF vars, door, bounds, TypeOK
  <1> QED
    BY <1>1, <1>2, <1>3, <1>4, <1>5, <1>6, <1>7, <1>8 DEF Next

(* The door and the consumer keep their types whatever the broker and the
   processors do. *)
THEOREM TypeCorrect == Spec => []TypeOK
  BY TypeInit, TypeStep, PTL DEF Spec

-----------------------------------------------------------------------------

LEMMA LifetimeInit == Init => DoorLifetime
  <1> SUFFICES ASSUME Init PROVE DoorLifetime
    OBVIOUS
  <1>1. 0 \in Doors
    BY BoundsAssumption DEF Doors
  <1>2. /\ \A d \in Doors : FreshDoor(d)
        /\ \A d \in Doors, o \in Log : finishing[d][o] = 0
    BY DEF Init, FreshDoor
  <1> QED
    BY <1>1, <1>2 DEF DoorLifetime, Init

(* Doors are made by the poll loop alone and dropped by Stop; a thread holds none
   that has not been made. *)
LEMMA LifetimeStep == TypeOK /\ DoorLifetime /\ [Next]_vars => DoorLifetime'
  <1> SUFFICES ASSUME TypeOK, DoorLifetime, [Next]_vars
               PROVE  DoorLifetime'
    OBVIOUS
  <1>0. restarts \in Doors
    BY DEF TypeOK
  <1>1. CASE Start
    <2>1. UNCHANGED <<hasDoor, door, finishing, restarts>> /\ running'
      BY <1>1 DEF Start, bounds
    <2> QED
      BY <2>1 DEF DoorLifetime, FreshDoor, door
  <1>2. CASE Stop
    <2>1. /\ UNCHANGED <<door, finishing>>
          /\ restarts' = restarts + 1 /\ restarts' \in Doors
      BY <1>2, BoundsAssumption DEF Stop, TypeOK, Doors
    <2>2. ~running' /\ ~hasDoor'
      BY <1>2 DEF Stop
    <2>3. /\ restarts' > restarts
          /\ \A d \in Doors : d > restarts' => d > restarts
          /\ \A d \in Doors : d <= restarts => d < restarts'
      BY <1>0, <2>1 DEF Doors
    <2>4. FreshDoor(restarts')
      BY <2>1, <2>3 DEF DoorLifetime
    <2>5. \A d \in Doors : d > restarts' => FreshDoor(d)
      BY <2>3 DEF DoorLifetime
    <2>6. \A d \in Doors, o \in Log : finishing[d][o] > 0 => d < restarts'
      BY <1>0, <2>3 DEF DoorLifetime, Doors
    <2> QED
      BY <2>1, <2>2, <2>4, <2>5, <2>6 DEF DoorLifetime, FreshDoor, door
  <1>3. CASE Crash
    <2>1. /\ restarts' \in Doors
          /\ \A d \in Doors : FreshDoor(d)'
          /\ \A d \in Doors, o \in Log : finishing'[d][o] = 0
      BY <1>3, BoundsAssumption DEF Crash, TypeOK, Doors, FreshDoor
    <2>2. ~running' /\ ~hasDoor'
      BY <1>3 DEF Crash
    <2>3. ~(0 > 0)
      OBVIOUS
    <2>4. FreshDoor(restarts)'
      BY <2>1 DEF FreshDoor
    <2> QED
      BY <2>1, <2>2, <2>3, <2>4 DEF DoorLifetime
  <1>4. ASSUME NEW o \in Log, PollMessages(o)
        PROVE  DoorLifetime'
    <2>1. /\ running' /\ hasDoor' /\ UNCHANGED <<restarts, finishing>>
      BY <1>4 DEF PollMessages, bounds
    <2>2. ASSUME NEW d \in Doors, d > restarts PROVE FreshDoor(d)'
      <3>1. d # restarts /\ FreshDoor(d)
        BY <1>0, <2>2 DEF DoorLifetime, Doors
      <3> QED
        BY <1>4, <3>1 DEF FreshDoor, PollMessages, AddOffset, TypeOK
    <2> QED
      BY <2>1, <2>2 DEF DoorLifetime
  <1>5. ASSUME NEW o \in Log, FinishConsumingMessage(o)
        PROVE  DoorLifetime'
    <2>1. UNCHANGED <<running, hasDoor, door, restarts>>
      BY <1>5 DEF FinishConsumingMessage, bounds
    <2>2. ASSUME NEW d \in Doors, NEW p \in Log, finishing'[d][p] > 0
          PROVE  d < restarts \/ (d = restarts /\ hasDoor)
      <3>1. finishing[d][p] > 0 \/ (hasDoor /\ d = restarts)
        BY <1>0, <1>5, <2>2 DEF FinishConsumingMessage, TypeOK
      <3> QED
        BY <3>1 DEF DoorLifetime
    <2> QED
      BY <2>1, <2>2 DEF DoorLifetime, FreshDoor, door
  <1>6. ASSUME NEW d \in Doors, NEW o \in Log, RemoveMessageOffset(d, o)
        PROVE  DoorLifetime'
    <2>1. /\ UNCHANGED <<running, hasDoor, restarts>> /\ RemoveOffset(d, o) /\ finishing[d][o] > 0
      BY <1>6 DEF RemoveMessageOffset
    <2>2. \A e \in Doors, p \in Log : finishing'[e][p] > 0 => finishing[e][p] > 0
      BY <1>6 DEF RemoveMessageOffset, TypeOK
    <2>3. d < restarts \/ (d = restarts /\ hasDoor)
      BY <2>1 DEF DoorLifetime
    <2>4. \A e \in Doors : e # d /\ FreshDoor(e) => FreshDoor(e)'
      BY <2>1, RemoveFrame DEF FreshDoor, TypeOK
    <2>5. \A e \in Doors : e > restarts => e # d
      BY <1>0, <2>3 DEF Doors
    <2>6. ~hasDoor => restarts # d
      BY <1>0, <2>3 DEF Doors
    <2> QED
      BY <1>0, <2>1, <2>2, <2>4, <2>5, <2>6 DEF DoorLifetime, FreshDoor
  <1>7. ASSUME NEW c \in {committed} \cup {o + 1 : o \in Log}, Rebalance(c)
        PROVE  DoorLifetime'
    BY <1>7 DEF Rebalance, door, DoorLifetime, FreshDoor
  <1>8. CASE UNCHANGED vars
    BY <1>8 DEF vars, door, bounds, DoorLifetime, FreshDoor
  <1> QED
    BY <1>1, <1>2, <1>3, <1>4, <1>5, <1>6, <1>7, <1>8 DEF Next

LEMMA DoorInvInit == Init => DoorInv
  <1> SUFFICES ASSUME Init PROVE DoorInv
    OBVIOUS
  <1>0. 0 \in Doors
    BY BoundsAssumption DEF Doors
  <1>1. /\ \A d \in Doors : FreshDoor(d)
        /\ \A d \in Doors, o \in Log : finishing[d][o] = 0
    BY DEF Init, FreshDoor
  <1>2. \A o \in Log : ~(o <= NoOffset) /\ ~(o < 0)
    BY LogAssumption DEF NoOffset
  <1>3. ConsumedHandled /\ FinishingHandled /\ PendingAccounted
    BY <1>1, <1>2 DEF FreshDoor, ConsumedHandled, FinishingHandled, PendingAccounted
  <1>4. PolledAccounted
    BY <1>1, <1>2 DEF FreshDoor, PolledAccounted, Init
  <1>5. DoorLifetime /\ SafeCommit /\ NoStuckOffset
    BY <1>0, <1>1, <1>2, LifetimeInit DEF FreshDoor, SafeCommit, NoStuckOffset, Init
  <1> QED
    BY <1>3, <1>4, <1>5 DEF DoorInv

(* Everything at or below the offset the door computes as consumed is handled,
   once the message o just removed counts as handled. *)
LEMMA ConsumedUpToHandled ==
    ASSUME TypeOK, NEW d \in Doors, DoorInv, NEW o \in Offsets[d], NEW p \in Log,
           p <= ConsumedUpTo(d, Offsets[d] \ {o})
    PROVE  p \in handled \cup {o}
  <1>1. CASE Offsets[d] \ {o} = {}
    BY <1>1 DEF ConsumedUpTo, DoorInv, PolledAccounted, Accounted
  <1>2. CASE Offsets[d] \ {o} # {}
    <2> DEFINE f == First(Offsets[d] \ {o})
    <2>1. f \in Offsets[d] \ {o} /\ \A y \in Offsets[d] \ {o} : f <= y
      BY <1>2, FirstIsLeast, LogAssumption DEF TypeOK
    <2>0. f \in Nat /\ p \in Nat
      BY <2>1, LogAssumption DEF TypeOK
    <2>2. p < f
      <3>1. ConsumedUpTo(d, Offsets[d] \ {o}) = f - 1
        BY <1>2 DEF ConsumedUpTo
      <3> HIDE DEF f
      <3> QED
        BY <2>0, <3>1
    <2>3. p \in handled \/ p \in Offsets[d]
      BY <2>1, <2>2 DEF DoorInv, PendingAccounted, Accounted
    <2>4. p \notin Offsets[d] \ {o}
      <3> HIDE DEF f
      <3> QED
        BY <2>0, <2>1, <2>2
    <2> QED
      BY <2>3, <2>4
  <1> QED
    BY <1>1, <1>2

(* A commit is safe when everything at or below the consumed offset is. *)
LEMMA CommitSafe ==
    ASSUME TypeOK, NEW d \in Doors, SafeCommit, NEW c \in Nat \cup {NoOffset}, NEW R \in SUBSET Log,
           CommitIfConsumed(d, c, R), NEW p \in Log, p < committed'
    PROVE  p \in handled \/ p <= c
  <1>1. committed' = committed \/ (c \in Nat /\ committed' = c + 1)
    BY LogAssumption DEF CommitIfConsumed, CommitOffset
  <1> QED
    BY <1>1, LogAssumption DEF SafeCommit

LEMMA RemoveSafe ==
    ASSUME TypeOK, NEW d \in Doors, DoorInv, NEW o \in Log, RemoveOffset(d, o), NEW p \in Log
    PROVE  /\ p < committed' => p \in handled \cup {o}
           /\ p <= ConsumedOffset'[d] => p \in handled \cup {o}
  <1>1. CASE RemoveDuplicate(d, o)
    BY <1>1 DEF RemoveDuplicate, DoorInv, SafeCommit, ConsumedHandled
  <1>2. CASE RemovePending(d, o)
    <2> DEFINE c == ConsumedUpTo(d, Offsets[d] \ {o})
    <2>1. c \in Nat \cup {NoOffset}
      BY ConsumedType DEF TypeOK
    <2>2. RemovedMessageOffsets[d] \cup {o} \in SUBSET Log
      BY DEF TypeOK
    <2>3. p <= c => p \in handled \cup {o}
      BY <1>2, ConsumedUpToHandled DEF RemovePending
    <2>4. p < committed' => p \in handled \/ p <= c
      BY <1>2, <2>1, <2>2, CommitSafe DEF RemovePending, DoorInv
    <2>5. ConsumedOffset'[d] = c
      BY <1>2 DEF RemovePending, TypeOK
    <2> QED
      BY <2>3, <2>4, <2>5
  <1>3. CASE RemoveUnknown(d, o)
    <2>1. ConsumedOffset[d] \in Nat \cup {NoOffset} /\ RemovedMessageOffsets[d] \in SUBSET Log
      BY DEF TypeOK
    <2>2. p < committed' => p \in handled \/ p <= ConsumedOffset[d]
      BY <1>3, <2>1, CommitSafe DEF RemoveUnknown, DoorInv
    <2> QED
      BY <1>3, <2>2 DEF RemoveUnknown, DoorInv, ConsumedHandled
  <1> QED
    BY <1>1, <1>2, <1>3 DEF RemoveOffset

LEMMA DoorInvPoll ==
    ASSUME TypeOK, DoorInv, NEW o \in Log, PollMessages(o)
    PROVE  DoorInv'
  <1>0. restarts \in Doors
    BY DEF TypeOK
  <1>1. /\ running /\ running' /\ hasDoor' /\ position' = o + 1 /\ restarts' = restarts
        /\ handled' = handled /\ committed' = committed /\ ConsumedOffset' = ConsumedOffset
        /\ finishing' = finishing
        /\ LastOffset'[restarts] = o
        /\ Offsets'[restarts] = Offsets[restarts] \cup {o}
        /\ \A d \in Doors : d # restarts => Offsets'[d] = Offsets[d] /\ LastOffset'[d] = LastOffset[d]
    BY <1>0 DEF PollMessages, AddOffset, TypeOK, bounds
  <1>2. \A p \in Log : p < o => p < position
    BY LogAssumption DEF PollMessages, TypeOK
  <1>3. \A p \in Log : p <= o => Accounted(restarts, p)'
    BY <1>1, <1>2, LogAssumption DEF DoorInv, PolledAccounted, Accounted
  <1>4. DoorLifetime'
    BY LifetimeStep DEF DoorInv, Next
  <1>5. \A d \in Doors, p \in Log : Accounted(d, p) => Accounted(d, p)'
    BY <1>1 DEF Accounted
  <1>6. PolledAccounted'
    <2>1. \A p \in Log : p < o + 1 => p <= o
      BY LogAssumption
    <2>2. ASSUME NEW d \in Doors, NEW p \in Log, p <= LastOffset'[d] PROVE Accounted(d, p)'
      BY <1>1, <1>3, <1>5, <2>2 DEF DoorInv, PolledAccounted
    <2> QED
      BY <1>1, <1>3, <2>1, <2>2 DEF PolledAccounted
  <1>7. PendingAccounted'
    <2> SUFFICES ASSUME NEW d \in Doors, NEW x \in Offsets'[d], NEW p \in Log, p < x
                 PROVE  Accounted(d, p)'
      BY DEF PendingAccounted
    <2>1. CASE x \in Offsets[d]
      BY <1>5, <2>1 DEF DoorInv, PendingAccounted
    <2>2. CASE x \notin Offsets[d]
      <3>1. d = restarts /\ x = o
        BY <1>1, <2>2
      <3>2. p <= o
        BY <3>1, LogAssumption
      <3> QED
        BY <1>1, <1>3, <3>1, <3>2 DEF Accounted
    <2> QED
      BY <2>1, <2>2
  <1>8. ConsumedHandled' /\ FinishingHandled' /\ SafeCommit'
    BY <1>1 DEF DoorInv, ConsumedHandled, FinishingHandled, SafeCommit
  <1>9. NoStuckOffset'
    BY <1>1 DEF PollMessages, NoStuckOffset, BeingProcessed, DoorInv, TypeOK
  <1> QED
    BY <1>4, <1>6, <1>7, <1>8, <1>9 DEF DoorInv

LEMMA DoorInvFinish ==
    ASSUME TypeOK, DoorInv, NEW o \in Log, FinishConsumingMessage(o)
    PROVE  DoorInv'
  <1>0. restarts \in Doors
    BY DEF TypeOK
  <1>1. /\ UNCHANGED <<running, hasDoor, position, committed, door, restarts>>
        /\ handled' = handled \cup {o}
        /\ inFlight' = [inFlight EXCEPT ![o] = @ - 1]
    BY DEF FinishConsumingMessage, bounds
  <1>2. DoorLifetime'
    BY LifetimeStep DEF DoorInv, Next
  <1>3. PolledAccounted' /\ PendingAccounted' /\ ConsumedHandled' /\ SafeCommit'
    BY <1>1 DEF door, DoorInv, PolledAccounted, PendingAccounted, Accounted, ConsumedHandled, SafeCommit
  <1>4. FinishingHandled'
    BY <1>0, <1>1 DEF FinishConsumingMessage, DoorInv, FinishingHandled, TypeOK
  <1>5. NoStuckOffset'
    <2>1. CASE hasDoor
      BY <1>0, <1>1, <2>1 DEF FinishConsumingMessage, door, DoorInv, NoStuckOffset, BeingProcessed, TypeOK
    <2>2. CASE ~hasDoor
      BY <1>1, <2>2 DEF door, DoorInv, DoorLifetime, FreshDoor, NoStuckOffset
    <2> QED
      BY <2>1, <2>2
  <1> QED
    BY <1>2, <1>3, <1>4, <1>5 DEF DoorInv

LEMMA DoorInvRemove ==
    ASSUME TypeOK, DoorInv, NEW d \in Doors, NEW o \in Log, RemoveMessageOffset(d, o)
    PROVE  DoorInv'
  <1>0. restarts \in Doors
    BY DEF TypeOK
  <1>1. /\ UNCHANGED <<running, hasDoor, position, handled, inFlight, restarts>>
        /\ finishing' = [finishing EXCEPT ![d][o] = @ - 1]
        /\ RemoveOffset(d, o) /\ finishing[d][o] > 0
    BY DEF RemoveMessageOffset
  <1>2. o \in handled
    BY <1>1 DEF DoorInv, FinishingHandled
  <1>3. /\ Offsets' = [Offsets EXCEPT ![d] = @ \ {o}] /\ LastOffset' = LastOffset
        /\ \A e \in Doors : e # d =>
              /\ RemovedMessageOffsets'[e] = RemovedMessageOffsets[e]
              /\ ConsumedOffset'[e] = ConsumedOffset[e]
              /\ LastCommittedOffset'[e] = LastCommittedOffset[e]
    BY <1>1, RemoveFrame
  <1>4. \A e \in Doors, p \in Log : Accounted(e, p) => Accounted(e, p)'
    BY <1>1, <1>2, <1>3 DEF Accounted, TypeOK
  <1>6. DoorLifetime'
    BY LifetimeStep DEF DoorInv, Next
  <1>7. PolledAccounted'
    BY <1>0, <1>1, <1>3, <1>4 DEF PolledAccounted, DoorInv
  <1>8. PendingAccounted'
    BY <1>3, <1>4 DEF PendingAccounted, DoorInv, TypeOK
  <1>9. ConsumedHandled'
    <2> SUFFICES ASSUME NEW e \in Doors, NEW p \in Log, p <= ConsumedOffset'[e] PROVE p \in handled
      BY <1>1 DEF ConsumedHandled
    <2>1. CASE e = d
      BY <1>1, <1>2, <2>1, RemoveSafe
    <2>2. CASE e # d
      BY <1>3, <2>2 DEF DoorInv, ConsumedHandled
    <2> QED
      BY <2>1, <2>2
  <1>10. SafeCommit'
    BY <1>1, <1>2, RemoveSafe DEF SafeCommit
  <1>11. FinishingHandled'
    BY <1>1 DEF FinishingHandled, DoorInv, TypeOK
  <1>12. NoStuckOffset'
    <2> SUFFICES ASSUME NEW p \in Offsets'[restarts], p \notin Poison
                 PROVE  BeingProcessed(p)'
      BY <1>1 DEF NoStuckOffset
    <2>1. p \in Offsets[restarts] /\ ~(d = restarts /\ p = o) /\ p \in Log
      BY <1>0, <1>3 DEF TypeOK
    <2>2. inFlight[p] > 0 \/ finishing[restarts][p] > 0
      BY <2>1 DEF DoorInv, NoStuckOffset, BeingProcessed
    <2>3. finishing'[restarts][p] = finishing[restarts][p]
      BY <1>0, <1>1, <2>1 DEF TypeOK
    <2> QED
      BY <1>1, <2>2, <2>3 DEF BeingProcessed
  <1> QED
    BY <1>6, <1>7, <1>8, <1>9, <1>10, <1>11, <1>12 DEF DoorInv

LEMMA DoorInvStep == TypeOK /\ DoorInv /\ [Next]_vars => DoorInv'
  <1> SUFFICES ASSUME TypeOK, DoorInv, [Next]_vars
               PROVE  DoorInv'
    OBVIOUS
  <1>0. restarts \in Doors
    BY DEF TypeOK
  <1>a. DoorLifetime'
    BY LifetimeStep DEF DoorInv
  <1>1. CASE Start
    <2>1. /\ UNCHANGED <<committed, hasDoor, door, inFlight, finishing, handled, restarts>>
          /\ ~running /\ position' = committed
      BY <1>1 DEF Start, bounds
    <2> QED
      BY <1>a, <2>1 DEF DoorInv, PolledAccounted, PendingAccounted, Accounted, ConsumedHandled, FinishingHandled,
         SafeCommit, NoStuckOffset, BeingProcessed, door
  <1>2. CASE Stop
    <2>1. /\ UNCHANGED <<committed, door, inFlight, finishing, handled>>
          /\ restarts' = restarts + 1 /\ restarts' \in Doors
      BY <1>2, BoundsAssumption DEF Stop, TypeOK, Doors
    <2>2. ~running' /\ ~hasDoor'
      BY <1>2 DEF Stop
    <2>3. restarts' > restarts /\ \A d \in Doors : d > restarts' => d > restarts
      BY <1>0, <2>1 DEF Doors
    <2>4. FreshDoor(restarts')
      BY <2>1, <2>3 DEF DoorInv, DoorLifetime
    <2>5. NoStuckOffset'
      BY <2>1, <2>4 DEF FreshDoor, NoStuckOffset, door
    <2> QED
      BY <1>a, <2>1, <2>2, <2>5 DEF DoorInv, PolledAccounted, PendingAccounted, Accounted, ConsumedHandled,
         FinishingHandled, SafeCommit, door
  <1>3. CASE Crash
    <2>1. /\ UNCHANGED <<committed, handled>>
          /\ restarts' \in Doors
          /\ \A d \in Doors : FreshDoor(d)'
          /\ \A d \in Doors, o \in Log : finishing'[d][o] = 0
      BY <1>3, BoundsAssumption DEF Crash, TypeOK, Doors, FreshDoor
    <2>2. ~running' /\ ~hasDoor'
      BY <1>3 DEF Crash
    <2>3. \A o \in Log : ~(o <= NoOffset)
      BY LogAssumption DEF NoOffset
    <2> QED
      BY <1>a, <2>1, <2>2, <2>3 DEF DoorInv, FreshDoor, PolledAccounted, PendingAccounted, ConsumedHandled,
         FinishingHandled, SafeCommit, NoStuckOffset
  <1>4. ASSUME NEW o \in Log, PollMessages(o)
        PROVE  DoorInv'
    BY <1>4, DoorInvPoll
  <1>5. ASSUME NEW o \in Log, FinishConsumingMessage(o)
        PROVE  DoorInv'
    BY <1>5, DoorInvFinish
  <1>6. ASSUME NEW d \in Doors, NEW o \in Log, RemoveMessageOffset(d, o)
        PROVE  DoorInv'
    BY <1>6, DoorInvRemove
  <1>7. ASSUME NEW c \in {committed} \cup {o + 1 : o \in Log}, Rebalance(c)
        PROVE  DoorInv'
    BY <1>a, <1>7 DEF Rebalance, door, DoorInv, PolledAccounted, PendingAccounted,
       Accounted, ConsumedHandled, FinishingHandled, SafeCommit, NoStuckOffset, BeingProcessed
  <1>8. CASE UNCHANGED vars
    BY <1>a, <1>8 DEF vars, door, bounds, DoorInv, PolledAccounted, PendingAccounted,
       Accounted, ConsumedHandled, FinishingHandled, SafeCommit, NoStuckOffset, BeingProcessed
  <1> QED
    BY <1>1, <1>2, <1>3, <1>4, <1>5, <1>6, <1>7, <1>8 DEF Next

(* The consumer never makes the broker skip a message that has not been handled,
   for every log, every order in which the processors finish, and any number of
   rebalances, restarts and failed commits. *)
THEOREM CommitIsSafe == Spec => []SafeCommit
  <1>1. DoorInv => SafeCommit
    BY DEF DoorInv
  <1> QED
    BY <1>1, TypeInit, TypeStep, DoorInvInit, DoorInvStep, PTL DEF Spec

(* Every offset pending in the door belongs to a message being processed, so
   commits and back-pressure never wait for an offset nobody will remove, null
   values that the builder rejects apart. *)
THEOREM OffsetsAreReleased == Spec => []NoStuckOffset
  <1>1. DoorInv => NoStuckOffset
    BY DEF DoorInv
  <1> QED
    BY <1>1, TypeInit, TypeStep, DoorInvInit, DoorInvStep, PTL DEF Spec

-----------------------------------------------------------------------------

LEMMA AdvanceInvInit == Init => AdvanceInv
  <1> SUFFICES ASSUME Init PROVE AdvanceInv
    OBVIOUS
  <1>1. DoorLifetime
    BY LifetimeInit
  <1>2. 0 \in Doors
    BY BoundsAssumption DEF Doors
  <1> QED
    BY <1>1, <1>2 DEF Init, AdvanceInv, NoOffset

LEMMA CommitEffect ==
    ASSUME TypeOK, NEW d \in Doors, NEW c, NEW R \in SUBSET Log, CommitIfConsumed(d, c, R)
    PROVE  \/ committed' = committed /\ RemovedMessageOffsets'[d] \subseteq R
           \/ c \in R /\ committed' = c + 1 /\ RemovedMessageOffsets'[d] = {x \in R : x > c}
  <1>1. CASE c > LastCommittedOffset[d] /\ c \in R
    <2>1. RemovedMessageOffsets'[d] = {x \in R : x > c} /\ CommitOffset(c)
      BY <1>1 DEF CommitIfConsumed, TypeOK
    <2> QED
      BY <1>1, <2>1 DEF CommitOffset
  <1>2. CASE ~(c > LastCommittedOffset[d] /\ c \in R)
    BY <1>2 DEF CommitIfConsumed, TypeOK
  <1> QED
    BY <1>1, <1>2

(* What a removal does to the committed offset and to the offsets the door
   holds, as long as all of these lie between committed and position. *)
LEMMA RemoveAdvances ==
    ASSUME TypeOK, NEW d \in Doors, NEW o \in Log, RemoveOffset(d, o),
           ConsumedOffset[d] <= LastCommittedOffset[d], committed <= position,
           \A x \in Offsets[d] \cup RemovedMessageOffsets[d] : committed <= x /\ x < position
    PROVE  /\ committed <= committed'
           /\ committed' <= position
           /\ \A x \in Offsets'[d] \cup RemovedMessageOffsets'[d] : committed' <= x /\ x < position
  <1>1. CASE RemoveDuplicate(d, o)
    BY <1>1, LogAssumption DEF RemoveDuplicate, TypeOK
  <1>2. CASE RemovePending(d, o)
    <2> DEFINE c == ConsumedUpTo(d, Offsets[d] \ {o})
               R == RemovedMessageOffsets[d] \cup {o}
    <2>1. \A x \in (Offsets[d] \ {o}) \cup R : committed <= x /\ x < position
      BY <1>2 DEF RemovePending
    <2>2. Offsets'[d] = Offsets[d] \ {o} /\ CommitIfConsumed(d, c, R)
      BY <1>2 DEF RemovePending, TypeOK
    <2>3. (committed' = committed /\ RemovedMessageOffsets'[d] \subseteq R)
          \/ (c \in R /\ committed' = c + 1 /\ RemovedMessageOffsets'[d] = {x \in R : x > c})
      <3>1. R \in SUBSET Log
        BY DEF TypeOK
      <3> HIDE DEF c, R
      <3> QED
        BY <2>2, <3>1, CommitEffect
    <2>4. \A x \in Offsets[d] \ {o} : x > c
      <3>1. SUFFICES ASSUME NEW x \in Offsets[d] \ {o} PROVE x > c
        OBVIOUS
      <3>2. First(Offsets[d] \ {o}) \in Nat /\ First(Offsets[d] \ {o}) <= x /\ x \in Nat
        BY FirstIsLeast, LogAssumption DEF TypeOK
      <3>3. c = First(Offsets[d] \ {o}) - 1
        BY DEF ConsumedUpTo
      <3> HIDE DEF c
      <3> QED
        BY <3>2, <3>3
    <2>5. /\ R \subseteq Nat /\ Offsets[d] \subseteq Nat
          /\ committed \in Nat /\ position \in Nat
      BY LogAssumption DEF TypeOK
    <2> HIDE DEF c, R
    <2>6. CASE committed' = committed /\ RemovedMessageOffsets'[d] \subseteq R
      BY <2>1, <2>2, <2>5, <2>6
    <2>7. CASE c \in R /\ committed' = c + 1 /\ RemovedMessageOffsets'[d] = {x \in R : x > c}
      <3>1. c \in Nat /\ committed <= c /\ c < position
        BY <2>1, <2>5, <2>7
      <3>2. \A x \in Offsets'[d] \cup RemovedMessageOffsets'[d] : x \in Nat /\ x > c /\ x < position
        BY <2>1, <2>2, <2>4, <2>5, <2>7
      <3> QED
        BY <2>5, <2>7, <3>1, <3>2
    <2> QED
      BY <2>3, <2>6, <2>7
  <1>3. CASE RemoveUnknown(d, o)
    <2>1. ~(ConsumedOffset[d] > LastCommittedOffset[d])
      BY LogAssumption DEF TypeOK, NoOffset
    <2> QED
      BY <1>3, <2>1 DEF RemoveUnknown, CommitIfConsumed, TypeOK
  <1> QED
    BY <1>1, <1>2, <1>3 DEF RemoveOffset

LEMMA RemoveKeepsConsumed ==
    ASSUME TypeOK, NEW d \in Doors, NEW o \in Log, RemoveOffset(d, o),
           ConsumedOffset[d] <= LastCommittedOffset[d]
    PROVE  ConsumedOffset'[d] <= LastCommittedOffset'[d]
  <1>1. CASE RemoveDuplicate(d, o)
    BY <1>1 DEF RemoveDuplicate
  <1>2. CASE RemovePending(d, o)
    <2>1. ConsumedUpTo(d, Offsets[d] \ {o}) \in Int /\ LastCommittedOffset[d] \in Int
      BY ConsumedType DEF TypeOK, NoOffset
    <2>2. ConsumedOffset'[d] = ConsumedUpTo(d, Offsets[d] \ {o})
      BY <1>2 DEF RemovePending, TypeOK
    <2>3. \/ LastCommittedOffset'[d] = ConsumedUpTo(d, Offsets[d] \ {o})
          \/ ~(ConsumedUpTo(d, Offsets[d] \ {o}) > LastCommittedOffset[d])
             /\ LastCommittedOffset'[d] = LastCommittedOffset[d]
      BY <1>2 DEF RemovePending, CommitIfConsumed, TypeOK
    <2> QED
      BY <2>1, <2>2, <2>3
  <1>3. CASE RemoveUnknown(d, o)
    BY <1>3 DEF RemoveUnknown, CommitIfConsumed, TypeOK, NoOffset
  <1> QED
    BY <1>1, <1>2, <1>3 DEF RemoveOffset

(* One step keeps the invariant and does not move the committed offset back. *)
LEMMA AdvanceStep ==
    TypeOK /\ AdvanceInv /\ [Next]_vars
        => AdvanceInv' /\ (rebalances = 0 /\ ~late' => committed <= committed')
  <1> SUFFICES ASSUME TypeOK, AdvanceInv, [Next]_vars
               PROVE  AdvanceInv' /\ (rebalances = 0 /\ ~late' => committed <= committed')
    OBVIOUS
  <1>0. restarts \in Doors /\ committed \in Nat
    BY DEF TypeOK
  <1>a. DoorLifetime'
    BY LifetimeStep DEF AdvanceInv
  <1>1. CASE Start
    <2>1. /\ UNCHANGED <<committed, hasDoor, door, restarts, rebalances>>
          /\ ~running /\ position' = committed
      BY <1>1 DEF Start, bounds
    <2>2. FreshDoor(restarts)
      BY <2>1 DEF AdvanceInv, DoorLifetime
    <2> QED
      BY <1>0, <1>a, <2>1, <2>2 DEF AdvanceInv, FreshDoor, door
  <1>2. CASE Stop \/ Crash
    <2>1. ~running' /\ ~hasDoor' /\ committed' = committed
      BY <1>2 DEF Stop, Crash
    <2>2. FreshDoor(restarts)'
      BY <1>a, <2>1 DEF DoorLifetime
    <2> QED
      BY <1>0, <1>a, <2>1, <2>2 DEF AdvanceInv, FreshDoor, NoOffset
  <1>3. ASSUME NEW o \in Log, PollMessages(o)
        PROVE  AdvanceInv' /\ committed <= committed'
    <2>1. /\ UNCHANGED <<running, committed, restarts, rebalances, late, ConsumedOffset,
                         LastCommittedOffset, RemovedMessageOffsets>>
          /\ Offsets'[restarts] = Offsets[restarts] \cup {o}
          /\ position' = o + 1 /\ position <= o
      BY <1>0, <1>3 DEF PollMessages, AddOffset, TypeOK, bounds
    <2>2. /\ Offsets[restarts] \subseteq Nat /\ RemovedMessageOffsets[restarts] \subseteq Nat
          /\ position \in Nat /\ o \in Nat
      BY <1>0, LogAssumption DEF TypeOK
    <2> QED
      BY <1>0, <1>a, <2>1, <2>2 DEF AdvanceInv
  <1>4. ASSUME NEW o \in Log, FinishConsumingMessage(o)
        PROVE  AdvanceInv' /\ committed <= committed'
    BY <1>0, <1>4, <1>a DEF FinishConsumingMessage, door, bounds, AdvanceInv
  <1>5. ASSUME NEW d \in Doors, NEW o \in Log, RemoveMessageOffset(d, o)
        PROVE  AdvanceInv' /\ (rebalances = 0 /\ ~late' => committed <= committed')
    <2>1. UNCHANGED <<running, position, rebalances, restarts>> /\ RemoveOffset(d, o)
          /\ finishing[d][o] > 0
      BY <1>5 DEF RemoveMessageOffset
    <2>2. CASE d # restarts
      <3>1. late'
        BY <1>5, <2>2 DEF RemoveMessageOffset
      <3>2. ConsumedOffset'[restarts] = ConsumedOffset[restarts]
            /\ LastCommittedOffset'[restarts] = LastCommittedOffset[restarts]
        BY <1>0, <2>1, <2>2, RemoveFrame
      <3> QED
        BY <1>a, <2>1, <3>1, <3>2 DEF AdvanceInv
    <2>3. CASE d = restarts
      <3>1. running
        BY <1>0, <2>1, <2>3 DEF AdvanceInv, DoorLifetime, Doors
      <3>2. ConsumedOffset'[restarts] <= LastCommittedOffset'[restarts]
        BY <2>1, <2>3, RemoveKeepsConsumed DEF AdvanceInv
      <3>3. late' <=> late
        BY <1>5, <2>3 DEF RemoveMessageOffset
      <3>4. CASE rebalances = 0 /\ ~late
        <4>1. /\ ConsumedOffset[d] <= LastCommittedOffset[d] /\ committed <= position
              /\ \A x \in Offsets[d] \cup RemovedMessageOffsets[d] : committed <= x /\ x < position
          BY <2>3, <3>1, <3>4 DEF AdvanceInv
        <4>2. /\ committed <= committed'
              /\ committed' <= position
              /\ \A x \in Offsets'[d] \cup RemovedMessageOffsets'[d] : committed' <= x /\ x < position
          BY <2>1, <4>1, RemoveAdvances
        <4> QED
          BY <1>a, <2>1, <2>3, <3>2, <4>2 DEF AdvanceInv
      <3>5. CASE ~(rebalances = 0 /\ ~late)
        BY <1>a, <2>1, <3>2, <3>3, <3>5 DEF AdvanceInv
      <3> QED
        BY <3>4, <3>5
    <2> QED
      BY <2>2, <2>3
  <1>6. ASSUME NEW c \in {committed} \cup {o + 1 : o \in Log}, Rebalance(c)
        PROVE  AdvanceInv' /\ committed <= committed'
    <2>1. rebalances' # 0
      BY <1>6 DEF Rebalance, TypeOK
    <2> QED
      BY <1>6, <1>a, <2>1 DEF Rebalance, door, AdvanceInv
  <1>7. CASE UNCHANGED vars
    BY <1>0, <1>7, <1>a DEF vars, door, bounds, AdvanceInv
  <1> QED
    BY <1>1, <1>2, <1>3, <1>4, <1>5, <1>6, <1>7 DEF Next

(* Without a rebalance, and until a dropped door is used, the group's committed
   offset never moves backwards, whatever copies of messages a stopped consumer
   has left in flight. *)
THEOREM CommitsOnlyAdvance == Spec => CommitsAdvance
  <1>1. TypeOK /\ AdvanceInv /\ [Next]_vars => [rebalances = 0 /\ ~late' => committed <= committed']_vars
    BY AdvanceStep
  <1>2. TypeOK /\ AdvanceInv /\ [Next]_vars => AdvanceInv'
    BY AdvanceStep
  <1> QED
    BY <1>1, <1>2, TypeInit, TypeStep, AdvanceInvInit, PTL DEF Spec, CommitsAdvance

-----------------------------------------------------------------------------

(* What DrainInv says of a door that has seen neither a rebalance nor a failed
   commit nor the use of a dropped one. *)
Draining ==
    /\ Offsets[restarts] \cap RemovedMessageOffsets[restarts] = {}
    /\ \A o \in Log : committed <= o /\ o < position => o \in Offsets[restarts] \cup RemovedMessageOffsets[restarts]
    /\ hasDoor => position = LastOffset[restarts] + 1
    /\ LastCommittedOffset[restarts] < position /\ \A x \in Offsets[restarts] : LastCommittedOffset[restarts] < x
    /\ \A o \in Log : o < position /\ (\A x \in Offsets[restarts] : o < x) => o < committed \/ GapBelowFirst

LEMMA DrainInvParts ==
    DrainInv <=> AdvanceInv /\ (running /\ rebalances = 0 /\ commitFailures = 0 /\ ~late => Draining)
  BY DEF DrainInv, Draining

(* The commit of a removal whose consumed offset is c, past the last committed
   one: the broker is told c + 1, and the door forgets what lies below. *)
LEMMA CommitHappens ==
    ASSUME TypeOK, NEW d \in Doors, NEW c \in Nat, NEW R \in SUBSET Log, CommitIfConsumed(d, c, R),
           c > LastCommittedOffset[d], c \in R, commitFailures' = 0, running
    PROVE  /\ committed' = c + 1
           /\ RemovedMessageOffsets'[d] = {x \in R : x > c}
           /\ LastCommittedOffset'[d] = c
  BY DEF CommitIfConsumed, CommitOffset, TypeOK

(* Removing the only pending offset commits everything polled. *)
LEMMA DrainLast ==
    ASSUME TypeOK, AdvanceInv, Draining, hasDoor, running, rebalances = 0, ~late,
           NEW o \in Log, RemovePending(restarts, o), commitFailures' = 0,
           UNCHANGED <<position, hasDoor, LastOffset, restarts>>, Offsets[restarts] \ {o} = {}
    PROVE  Draining'
  <1>0. restarts \in Doors
    BY DEF TypeOK
  <1> DEFINE R == RemovedMessageOffsets[restarts] \cup {o}
  <1>1. Offsets[restarts] = {o} /\ Offsets'[restarts] = {} /\ o \notin RemovedMessageOffsets[restarts]
    BY <1>0 DEF RemovePending, TypeOK
  <1>2. /\ position = LastOffset[restarts] + 1 /\ committed <= o /\ o < position
        /\ LastCommittedOffset[restarts] < o /\ o \in Nat /\ committed \in Nat /\ position \in Nat
    BY <1>1, LogAssumption DEF AdvanceInv, Draining, TypeOK
  <1>3. LastOffset[restarts] \in Log /\ LastOffset[restarts] \in Nat
    <2>1. LastOffset[restarts] \in Log \cup {NoOffset}
      BY <1>0 DEF TypeOK
    <2>2. LastOffset[restarts] # -1
      BY <1>2
    <2>3. LastOffset[restarts] \in Log
      BY <2>1, <2>2 DEF NoOffset
    <2> QED
      BY <2>3, LogAssumption
  <1>4. ConsumedUpTo(restarts, Offsets[restarts] \ {o}) = LastOffset[restarts]
    BY DEF ConsumedUpTo
  <1>5. CommitIfConsumed(restarts, LastOffset[restarts], R)
    BY <1>4 DEF RemovePending
  <1>6. LastOffset[restarts] \in R
    BY <1>1, <1>2, <1>3 DEF Draining
  <1>7. LastOffset[restarts] > LastCommittedOffset[restarts]
    BY <1>2, <1>3 DEF TypeOK, NoOffset
  <1>8. R \in SUBSET Log
    BY DEF TypeOK
  <1>9. committed' = LastOffset[restarts] + 1 /\ LastCommittedOffset'[restarts] = LastOffset[restarts]
    BY <1>0, <1>3, <1>5, <1>6, <1>7, <1>8, CommitHappens
  <1> QED
    BY <1>1, <1>2, <1>3, <1>9, LogAssumption DEF Draining

(* So does, up to the next pending one, the removal of the first of several,
   unless the offset before the next is in a gap. *)
LEMMA DrainFirst ==
    ASSUME TypeOK, AdvanceInv, Draining, hasDoor, running, rebalances = 0, ~late,
           NEW o \in Log, RemovePending(restarts, o), commitFailures' = 0,
           UNCHANGED <<position, hasDoor, LastOffset, restarts>>, Offsets[restarts] \ {o} # {}
    PROVE  Draining'
  <1>0. restarts \in Doors
    BY DEF TypeOK
  <1> DEFINE rest == Offsets[restarts] \ {o}
             f == First(rest)
             c == ConsumedUpTo(restarts, rest)
             R == RemovedMessageOffsets[restarts] \cup {o}
  <1>1. f \in rest /\ \A y \in rest : f <= y
    BY FirstIsLeast, LogAssumption DEF TypeOK
  <1>2. /\ Offsets[restarts] \subseteq Nat /\ RemovedMessageOffsets[restarts] \subseteq Nat /\ f \in Nat /\ o \in Nat
        /\ committed \in Nat /\ position \in Nat /\ LastCommittedOffset[restarts] \in Int
    <2>1. f \in Nat
      BY <1>1, LogAssumption DEF TypeOK
    <2> HIDE DEF f
    <2> QED
      <3>1. /\ Offsets[restarts] \in SUBSET Log /\ RemovedMessageOffsets[restarts] \in SUBSET Log
            /\ LastCommittedOffset[restarts] \in Nat \cup {NoOffset}
        BY <1>0 DEF TypeOK
      <3>2. committed \in Nat /\ position \in Nat
        BY DEF TypeOK
      <3>3. Offsets[restarts] \subseteq Nat /\ RemovedMessageOffsets[restarts] \subseteq Nat /\ o \in Nat
        BY <3>1, LogAssumption
      <3>4. LastCommittedOffset[restarts] \in Int
        BY <3>1 DEF NoOffset
      <3> QED
        BY <2>1, <3>2, <3>3, <3>4
  <1>3. c = f - 1 /\ c \in Nat \cup {NoOffset}
    BY ConsumedType DEF ConsumedUpTo, TypeOK
  <1>4. o \in Offsets[restarts] /\ o \notin RemovedMessageOffsets[restarts] /\ Offsets'[restarts] = rest 
        /\ CommitIfConsumed(restarts, c, R)
    BY <1>0 DEF RemovePending, TypeOK
  <1>5. R \in SUBSET Log /\ rest \cap R = {}
    BY <1>4 DEF TypeOK, Draining
  <1>6. \A x \in Offsets[restarts] : committed <= x /\ x < position /\ LastCommittedOffset[restarts] < x
    BY DEF AdvanceInv, Draining
  <1>7. /\ \A p \in Log : committed <= p /\ p < position => p \in rest \cup R
        /\ hasDoor => position = LastOffset[restarts] + 1
        /\ LastCommittedOffset[restarts] < position
    BY DEF Draining
  <1>8. \A p \in Log : p < position /\ (\A x \in Offsets[restarts] : p < x) => p < committed \/ GapBelowFirst
    BY DEF Draining
  <1>9. GapBelowFirst' <=> f - 1 \notin Log
    <2>1. \A x \in rest : (\A y \in rest : x <= y) => x = f
      BY <1>1, <1>2
    <2> QED
      BY <1>1, <1>4, <2>1 DEF GapBelowFirst
  <1>10. \A p \in Log : (\A x \in rest : p < x) <=> p < f
    BY <1>1, <1>2, LogAssumption
  <1> HIDE DEF f, c, R, rest
  <1>11. CASE c > LastCommittedOffset[restarts] /\ c \in R
    <2>1. c \in Nat
      BY <1>5, <1>11, LogAssumption
    <2>2. committed' = c + 1 /\ RemovedMessageOffsets'[restarts] = {x \in R : x > c} /\ LastCommittedOffset'[restarts] = c
      BY <1>0, <1>4, <1>5, <1>11, <2>1, CommitHappens
    <2>3. committed' = f
      BY <1>2, <1>3, <2>2
    <2>4. LastCommittedOffset'[restarts] < position /\ \A x \in rest : LastCommittedOffset'[restarts] < x
      <3>1. \A x \in rest : x \in Nat
        BY <1>2 DEF rest
      <3>2. f < position
        BY <1>1, <1>6 DEF rest
      <3> QED
        BY <1>1, <1>2, <1>3, <2>2, <3>1, <3>2
    <2>5. \A p \in Log : committed' <= p /\ p < position => p \in rest \cup RemovedMessageOffsets'[restarts]
      <3>1. committed <= f
        BY <1>1, <1>6 DEF rest
      <3> QED
        BY <1>2, <1>3, <1>7, <2>2, <2>3, <3>1, LogAssumption
    <2> QED
      BY <1>4, <1>5, <1>7, <1>10, <2>2, <2>3, <2>4, <2>5 DEF Draining
  <1>12. CASE ~(c > LastCommittedOffset[restarts] /\ c \in R)
    <2>1. committed' = committed /\ RemovedMessageOffsets'[restarts] = R
          /\ LastCommittedOffset'[restarts] \in {LastCommittedOffset[restarts], c}
      BY <1>0, <1>4, <1>12 DEF CommitIfConsumed, TypeOK
    <2>2. LastCommittedOffset'[restarts] < position /\ \A x \in rest : LastCommittedOffset'[restarts] < x
      <3>1. \A x \in rest : x \in Nat /\ LastCommittedOffset[restarts] < x
        BY <1>2, <1>6 DEF rest
      <3>2. f < position
        BY <1>1, <1>6 DEF rest
      <3>3. c < position /\ \A x \in rest : c < x
        BY <1>1, <1>2, <1>3, <3>1, <3>2
      <3>4. CASE LastCommittedOffset'[restarts] = c
        BY <3>3, <3>4
      <3>5. CASE LastCommittedOffset'[restarts] = LastCommittedOffset[restarts]
        BY <1>7, <3>1, <3>5
      <3> QED
        BY <2>1, <3>4, <3>5
    <2>3. ASSUME NEW p \in Log, p < f PROVE p < committed \/ f - 1 \notin Log
      <3>0. p \in Nat
        BY LogAssumption
      <3>1. CASE o < f
        <4>1. c > LastCommittedOffset[restarts]
          BY <1>2, <1>3, <1>4, <1>6, <3>1
        <4>2. c \notin R
          BY <1>12, <4>1
        <4>3. c \notin rest
          BY <1>1, <1>2, <1>3
        <4>4. f < position
          BY <1>1, <1>6 DEF rest
        <4>5. CASE f - 1 \in Log
          <5>1. ~(committed <= c)
            BY <1>2, <1>3, <1>7, <4>2, <4>3, <4>4, <4>5
          <5> QED
            BY <1>2, <1>3, <2>3, <3>0, <5>1
        <4> QED
          BY <4>5
      <3>2. CASE f < o
        <4>1. \A x \in Offsets[restarts] : f <= x
          BY <1>1, <1>2, <3>2 DEF rest
        <4>2. \A x \in Offsets[restarts] : p < x
          BY <1>2, <2>3, <3>0, <4>1
        <4>3. p < position
          BY <1>2, <1>4, <1>6, <3>0, <4>2
        <4>4. f \in Offsets[restarts]
          BY <1>1 DEF rest
        <4>5. GapBelowFirst => f - 1 \notin Log
          <5>1. ASSUME NEW x \in Offsets[restarts], \A y \in Offsets[restarts] : x <= y PROVE x = f
            BY <1>2, <4>1, <4>4, <5>1
          <5> QED
            BY <5>1 DEF GapBelowFirst
        <4> QED
          BY <1>8, <4>2, <4>3, <4>5
      <3>3. o # f
        BY <1>1 DEF rest
      <3> QED
        BY <1>2, <3>1, <3>2, <3>3
    <2> QED
      BY <1>4, <1>5, <1>7, <1>9, <1>10, <2>1, <2>2, <2>3 DEF Draining
  <1> QED
    BY <1>11, <1>12

LEMMA DrainPoll ==
    ASSUME TypeOK, AdvanceInv, Draining, running, rebalances = 0, ~late, NEW o \in Log, PollMessages(o)
    PROVE  Draining'
  <1>0. restarts \in Doors /\ restarts' = restarts
    BY DEF TypeOK, PollMessages, bounds
  <1>1. /\ Offsets'[restarts] = Offsets[restarts] \cup {o} /\ LastOffset'[restarts] = o
        /\ position' = o + 1 /\ committed' = committed
        /\ RemovedMessageOffsets'[restarts] = RemovedMessageOffsets[restarts]
        /\ LastCommittedOffset'[restarts] = LastCommittedOffset[restarts]
    BY <1>0 DEF PollMessages, AddOffset, TypeOK
  <1>2. /\ position <= o /\ (\A p \in Log : p < o => p < position)
        /\ Log \subseteq Nat /\ position \in Nat /\ committed \in Nat /\ LastCommittedOffset[restarts] \in Int
    BY LogAssumption DEF PollMessages, TypeOK, NoOffset
  <1>3. \A x \in Offsets[restarts] \cup RemovedMessageOffsets[restarts] : x \in Log /\ x < position
    BY DEF AdvanceInv, TypeOK
  <1>4. o \notin RemovedMessageOffsets[restarts]
    BY <1>2, <1>3
  <1>5. Offsets'[restarts] \cap RemovedMessageOffsets'[restarts] = {}
    BY <1>1, <1>4 DEF Draining
  <1>6. \A p \in Log : committed' <= p /\ p < position' => p \in Offsets'[restarts] \cup RemovedMessageOffsets'[restarts]
    <2> SUFFICES ASSUME NEW p \in Log, committed <= p, p < o + 1
                 PROVE  p \in Offsets[restarts] \cup {o} \cup RemovedMessageOffsets[restarts]
      BY <1>1
    <2>1. p = o \/ p < position
      BY <1>2
    <2> QED
      BY <2>1 DEF Draining
  <1>7. LastCommittedOffset'[restarts] < position' /\ \A x \in Offsets'[restarts] : LastCommittedOffset'[restarts] < x
    BY <1>1, <1>2 DEF Draining
  <1>8. \A p \in Log : p < position' /\ (\A x \in Offsets'[restarts] : p < x) => p < committed' \/ GapBelowFirst'
    <2> SUFFICES ASSUME NEW p \in Log, \A x \in Offsets[restarts] \cup {o} : p < x
                 PROVE  p < committed \/ GapBelowFirst'
      BY <1>1
    <2>1. p < committed \/ GapBelowFirst
      BY <1>2 DEF Draining
    <2>2. GapBelowFirst => GapBelowFirst'
      <3> SUFFICES ASSUME NEW x \in Offsets[restarts], x - 1 \notin Log, \A y \in Offsets[restarts] : x <= y
                   PROVE  x \in Offsets'[restarts] /\ \A y \in Offsets'[restarts] : x <= y
        BY <1>0 DEF GapBelowFirst
      <3>1. x < position /\ x \in Nat /\ o \in Nat
        BY <1>2, <1>3
      <3>2. x <= o
        BY <1>2, <3>1
      <3>3. \A y \in Offsets[restarts] \cup {o} : x <= y
        BY <3>2
      <3> QED
        BY <1>1, <3>3
    <2> QED
      BY <2>1, <2>2
  <1> QED
    BY <1>0, <1>1, <1>5, <1>6, <1>7, <1>8 DEF Draining

LEMMA DrainRemove ==
    ASSUME TypeOK, AdvanceInv, Draining, running, rebalances = 0, ~late,
           NEW o \in Log, RemoveMessageOffset(restarts, o), commitFailures' = 0
    PROVE  Draining'
  <1>0. UNCHANGED <<position, hasDoor, restarts>> /\ restarts \in Doors /\ RemoveOffset(restarts, o)
        /\ finishing[restarts][o] > 0
    BY DEF RemoveMessageOffset, TypeOK
  <1>1. hasDoor
    BY <1>0 DEF AdvanceInv, DoorLifetime, Doors
  <1>2. CASE o \in Offsets[restarts]
    <2>1. RemovePending(restarts, o) /\ UNCHANGED LastOffset
      BY <1>0, <1>2 DEF RemoveOffset, RemoveDuplicate, RemoveUnknown, Draining
    <2> QED
      BY <1>0, <1>1, <2>1, DrainLast, DrainFirst
  <1>3. CASE o \notin Offsets[restarts]
    <2>1. RemoveUnknown(restarts, o) /\ UNCHANGED LastOffset
      BY <1>0, <1>3 DEF RemoveOffset, RemoveDuplicate, RemovePending
    <2>2. ~(ConsumedOffset[restarts] > LastCommittedOffset[restarts])
      BY <1>0 DEF AdvanceInv, TypeOK, NoOffset
    <2>3. UNCHANGED <<Offsets, LastCommittedOffset, committed>>
          /\ RemovedMessageOffsets'[restarts] = RemovedMessageOffsets[restarts]
      BY <1>0, <2>1, <2>2 DEF RemoveUnknown, CommitIfConsumed, TypeOK
    <2> QED
      BY <1>0, <2>1, <2>3 DEF Draining, GapBelowFirst
  <1> QED
    BY <1>2, <1>3

LEMMA DrainStep == TypeOK /\ DrainInv /\ [Next]_vars => DrainInv'
  <1> SUFFICES ASSUME TypeOK, AdvanceInv,
                      running /\ rebalances = 0 /\ commitFailures = 0 /\ ~late => Draining,
                      [Next]_vars
               PROVE  AdvanceInv' /\ ((running /\ rebalances = 0 /\ commitFailures = 0 /\ ~late)' => Draining')
    BY DrainInvParts DEF DrainInv, Draining
  <1>0. AdvanceInv'
    BY AdvanceStep
  <1> SUFFICES ASSUME running', rebalances' = 0, commitFailures' = 0, ~late'
               PROVE  Draining'
    BY <1>0
  <1>1. CASE Start
    <2>1. /\ UNCHANGED <<committed, hasDoor, door, restarts>>
          /\ ~running /\ position' = committed
      BY <1>1 DEF Start, bounds
    <2>2. FreshDoor(restarts) /\ ~hasDoor
      BY <2>1 DEF AdvanceInv, DoorLifetime
    <2>3. committed \in Nat /\ Log \subseteq Nat
      BY LogAssumption DEF TypeOK
    <2> QED
      BY <2>1, <2>2, <2>3 DEF FreshDoor, Draining, NoOffset, door
  <1>2. CASE Stop \/ Crash
    BY <1>2 DEF Stop, Crash
  <1>3. ASSUME NEW o \in Log, PollMessages(o)
        PROVE  Draining'
    BY <1>3, DrainPoll DEF PollMessages, bounds
  <1>4. ASSUME NEW o \in Log, FinishConsumingMessage(o)
        PROVE  Draining'
    BY <1>4 DEF FinishConsumingMessage, door, bounds, Draining, GapBelowFirst
  <1>5. ASSUME NEW d \in Doors, NEW o \in Log, RemoveMessageOffset(d, o)
        PROVE  Draining'
    <2>1. running /\ rebalances = 0 /\ ~late /\ d = restarts
      BY <1>5 DEF RemoveMessageOffset
    <2>2. commitFailures = 0
      BY <1>5 DEF RemoveMessageOffset, RemoveOffset, RemoveDuplicate, RemovePending, RemoveUnknown,
                  CommitIfConsumed, CommitOffset, TypeOK
    <2> QED
      BY <1>5, <2>1, <2>2, DrainRemove
  <1>6. ASSUME NEW c \in {committed} \cup {o + 1 : o \in Log}, Rebalance(c)
        PROVE  FALSE
    BY <1>6 DEF Rebalance, TypeOK
  <1>7. CASE UNCHANGED vars
    BY <1>7 DEF vars, door, bounds, Draining, GapBelowFirst
  <1> QED
    BY <1>1, <1>2, <1>3, <1>4, <1>5, <1>6, <1>7 DEF Next

(* When all that was polled is finished, all of it is committed, for every log,
   every order of ends and any number of restarts, unless a rejected message holds
   it back or a dropped door has been used. *)
THEOREM DrainedIsCommitted == Spec => []DrainedCommitted
  <1>1. Init => DrainInv
    BY AdvanceInvInit DEF Init, DrainInv
  <1>2. TypeOK /\ DoorInv /\ DrainInv => DrainedCommitted
    <2> SUFFICES ASSUME TypeOK, NoStuckOffset, AdvanceInv, Draining, running, rebalances = 0, ~late,
                        \A o \in Log : ~BeingProcessed(o), NEW o \in Log, o < position
                 PROVE  o < committed \/ \E p \in Poison : p < position /\ (p <= o \/ p - 1 \notin Log)
      BY DrainInvParts DEF DoorInv, DrainedCommitted
    <2>0. restarts \in Doors
      BY DEF TypeOK
    <2>1. \A x \in Offsets[restarts] : x \in Poison /\ x < position /\ x \in Nat
      BY <2>0, LogAssumption DEF NoStuckOffset, AdvanceInv, TypeOK
    <2>2. CASE \A x \in Offsets[restarts] : o < x
      BY <2>1, <2>2 DEF Draining, GapBelowFirst
    <2>3. CASE \E x \in Offsets[restarts] : ~(o < x)
      BY <2>1, <2>3, LogAssumption
    <2> QED
      BY <2>2, <2>3
  <1> QED
    BY <1>1, <1>2, TypeInit, TypeStep, DoorInvInit, DoorInvStep, DrainStep, PTL DEF Spec

-----------------------------------------------------------------------------

(* The part of LoadInv on a partition that is read once. *)
Loaded ==
    /\ IsFiniteSet(Offsets[restarts]) /\ Cardinality(Offsets[restarts]) <= FullLoadThreshold + 1
    /\ \A o \in Log : BeingProcessed(o) => o \in Offsets[restarts] /\ inFlight[o] + finishing[restarts][o] = 1

LEMMA LoadStep == TypeOK /\ LoadInv /\ [Next]_vars => LoadInv'
  <1> SUFFICES ASSUME TypeOK, AdvanceInv, restarts = 0 => ~late,
                      rebalances = 0 /\ restarts = 0 => Loaded, [Next]_vars
               PROVE  AdvanceInv' /\ (restarts' = 0 => ~late')
                      /\ ((rebalances = 0 /\ restarts = 0)' => Loaded')
    BY DEF LoadInv, Loaded
  <1>0. AdvanceInv'
    BY AdvanceStep
  <1>a. restarts' = 0 => restarts = 0
    BY DEF Next, vars, bounds, Start, Stop, Crash, PollMessages, FinishConsumingMessage, RemoveMessageOffset,
           Rebalance, TypeOK, Doors
  <1>b. restarts' = 0 => ~late'
    <2>1. ASSUME NEW d \in Doors, NEW o \in Log, RemoveMessageOffset(d, o), restarts' = 0 PROVE ~late'
      <3>1. restarts = 0 /\ finishing[d][o] > 0
        BY <2>1 DEF RemoveMessageOffset
      <3>2. d = restarts
        BY <3>1 DEF AdvanceInv, DoorLifetime, Doors
      <3> QED
        BY <2>1, <3>1, <3>2 DEF RemoveMessageOffset
    <2>2. CASE Start
      BY <2>2 DEF Start
    <2>3. CASE ~Start /\ ~\E d \in Doors, o \in Log : RemoveMessageOffset(d, o)
      <3>1. late' = late
        BY <2>3 DEF Next, vars, Stop, Crash, PollMessages, FinishConsumingMessage, Rebalance
      <3> QED
        BY <1>a, <3>1
    <2> QED
      BY <2>1, <2>2, <2>3
  <1> SUFFICES ASSUME rebalances' = 0, restarts' = 0
               PROVE  Loaded'
    BY <1>0, <1>b
  <1>c. restarts = 0 /\ restarts \in Doors /\ ~late /\ restarts' = restarts
    BY <1>a DEF TypeOK
  <1>1. CASE Start
    BY <1>1 DEF Start, door, bounds, Loaded, BeingProcessed
  <1>2. CASE Stop \/ Crash
    BY <1>2 DEF Stop, Crash, TypeOK, Doors
  <1>3. ASSUME NEW o \in Log, PollMessages(o)
        PROVE  Loaded'
    <2>1. /\ Loaded /\ Offsets'[restarts] = Offsets[restarts] \cup {o} /\ finishing' = finishing
          /\ Cardinality(Offsets[restarts]) <= FullLoadThreshold
      BY <1>3, <1>c DEF PollMessages, AddOffset, MessageCount, bounds, TypeOK
    <2>2. o \notin Offsets[restarts]
      BY <1>3, <1>c, LogAssumption DEF PollMessages, AdvanceInv, TypeOK, bounds
    <2>3. IsFiniteSet(Offsets'[restarts]) /\ Cardinality(Offsets'[restarts]) = Cardinality(Offsets[restarts]) + 1
          /\ Cardinality(Offsets[restarts]) \in Nat
      BY <2>1, <2>2, FS_AddElement, FS_CardinalityType DEF Loaded
    <2>4. ASSUME NEW p \in Log, BeingProcessed(p)'
          PROVE  p \in Offsets'[restarts] /\ inFlight'[p] + finishing'[restarts][p] = 1
      <3>1. inFlight[p] \in Nat /\ finishing[restarts][p] \in Nat /\ inFlight[o] \in Nat
            /\ finishing[restarts][o] \in Nat
        BY <1>c DEF TypeOK
      <3>2. inFlight[o] = 0 /\ finishing[restarts][o] = 0
        BY <2>1, <2>2, <3>1 DEF Loaded, BeingProcessed
      <3>3. inFlight'[p] = inFlight[p] \/ (p = o /\ inFlight'[p] = inFlight[p] + 1)
        BY <1>3 DEF PollMessages, TypeOK
      <3>4. CASE p = o
        BY <1>c, <2>1, <2>4, <3>1, <3>2, <3>3, <3>4 DEF BeingProcessed
      <3>5. CASE p # o
        BY <1>c, <2>1, <2>4, <3>1, <3>3, <3>5 DEF BeingProcessed, Loaded
      <3> QED
        BY <3>4, <3>5
    <2> QED
      BY <1>c, <2>1, <2>3, <2>4, ThresholdAssumption DEF Loaded
  <1>4. ASSUME NEW o \in Log, FinishConsumingMessage(o)
        PROVE  Loaded'
    <2>1. Loaded /\ o \in Offsets[restarts] /\ UNCHANGED <<Offsets, hasDoor>> /\ BeingProcessed(o)
      BY <1>4, <1>c DEF FinishConsumingMessage, Loaded, TypeOK, BeingProcessed, bounds, door
    <2>2. hasDoor
      BY <2>1 DEF AdvanceInv, DoorLifetime, FreshDoor
    <2>3. ASSUME NEW p \in Log, BeingProcessed(p)'
          PROVE  p \in Offsets[restarts] /\ inFlight'[p] + finishing'[restarts][p] = 1
      <3>1. inFlight[p] \in Nat /\ finishing[restarts][p] \in Nat
        BY <1>c DEF TypeOK
      <3>2. inFlight'[p] + finishing'[restarts][p] = inFlight[p] + finishing[restarts][p]
        <4>1. /\ inFlight' = [inFlight EXCEPT ![o] = @ - 1]
              /\ finishing' = [finishing EXCEPT ![restarts][o] = @ + 1]
          BY <1>4, <2>2 DEF FinishConsumingMessage
        <4>2. CASE p = o
          <5>1. inFlight'[p] = inFlight[p] - 1 /\ finishing'[restarts][p] = finishing[restarts][p] + 1
            BY <1>c, <4>1, <4>2 DEF TypeOK
          <5> QED
            BY <3>1, <5>1
        <4>3. CASE p # o
          BY <1>c, <4>1, <4>3 DEF TypeOK
        <4> QED
          BY <4>2, <4>3
      <3>3. BeingProcessed(p)
        BY <1>4, <1>c, <2>1, <2>3 DEF FinishConsumingMessage, TypeOK, BeingProcessed
      <3> QED
        BY <2>1, <3>2, <3>3 DEF Loaded
    <2> QED
      BY <1>c, <2>1, <2>3 DEF Loaded
  <1>5. ASSUME NEW d \in Doors, NEW o \in Log, RemoveMessageOffset(d, o)
        PROVE  Loaded'
    <2>0. Loaded /\ RemoveOffset(d, o) /\ finishing[d][o] > 0 /\ inFlight' = inFlight
          /\ finishing' = [finishing EXCEPT ![d][o] = @ - 1]
      BY <1>5, <1>c DEF RemoveMessageOffset
    <2>1. d = restarts
      BY <1>c, <2>0 DEF AdvanceInv, DoorLifetime, Doors
    <2>2. o \in Offsets[restarts] /\ inFlight[o] + finishing[restarts][o] = 1
      BY <2>0, <2>1 DEF Loaded, BeingProcessed
    <2>3. Offsets'[restarts] = Offsets[restarts] \ {o}
      BY <2>0, <2>1, RemoveFrame DEF TypeOK
    <2>4. IsFiniteSet(Offsets'[restarts]) /\ Cardinality(Offsets'[restarts]) = Cardinality(Offsets[restarts]) - 1
          /\ Cardinality(Offsets[restarts]) \in Nat
      <3>1. IsFiniteSet(Offsets[restarts])
        BY <2>0 DEF Loaded
      <3> QED
        BY <2>2, <2>3, <3>1, FS_RemoveElement, FS_CardinalityType
    <2>5. ASSUME NEW p \in Log, BeingProcessed(p)'
          PROVE  p \in Offsets'[restarts] /\ inFlight'[p] + finishing'[restarts][p] = 1
      <3>1. inFlight[o] \in Nat /\ finishing[restarts][o] \in Nat
        BY <1>c DEF TypeOK
      <3>2. p # o
        <4> SUFFICES ASSUME p = o PROVE FALSE
          OBVIOUS
        <4>1. finishing'[restarts][o] = finishing[restarts][o] - 1
          BY <1>c, <2>0, <2>1 DEF TypeOK
        <4>2. inFlight[o] > 0 \/ finishing'[restarts][o] > 0
          BY <1>c, <2>0, <2>5 DEF BeingProcessed
        <4> QED
          BY <2>0, <2>1, <2>2, <3>1, <4>1, <4>2
      <3>3. inFlight'[p] = inFlight[p] /\ finishing'[restarts][p] = finishing[restarts][p]
        BY <2>0, <2>1, <3>2 DEF TypeOK
      <3> QED
        BY <1>c, <2>0, <2>3, <2>5, <3>2, <3>3 DEF BeingProcessed, Loaded
    <2> QED
      BY <1>c, <2>0, <2>4, <2>5, ThresholdAssumption DEF Loaded
  <1>6. ASSUME NEW c \in {committed} \cup {o + 1 : o \in Log}, Rebalance(c)
        PROVE  FALSE
    BY <1>6 DEF Rebalance, TypeOK
  <1>7. CASE UNCHANGED vars
    BY <1>7 DEF vars, door, bounds, Loaded, BeingProcessed
  <1> QED
    BY <1>1, <1>2, <1>3, <1>4, <1>5, <1>6, <1>7 DEF Next

(* Back-pressure: while a partition is read once, the messages in work are never more
   than one beyond the threshold, for every threshold and log. *)
THEOREM LoadIsBounded == Spec => []LoadBounded
  <1>1. Init => LoadInv
    <2> SUFFICES ASSUME Init PROVE LoadInv
      OBVIOUS
    <2>1. 0 \in Doors
      BY BoundsAssumption DEF Doors
    <2>2. /\ Offsets[restarts] = {} /\ restarts = 0 /\ late = FALSE
          /\ \A o \in Log : inFlight[o] = 0 /\ finishing[restarts][o] = 0
      BY <2>1 DEF Init
    <2> QED
      BY <2>2, AdvanceInvInit, FS_EmptySet, ThresholdAssumption DEF LoadInv, BeingProcessed
  <1>2. TypeOK /\ LoadInv => LoadBounded
    <2> SUFFICES ASSUME TypeOK, Loaded
                 PROVE  Cardinality(Offsets[restarts] \cup {o \in Log : BeingProcessed(o)})
                            <= FullLoadThreshold + 1
      BY DEF LoadInv, Loaded, LoadBounded
    <2>1. Offsets[restarts] \cup {o \in Log : BeingProcessed(o)} = Offsets[restarts]
      BY DEF Loaded
    <2> QED
      BY <2>1 DEF Loaded
  <1> QED
    BY <1>1, <1>2, TypeInit, TypeStep, LoadStep, PTL DEF Spec
=============================================================================
