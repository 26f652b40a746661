-------------------------- MODULE UnitOfWorkProofs --------------------------
(***************************************************************************)
(* Proofs about UnitOfWork, for any number of commits, crashes and         *)
(* failures of the database.                                               *)
(***************************************************************************)
EXTENDS UnitOfWork, TLAPS

LEMMA TypeInit == Init => TypeOK
BY LimitsAssumption DEF Init, TypeOK

LEMMA TypeStep == TypeOK /\ [Next]_vars => TypeOK'
<1> SUFFICES ASSUME TypeOK, [Next]_vars PROVE TypeOK'
    OBVIOUS
<1> USE LimitsAssumption DEF TypeOK, bus, states, publisher
<1>m. \A k \in {"event", "anyway", "exception"}, c \in Commits :
          [kind |-> k, commit |-> c] \in Messages
    BY DEF Messages
<1>n. pc \notin {"idle", "over"} => n \in Commits
    BY DEF Commits
<1>k. \A k \in {"event", "anyway", "exception"} : n \in Commits => Msg(k) \in Messages
    BY <1>m DEF Msg
<1>1. CASE Work
    <2>1. n' \in Commits
        BY <1>1 DEF Work, Commits
    <2>2. busAnyway' \subseteq Messages
        BY <1>1, <2>1, <1>m DEF Work
    <2> QED
        BY <1>1, <2>1, <2>2 DEF Work, Commits
<1>2. CASE DoCommit
    BY <1>2, <1>n, <1>k DEF DoCommit, DatabaseFails, Throw, Exceptions
<1>3. CASE Committing
    BY <1>3 DEF Committing, Throw, Exceptions
<1>4. CASE CommitTransaction
    BY <1>4, <1>n DEF CommitTransaction, DatabaseFails, Throw, Exceptions
<1>5. CASE Rollback
    BY <1>5 DEF Rollback
<1>6. CASE AfterCommit
    BY <1>6 DEF AfterCommit
<1>7. CASE AfterFailure
    <2>1. anywayStates' \subseteq Messages
        BY <1>7, <1>n, <1>k DEF AfterFailure
    <2>2. unPublished' \subseteq Messages /\ sendQueue' \subseteq Messages
        BY <1>7, <2>1 DEF AfterFailure
    <2>3. dbFailures' \in 0..MaxDbFailures
        BY <1>7 DEF AfterFailure
    <2> QED
        BY <1>7, <2>1, <2>2, <2>3 DEF AfterFailure
<1>8. ASSUME NEW m \in Messages, SendMessageState(m) \/ RemoveMessage(m) PROVE TypeOK'
    BY <1>8 DEF SendMessageState, RemoveMessage
<1>9. CASE Crash
    <2>1. crashes' \in 0..MaxCrashes
        BY <1>9 DEF Crash
    <2>2. alive' \in BOOLEAN
        BY <1>9 DEF Crash
    <2> QED
        BY <1>9, <2>1, <2>2 DEF Crash
<1>10. CASE Start
    BY <1>10 DEF Start
<1>11. CASE UNCHANGED vars
    BY <1>11 DEF vars
<1> QED
    BY <1>1, <1>2, <1>3, <1>4, <1>5, <1>6, <1>7, <1>8, <1>9, <1>10, <1>11 DEF Next, Commit

\* Every variable keeps its type; in particular the exception of a commit is gone
\* before the next one begins.
THEOREM TypeCorrect == Spec => []TypeOK
BY TypeInit, TypeStep, PTL DEF Spec

-----------------------------------------------------------------------------
(* What makes the properties inductive *)

EventOf(c) == [kind |-> "event", commit |-> c]
AnywayOf(c) == [kind |-> "anyway", commit |-> c]

\* The messages of the commit under way are on their way to their rows.
OnTheWay ==
    /\ pc \in {"save", "committing"} /\ n \in Anyway => AnywayOf(n) \in busAnyway
    /\ pc = "committing" => EventOf(n) \in busEvents
    /\ pc = "transaction" =>
          /\ EventOf(n) \in eventStates \cap tracked
          /\ n \in Anyway => AnywayOf(n) \in anywayStates \cap tracked

\* The bus holds the event of the commit under way only, and nothing between commits.
BusFresh ==
    /\ pc \in {"idle", "save", "over"} => busEvents = {}
    /\ busEvents \subseteq {EventOf(n)}
    /\ \A m \in busAnyway : m.kind = "anyway"
    /\ pc = "transaction" => eventStates \subseteq {EventOf(n)}
    /\ pc = "after" /\ exception = "none" => eventStates \subseteq {EventOf(n)} /\ n \in effects

\* A commit takes effect in its transaction, or never.
Undone == pc \in {"save", "committing", "transaction", "rollback"} \/ exception # "none"
EffectsPast ==
    /\ pc = "rollback" => exception # "none"
    /\ \A c \in effects : c <= n /\ (Undone => c # n)

\* Rows and queues hold events of commits that took effect and exception events of
\* commits that did not.
TrueMessage(m) ==
    /\ m.kind = "event" => m.commit \in effects
    /\ m.kind = "exception" => m.commit \notin effects /\ m.commit <= n /\ (Undone => m.commit # n)
MessagesTrue ==
    /\ \A m \in unPublished \cup sendQueue \cup published : TrueMessage(m)
    /\ \A m \in anywayStates : m.kind # "event" /\ TrueMessage(m)

UnitInv == OnTheWay /\ BusFresh /\ EffectsPast /\ MessagesTrue /\ MessagesKept

LEMMA UnitInit == Init => UnitInv
BY DEF Init, UnitInv, OnTheWay, BusFresh, EffectsPast, MessagesTrue, MessagesKept, Undone

LEMMA UnitStep == TypeOK /\ TypeOK' /\ UnitInv /\ [Next]_vars => UnitInv'
<1> SUFFICES ASSUME TypeOK, TypeOK', UnitInv, [Next]_vars PROVE UnitInv'
    OBVIOUS
<1> USE DEF bus, states, publisher
<1>t. /\ n \in Nat /\ effects \subseteq Nat
      /\ \A m \in Messages : m.commit \in Nat
    BY LimitsAssumption DEF TypeOK, Commits, Messages
<1>1. CASE Work
    <2>1. n' = n + 1 /\ pc = "idle" /\ pc' = "save" /\ exception = "none" /\ exception' = "none"
        BY <1>1 DEF Work, TypeOK
    <2>2. OnTheWay' /\ BusFresh'
        BY <1>1, <2>1 DEF Work, UnitInv, OnTheWay, BusFresh, EventOf, AnywayOf
    <2>3. EffectsPast'
        BY <1>1, <2>1, <1>t DEF Work, UnitInv, EffectsPast, Undone
    <2>4. ASSUME NEW m \in Messages, TrueMessage(m) PROVE TrueMessage(m)'
        BY <1>1, <2>1, <2>4, <1>t DEF Work, TrueMessage, Undone
    <2>5. MessagesTrue' /\ MessagesKept'
        BY <1>1, <2>4 DEF Work, UnitInv, MessagesTrue, MessagesKept, TypeOK
    <2> QED
        BY <2>2, <2>3, <2>5 DEF UnitInv
<1>k. ASSUME n' = n, effects' = effects, Undone' => Undone
      PROVE  \A m : TrueMessage(m) => TrueMessage(m)'
    BY <1>k DEF TrueMessage
<1>2. CASE DoCommit
    <2>1. Undone /\ pc = "save" /\ pc' \in {"committing", "rollback"}
        BY <1>2 DEF DoCommit, DatabaseFails, Throw, Undone
    <2>2. pc' = "rollback" => exception' # "none"
        BY <1>2 DEF DoCommit, DatabaseFails, Throw
    <2>3. OnTheWay' /\ BusFresh'
        BY <1>2, <2>1 DEF DoCommit, UnitInv, OnTheWay, BusFresh, EventOf, AnywayOf, Msg
    <2>4. EffectsPast' /\ MessagesTrue' /\ MessagesKept'
        BY <1>2, <1>k, <2>1, <2>2 DEF DoCommit, UnitInv, EffectsPast, MessagesTrue, MessagesKept
    <2> QED
        BY <2>3, <2>4 DEF UnitInv
<1>3. CASE Committing
    <2>1. Undone /\ pc = "committing" /\ pc' \in {"transaction", "rollback"}
        BY <1>3 DEF Committing, Throw, Undone
    <2>2. pc' = "rollback" => exception' # "none"
        BY <1>3 DEF Committing, Throw
    <2>3. /\ eventStates' = busEvents /\ anywayStates' = anywayStates \cup busAnyway
          /\ UNCHANGED <<n, bus>>
          /\ pc' = "transaction" =>
                tracked' = tracked \cup busEvents \cup anywayStates \cup busAnyway
        BY <1>3 DEF Committing, Throw
    <2>a. EventOf(n)' = EventOf(n) /\ AnywayOf(n)' = AnywayOf(n)
        BY <2>3 DEF EventOf, AnywayOf
    <2>b. OnTheWay'
        BY <2>1, <2>3, <2>a DEF UnitInv, OnTheWay
    <2>c. BusFresh'
        BY <2>1, <2>3, <2>a DEF UnitInv, BusFresh
    <2>4. \A m \in busAnyway : m.kind # "event" /\ TrueMessage(m)
        BY DEF UnitInv, BusFresh, TrueMessage
    <2>5. EffectsPast' /\ MessagesTrue' /\ MessagesKept'
        BY <1>3, <1>k, <2>1, <2>2, <2>4 DEF Committing, UnitInv, EffectsPast, MessagesTrue, MessagesKept
    <2> QED
        BY <2>b, <2>c, <2>5 DEF UnitInv
<1>4. CASE CommitTransaction
    <2>1. CASE pc' = "after"
        <3>1. /\ exception = "none" /\ exception' = "none" /\ ~Undone' /\ Undone
              /\ effects' = effects \cup {n} /\ pc = "transaction" /\ n' = n
              /\ unPublished' = unPublished \cup (tracked \cap (eventStates \cup anywayStates))
            BY <1>4, <2>1 DEF CommitTransaction, DatabaseFails, Throw, TypeOK, Undone
        <3>2. OnTheWay' /\ BusFresh' /\ EffectsPast'
            BY <1>4, <2>1, <3>1, <1>t DEF CommitTransaction, UnitInv, OnTheWay, BusFresh, EffectsPast
        <3>3. ASSUME NEW m, TrueMessage(m) PROVE TrueMessage(m)'
            BY <3>1, <3>3 DEF TrueMessage
        <3>4. TrueMessage(EventOf(n))'
            BY <3>1 DEF TrueMessage, EventOf
        <3>5. MessagesTrue'
            BY <1>4, <3>1, <3>3, <3>4 DEF CommitTransaction, UnitInv, BusFresh, MessagesTrue
        <3>6. MessagesKept'
            BY <1>4, <3>1 DEF CommitTransaction, UnitInv, OnTheWay, MessagesKept, EventOf, AnywayOf
        <3> QED
            BY <3>2, <3>5, <3>6 DEF UnitInv
    <2>2. CASE pc' # "after"
        <3>1. /\ pc' = "rollback" /\ exception' # "none" /\ pc = "transaction" /\ Undone
              /\ UNCHANGED <<n, effects, unPublished, bus, states, tracked, publisher>>
            BY <1>4, <2>2 DEF CommitTransaction, DatabaseFails, Throw, Undone
        <3> QED
            BY <3>1, <1>k DEF UnitInv, OnTheWay, BusFresh, EffectsPast, MessagesTrue, MessagesKept
    <2> QED
        BY <2>1, <2>2
<1>5. CASE Rollback
    <2>1. Undone /\ exception' # "none" /\ exception' = exception
        BY <1>5 DEF Rollback, Undone, UnitInv, EffectsPast
    <2> QED
        BY <1>5, <1>k, <2>1
        DEF Rollback, UnitInv, OnTheWay, BusFresh, EffectsPast, MessagesTrue, MessagesKept
<1>6. CASE AfterCommit
    <2>1. ~Undone' /\ n \in effects
        BY <1>6 DEF AfterCommit, Undone, UnitInv, BusFresh
    <2>2. \A m \in eventStates : TrueMessage(m)
        BY <1>6, <2>1 DEF AfterCommit, UnitInv, BusFresh, TrueMessage, EventOf
    <2> QED
        BY <1>6, <1>k, <2>1, <2>2
        DEF AfterCommit, UnitInv, OnTheWay, BusFresh, EffectsPast, MessagesTrue, MessagesKept
<1>7. CASE AfterFailure
    <2> DEFINE all == anywayStates \cup (IF exception = "domainEvent" THEN {Msg("exception")} ELSE {})
    <2>1. Undone /\ ~Undone' /\ n \notin effects
        BY <1>7 DEF AfterFailure, Undone, UnitInv, EffectsPast
    <2>2. \A m \in all : m.kind # "event" /\ TrueMessage(m)'
        <3>1. \A m \in anywayStates : m.kind # "event" /\ TrueMessage(m)'
            BY <1>7, <1>k, <2>1 DEF AfterFailure, UnitInv, MessagesTrue
        <3>2. ASSUME NEW m, m = Msg("exception") PROVE m.kind # "event" /\ TrueMessage(m)'
            BY <1>7, <2>1, <3>2, <1>t DEF AfterFailure, TrueMessage, Msg
        <3>3. \A m \in all : m \in anywayStates \/ m = Msg("exception")
            OBVIOUS
        <3> HIDE DEF all
        <3>4. TAKE m \in all
        <3>5. CASE m \in anywayStates
            BY <3>1, <3>5
        <3>6. CASE m = Msg("exception")
            BY <3>2, <3>6
        <3> QED
            BY <3>3, <3>5, <3>6
    <2>3. anywayStates' = all /\ unPublished' \subseteq unPublished \cup all
          /\ unPublished \subseteq unPublished' /\ sendQueue' \subseteq sendQueue \cup all
        BY <1>7 DEF AfterFailure
    <2>4. MessagesTrue'
        BY <1>7, <1>k, <2>1, <2>2, <2>3 DEF AfterFailure, UnitInv, MessagesTrue
    <2>5. OnTheWay' /\ BusFresh' /\ EffectsPast' /\ MessagesKept'
        BY <1>7, <2>1, <2>3 DEF AfterFailure, UnitInv, OnTheWay, BusFresh, EffectsPast, MessagesKept
    <2> QED
        BY <2>4, <2>5 DEF UnitInv
<1>8. ASSUME NEW m \in Messages, SendMessageState(m) \/ RemoveMessage(m) PROVE UnitInv'
    <2>1. UNCHANGED <<n, effects, pc, exception, busEvents, busAnyway, eventStates, anywayStates, tracked>>
        BY <1>8 DEF SendMessageState, RemoveMessage
    <2>2. Undone' = Undone
        BY <2>1 DEF Undone
    <2>3. OnTheWay' /\ BusFresh' /\ EffectsPast'
        BY <2>1, <2>2 DEF UnitInv, OnTheWay, BusFresh, EffectsPast
    <2>4. MessagesTrue' /\ MessagesKept'
        BY <1>8, <1>k, <2>1, <2>2
        DEF SendMessageState, RemoveMessage, UnitInv, MessagesTrue, MessagesKept
    <2> QED
        BY <2>3, <2>4 DEF UnitInv
<1>9. CASE Crash
    BY <1>9, <1>k DEF Crash, UnitInv, OnTheWay, BusFresh, EffectsPast, MessagesTrue, MessagesKept, Undone
<1>10. CASE Start
    <2>1. Undone' = Undone
        BY <1>10 DEF Start, Undone
    <2> QED
        BY <1>10, <1>k, <2>1
        DEF Start, UnitInv, OnTheWay, BusFresh, EffectsPast, MessagesTrue, MessagesKept
<1>11. CASE UNCHANGED vars
    <2>1. Undone' = Undone
        BY <1>11 DEF vars, Undone
    <2> QED
        BY <1>11, <1>k, <2>1
        DEF vars, UnitInv, OnTheWay, BusFresh, EffectsPast, MessagesTrue, MessagesKept
<1> QED
    BY <1>1, <1>2, <1>3, <1>4, <1>5, <1>6, <1>7, <1>8, <1>9, <1>10, <1>11 DEF Next, Commit

LEMMA UnitInvariant == Spec => [](TypeOK /\ UnitInv)
<1>1. TypeOK /\ UnitInv /\ [Next]_vars => (TypeOK /\ UnitInv)'
    BY TypeStep, UnitStep
<1> QED
    BY TypeInit, UnitInit, <1>1, PTL DEF Spec

\* The messages of a commit that took effect are published or have their rows, however
\* often the unit of work is committed and whatever fails.
THEOREM MessagesAreKept == Spec => []MessagesKept
<1>1. UnitInv => MessagesKept
    BY DEF UnitInv
<1> QED
    BY UnitInvariant, <1>1, PTL

\* Nothing of a commit that was rolled back is published by a later one.
THEOREM NoMessageOfARollback == Spec => []NoPhantomMessage
<1>1. UnitInv => NoPhantomMessage
    BY DEF UnitInv, MessagesTrue, TrueMessage, NoPhantomMessage
<1> QED
    BY UnitInvariant, <1>1, PTL

-----------------------------------------------------------------------------
(* What the context tracks *)

\* Before the rows of a commit are added, everything the context tracks or keeps to be
\* published anyway is from earlier commits, and what is on the bus from this one.
FromEarlier ==
    /\ \A m \in tracked \cup anywayStates \cup busEvents \cup busAnyway : m.commit <= n
    /\ pc \in {"save", "committing"} =>
          /\ \A m \in tracked \cup anywayStates : m.commit < n
          /\ \A m \in busEvents \cup busAnyway : m.commit = n
    /\ pc = "idle" => busEvents = {} /\ busAnyway = {}

RetryInv == FromEarlier /\ RetryUnharmed

LEMMA RetryStep == TypeOK /\ TypeOK' /\ RetryInv /\ [Next]_vars => RetryInv'
<1> SUFFICES ASSUME TypeOK, TypeOK', RetryInv, [Next]_vars PROVE RetryInv'
    OBVIOUS
<1> USE DEF bus, states, publisher
<1>t. n \in Nat /\ \A m \in Messages : m.commit \in Nat
    BY LimitsAssumption DEF TypeOK, Commits, Messages
<1>s. /\ tracked \subseteq Messages /\ anywayStates \subseteq Messages
      /\ busEvents \subseteq Messages /\ busAnyway \subseteq Messages
    BY DEF TypeOK
<1>1. CASE Work
    <2>1. /\ n' = n + 1 /\ pc = "idle" /\ pc' = "save" /\ exception' = "none"
          /\ UNCHANGED <<tracked, anywayStates, busEvents>> /\ busEvents = {} /\ busAnyway = {}
          /\ \A m \in busAnyway' : m.commit = n'
        BY <1>1 DEF Work, TypeOK, RetryInv, FromEarlier
    <2>2. \A m \in tracked \cup anywayStates : m.commit \in Nat /\ m.commit <= n
        BY <1>t, <1>s DEF RetryInv, FromEarlier
    <2> QED
        BY <2>1, <2>2, <1>t DEF RetryInv, FromEarlier, RetryUnharmed
<1>2. CASE DoCommit
    <2>1. /\ UNCHANGED <<n, tracked, anywayStates, busAnyway>> /\ pc = "save"
          /\ pc' \in {"committing", "rollback"} /\ exception' # "tracked"
          /\ \A m \in busEvents' : m \in busEvents \/ m.commit = n
        BY <1>2 DEF DoCommit, DatabaseFails, Throw, Msg, TypeOK
    <2> QED
        BY <2>1, <1>t DEF RetryInv, FromEarlier, RetryUnharmed
<1>3. CASE Committing
    <2>1. /\ UNCHANGED <<n, busEvents, busAnyway>> /\ pc = "committing" /\ exception = "none"
          /\ pc' \in {"transaction", "rollback"}
          /\ anywayStates' = anywayStates \cup busAnyway
          /\ tracked' \subseteq tracked \cup anywayStates \cup busEvents \cup busAnyway
          /\ exception' = "tracked" =>
                 \E m \in tracked : m \in anywayStates \cup busEvents \cup busAnyway
        BY <1>3 DEF Committing, Throw, TypeOK
    <2>2. FromEarlier'
        BY <2>1 DEF RetryInv, FromEarlier
    <2>3. ASSUME exception' = "tracked" PROVE \E m \in anywayStates' : m.commit < n
        <3>1. PICK m \in tracked : m \in anywayStates \cup busEvents \cup busAnyway
            BY <2>1, <2>3
        <3>2. m.commit < n /\ m.commit \in Nat
            BY <1>t, <1>s, <2>1, <3>1 DEF RetryInv, FromEarlier
        <3>3. m \in anywayStates
            BY <1>t, <2>1, <3>1, <3>2 DEF RetryInv, FromEarlier
        <3> QED
            BY <2>1, <3>2, <3>3
    <2> QED
        BY <2>1, <2>2, <2>3 DEF RetryInv, RetryUnharmed
<1>4. CASE CommitTransaction
    <2>1. /\ UNCHANGED <<n, tracked, anywayStates, busEvents, busAnyway>>
          /\ pc' \in {"after", "rollback"} /\ exception' # "tracked"
        BY <1>4 DEF CommitTransaction, DatabaseFails, Throw, TypeOK
    <2> QED
        BY <2>1 DEF RetryInv, FromEarlier, RetryUnharmed
<1>5. CASE Rollback
    BY <1>5 DEF Rollback, RetryInv, FromEarlier, RetryUnharmed
<1>6. CASE AfterCommit
    BY <1>6 DEF AfterCommit, RetryInv, FromEarlier, RetryUnharmed
<1>7. CASE AfterFailure
    <2>1. /\ n' = n /\ pc' = "idle" /\ exception' = "none" /\ busEvents' = {} /\ busAnyway' = {}
          /\ tracked' = anywayStates'
          /\ \A m \in anywayStates' : m \in anywayStates \/ m.commit = n
        BY <1>7 DEF AfterFailure, Msg
    <2> QED
        BY <2>1, <1>t DEF RetryInv, FromEarlier, RetryUnharmed
<1>8. CASE Crash
    BY <1>8 DEF Crash, RetryInv, FromEarlier, RetryUnharmed
<1>9. CASE Start \/ UNCHANGED vars \/ \E m \in Messages : SendMessageState(m) \/ RemoveMessage(m)
    BY <1>9 DEF Start, vars, SendMessageState, RemoveMessage, RetryInv, FromEarlier, RetryUnharmed
<1> QED
    BY <1>1, <1>2, <1>3, <1>4, <1>5, <1>6, <1>7, <1>8, <1>9 DEF Next, Commit

\* A commit fails on a row that the context tracks only if an earlier commit has left a
\* message to be published anyway: any other commit, and any retry, finds the context
\* free of its own messages.
THEOREM RetryIsUnharmed == Spec => []RetryUnharmed
<1>1. Init => RetryInv
    BY DEF Init, RetryInv, FromEarlier, RetryUnharmed
<1>2. TypeOK /\ RetryInv /\ [Next]_vars => RetryInv'
    BY TypeStep, RetryStep
<1>3. RetryInv => RetryUnharmed
    BY DEF RetryInv
<1> QED
    BY TypeCorrect, <1>1, <1>2, <1>3, PTL DEF Spec

-----------------------------------------------------------------------------
(* The unit of work implements the outbox *)

LEMMA TransactionTakes ==
    ASSUME TypeOK, UnitInv, CommitTransaction PROVE [Out!Next]_(Out!outbox)
<1>1. Announced' = Announced
    BY DEF CommitTransaction, publisher, Announced
<1>2. CASE effects' = effects
    BY <1>1, <1>2 DEF Out!outbox
<1>3. CASE effects' = effects \cup {n}
    <2>1. n \in Commits
        BY DEF CommitTransaction, TypeOK, Commits
    <2>2. \A c \in effects : c \in Commits /\ c # n
        BY DEF CommitTransaction, UnitInv, EffectsPast, Undone, TypeOK
    <2>3. Out!Take(n)
        BY <1>1, <1>3, <2>1, <2>2 DEF Out!Take
    <2> QED
        BY <2>1, <2>3 DEF Out!Next
<1> QED
    BY <1>2, <1>3 DEF CommitTransaction

LEMMA SendingTells ==
    ASSUME TypeOK, UnitInv, NEW m \in Messages, SendMessageState(m)
    PROVE  [Out!Next]_(Out!outbox)
<1>1. effects' = effects /\ published' = published \cup {m} /\ m \in sendQueue
    BY DEF SendMessageState
<1>2. CASE m.kind = "event"
    <2>1. m.commit \in effects /\ m.commit \in Commits
        BY <1>1, <1>2 DEF UnitInv, MessagesTrue, TrueMessage, Messages
    <2>2. m = [kind |-> "event", commit |-> m.commit]
        BY <1>2 DEF Messages
    <2>3. \A c \in Commits : [kind |-> "event", commit |-> c] = m <=> c = m.commit
        BY <2>2
    <2>4. Announced' = Announced \cup {m.commit}
        BY <1>1, <2>1, <2>3 DEF Announced
    <2>5. Out!Tell(m.commit)
        BY <1>1, <2>1, <2>4 DEF Out!Tell
    <2> QED
        BY <2>1, <2>5 DEF Out!Next
<1>3. CASE m.kind # "event"
    <2>1. Announced' = Announced
        BY <1>1, <1>3 DEF Announced
    <2> QED
        BY <1>1, <2>1 DEF Out!outbox
<1> QED
    BY <1>2, <1>3

\* Every step of the unit of work is a step of the outbox or none: a commit takes effect
\* once, and only the events of commits that took effect are published.
THEOREM OutboxRefinement == Spec => Out!Spec
<1>1. Init => Out!Init
    BY DEF Init, Out!Init, Announced
<1>2. ASSUME TypeOK, UnitInv, [Next]_vars PROVE [Out!Next]_(Out!outbox)
    <2>1. CASE CommitTransaction
        BY <1>2, <2>1, TransactionTakes
    <2>2. ASSUME NEW m \in Messages, SendMessageState(m) PROVE [Out!Next]_(Out!outbox)
        BY <1>2, <2>2, SendingTells
    <2>3. CASE UNCHANGED <<effects, published>>
        BY <2>3 DEF Out!outbox, Announced
    <2>4. \/ CommitTransaction \/ \E m \in Messages : SendMessageState(m)
          \/ UNCHANGED <<effects, published>>
        BY <1>2 DEF Next, Commit, vars, publisher, Work, DoCommit, Committing, Rollback, AfterCommit,
                    AfterFailure, RemoveMessage, Crash, Start
    <2> QED
        BY <2>1, <2>2, <2>3, <2>4
<1> QED
    BY <1>1, <1>2, UnitInvariant, PTL DEF Spec, Out!Spec
=============================================================================
