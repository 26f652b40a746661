------------------------ MODULE EventSourcingProofs ------------------------
(***************************************************************************)
(* Proofs about EventSourcing for any commands, servers, threads, readers, *)
(* number of retries and number of faults.                                 *)
(***************************************************************************)
EXTENDS EventSourcing, FiniteSetTheorems, TLAPS

USE KindsAssumption, BoundAssumption, NoCommandAssumption

-----------------------------------------------------------------------------
(* The stream *)

\* The top of a stream without gaps is its length.
LEMMA TopOfDense ==
    ASSUME NEW S \in SUBSET Records, NEW n \in Nat, {r.version : r \in S} = 1..n
    PROVE  Top(S) = n
<1>1. CASE n = 0
  <2>1. S = {} BY <1>1
  <2> QED BY <1>1, <2>1 DEF Top
<1>2. CASE n # 0
  <2>1. n \in {r.version : r \in S} /\ \A r \in S : r.version <= n BY <1>2
  <2>2. S # {} BY <2>1
  <2>3. \A v \in {r.version : r \in S} : (\A r \in S : r.version <= v) => v = n
    BY <2>1
  <2> QED BY <2>1, <2>2, <2>3 DEF Top
<1> QED BY <1>1, <1>2

\* Appending the next version keeps the stream dense.
LEMMA TopOfAppend ==
    ASSUME NEW S \in SUBSET Records, NEW n \in Nat, {r.version : r \in S} = 1..n,
           NEW c \in Commands
    PROVE  LET T == S \cup {[cmd |-> c, version |-> n + 1]}
           IN  /\ T \in SUBSET Records
               /\ Top(T) = n + 1
               /\ {r.version : r \in T} = 1..(n + 1)
<1> DEFINE new == [cmd |-> c, version |-> n + 1]
           T == S \cup {new}
<1>1. T \in SUBSET Records BY DEF Records
<1>2. {r.version : r \in T} = {r.version : r \in S} \cup {new.version} OBVIOUS
<1>3. {r.version : r \in T} = 1..(n + 1) BY <1>2
<1>4. Top(T) = n + 1 BY <1>1, <1>3, TopOfDense
<1> QED BY <1>1, <1>3, <1>4

\* The events after some version end where the stream ends.
LEMMA TopOfEvents ==
    ASSUME NEW S \in SUBSET Records, NEW n \in Nat, {r.version : r \in S} = 1..n,
           NEW k \in Nat
    PROVE  LET E == {r \in S : r.version >= k + 1}
           IN  /\ E = {} => n <= k
               /\ E # {} => Top(E) = n /\ n > k
<1> DEFINE E == {r \in S : r.version >= k + 1}
<1>1. \A r \in S : r.version \in 1..n OBVIOUS
<1>2. \A v \in 1..n : \E r \in S : r.version = v
  <2> TAKE v \in 1..n
  <2>1. v \in {r.version : r \in S} OBVIOUS
  <2> QED BY <2>1
<1>3. ASSUME E = {} PROVE n <= k
  <2>1. CASE n = 0 BY <2>1
  <2>2. CASE n # 0
    <3>1. PICK r \in S : r.version = n BY <1>2, <2>2
    <3>2. ~(n >= k + 1) BY <3>1, <1>3
    <3> QED BY <3>2
  <2> QED BY <2>1, <2>2
<1>4. ASSUME E # {} PROVE Top(E) = n /\ n > k
  <2>1. PICK q \in E : TRUE BY <1>4
  <2>2. q \in S /\ q.version >= k + 1 /\ q.version \in 1..n BY <2>1, <1>1
  <2>3. n > k /\ n \in 1..n BY <2>2
  <2>4. PICK r \in S : r.version = n BY <2>3, <1>2
  <2>5. r \in E BY <2>3, <2>4
  <2>6. n \in {e.version : e \in E} BY <2>4, <2>5
  <2>7. \A e \in E : e.version <= n /\ e.version \in Nat BY <1>1
  <2>8. \A v \in {e.version : e \in E} : (\A e \in E : e.version <= v) => v = n
    BY <2>4, <2>5, <2>7
  <2> HIDE DEF E
  <2> QED BY <1>4, <2>3, <2>6, <2>7, <2>8 DEF Top
<1> QED BY <1>3, <1>4

LEMMA CountType ==
    ASSUME NEW S, IsFiniteSet(S)
    PROVE  Count(S) \in [Commands -> Nat]
<1>1. ASSUME NEW c \in Commands PROVE Cardinality({r \in S : r.cmd = c}) \in Nat
  <2>1. {r \in S : r.cmd = c} \in SUBSET S OBVIOUS
  <2> QED BY <2>1, FS_Subset, FS_CardinalityType
<1> QED BY <1>1 DEF Count

-----------------------------------------------------------------------------
(* Types *)

Entries == [version : Nat, ag : Aggregates]
StoredResults == [outcome : Results \cup {"none"}, version : Nat, app : BOOLEAN, event : Nat]
ContextReplies == [outcome : Results, version : Nat, app : BOOLEAN]

LEMMA Empties ==
    /\ NoAggregate \in Aggregates
    /\ NoEntry \in Entries
    /\ NoReply \in ContextReplies
    /\ NoResult \in StoredResults
  BY DEF NoAggregate, Aggregates, NoEntry, Entries, NoReply, ContextReplies, NoResult,
         StoredResults, Results

LEMMA HostType == \A w \in Workers : Host[w] \in Servers
  BY HostAssumption DEF Workers

LEMMA EntryType == \A ag \in Aggregates : Entry(ag) \in Entries
  BY DEF Entry, Entries, Aggregates

LEMMA TypeInit == Init => TypeOK
  <1> SUFFICES ASSUME Init PROVE TypeOK
    OBVIOUS
  <1>1. /\ stream \subseteq Records /\ sent \subseteq Messages /\ lost \subseteq Commands
        /\ copies \in [Commands -> Nat] /\ outbox \in [Servers -> SUBSET Messages]
    BY DEF Init
  <1>2. /\ results \in [Commands -> StoredResults] /\ snapshot \in Aggregates
        /\ cache \in [Servers -> Aggregates] /\ entry \in [Workers -> Entries]
        /\ reply \in [Workers -> ContextReplies]
    BY Empties DEF Init
  <1>3. /\ pc \in [Workers -> {"idle", "begin", "events", "set", "snapshot", "handle",
                               "append", "appended", "conflict", "finish"}]
        /\ cmd \in [Workers -> Commands \cup {NoCommand}] /\ from \in [Workers -> Nat]
        /\ retries \in [Workers -> 0..RetryCount] /\ messages \in [Workers -> SUBSET Messages]
        /\ faults \in 0..MaxFaults
    BY DEF Init
  <1> QED
    BY <1>1, <1>2, <1>3 DEF TypeOK, StoredResults, Entries, ContextReplies

\* What GetEvents finds of the present stream.
LEMMA EventsTop ==
    ASSUME TypeOK, StreamDense, NEW k \in Nat
    PROVE  /\ Top(stream) \in Nat
           /\ GetEvents(k + 1) = {} => Top(stream) <= k
           /\ GetEvents(k + 1) # {} => Top(GetEvents(k + 1)) = Top(stream) /\ Top(stream) > k
  <1> DEFINE n == Top(stream)
  <1>1. stream \in SUBSET Records /\ n \in Nat /\ {r.version : r \in stream} = 1..n
    BY DEF TypeOK, StreamDense
  <1>2. GetEvents(k + 1) = {r \in stream : r.version >= k + 1} BY DEF GetEvents
  <1> HIDE DEF n
  <1>3. LET E == {r \in stream : r.version >= k + 1}
        IN  /\ E = {} => n <= k
            /\ E # {} => Top(E) = n /\ n > k
    BY <1>1, TopOfEvents
  <1> QED BY <1>1, <1>2, <1>3 DEF n

LEMMA ReplayType ==
    ASSUME TypeOK, StreamDense, NEW ag \in Aggregates, NEW k \in Nat
    PROVE  Replay(ag, GetEvents(k + 1)) \in Aggregates
  <1> DEFINE E == GetEvents(k + 1)
  <1>1. E \in SUBSET stream BY DEF GetEvents
  <1>2. IsFiniteSet(E) BY <1>1, FS_Subset DEF StreamDense
  <1>3. Count(E) \in [Commands -> Nat] BY <1>2, CountType
  <1>5. E # {} => Top(E) \in Nat
    BY EventsTop
  <1> HIDE DEF E
  <1>6. (IF E = {} THEN ag.version ELSE Top(E)) \in Nat BY <1>5 DEF Aggregates
  <1>7. [c \in Commands |-> ag.applied[c] + Count(E)[c]] \in [Commands -> Nat]
    BY <1>3 DEF Aggregates
  <1>8. Replay(ag, E) \in Aggregates BY <1>6, <1>7 DEF Replay, Aggregates
  <1> QED BY <1>8 DEF E

\* What the handler leaves: the entry it has found, or one with its event raised on it.
LEMMA RaisedOf ==
    ASSUME TypeOK, NEW w \in Workers, cmd[w] \in Commands, NEW e \in Raised(w)
    PROVE  \E a \in {NoAggregate, entry[w].ag} :
             /\ e = [version |-> e.version,
                     ag |-> [version |-> a.version + 1, applied |-> [a.applied EXCEPT ![cmd[w]] = @ + 1]]]
             /\ \/ a = NoAggregate /\ e.version = 0 /\ cmd[w] \in Creates
                \/ a = entry[w].ag /\ a.version > 0 /\ e.version = entry[w].version /\ cmd[w] \in Modifies
  BY DEF Raised

LEMMA RaisedType ==
    ASSUME TypeOK, NEW w \in Workers, cmd[w] \in Commands, NEW e \in {entry[w]} \cup Raised(w)
    PROVE  e \in Entries
  <1>1. entry[w] \in Entries BY DEF TypeOK, Entries
  <1>2. entry[w].ag \in Aggregates /\ entry[w].version \in Nat BY <1>1 DEF Entries
  <1>3. ASSUME NEW a \in Aggregates
        PROVE  [version |-> a.version + 1, applied |-> [a.applied EXCEPT ![cmd[w]] = @ + 1]] \in Aggregates
    BY DEF Aggregates
  <1>4. CASE e \in Raised(w)
    <2>1. PICK a \in {NoAggregate, entry[w].ag} :
             /\ e = [version |-> e.version,
                     ag |-> [version |-> a.version + 1, applied |-> [a.applied EXCEPT ![cmd[w]] = @ + 1]]]
             /\ \/ a = NoAggregate /\ e.version = 0 /\ cmd[w] \in Creates
                \/ a = entry[w].ag /\ a.version > 0 /\ e.version = entry[w].version /\ cmd[w] \in Modifies
      BY <1>4, RaisedOf
    <2>2. a \in Aggregates /\ e.version \in Nat BY <1>2, <2>1, Empties
    <2> QED BY <1>3, <2>1, <2>2 DEF Entries
  <1> QED BY <1>1, <1>4

LEMMA ResultType ==
    ASSUME TypeOK, NEW w \in Workers
    PROVE  Result(w) \in StoredResults /\ Result(w).outcome # "none"
  <1>1. reply[w] \in ContextReplies /\ entry[w].ag.version \in Nat
    BY DEF TypeOK, ContextReplies, Aggregates
  <1>2. reply[w].app \in BOOLEAN BY <1>1, Zenon DEF ContextReplies
  <1>3. reply[w].outcome \in Results /\ reply[w].version \in Nat BY <1>1 DEF ContextReplies
  <1>4. (IF Changed(entry[w]) THEN entry[w].ag.version ELSE 0) \in Nat BY <1>1
  <1>5. "none" \notin Results BY DEF Results
  <1> QED BY <1>2, <1>3, <1>4, <1>5 DEF Result, StoredResults

LEMMA ReplayedType ==
    ASSUME TypeOK, NEW w \in Workers, NEW r \in StoredResults, r # NoResult, r.outcome # "none"
    PROVE  Replayed(w, r) \in StoredResults /\ Replayed(w, r).outcome # "none"
  <1>1. reply[w] \in ContextReplies BY DEF TypeOK, ContextReplies
  <1>2. reply[w].outcome \in Results /\ reply[w].version \in Nat BY <1>1 DEF ContextReplies
  <1>3. "none" \notin Results BY DEF Results
  <1> QED BY <1>2, <1>3 DEF Replayed, StoredResults

LEMMA MessagesOfType ==
    ASSUME NEW c \in Commands, NEW r \in StoredResults, r.outcome # "none"
    PROVE  MessagesOf(c, r) \in SUBSET Messages
  BY DEF MessagesOf, Msg, Messages, StoredResults, Outcomes

Inv == TypeOK /\ LedgerInv

\* A step that loads the aggregate, or handles it.
LEMMA LoadTypes ==
    ASSUME Inv, NEW w \in Workers,
           \/ Load(w) \/ Query(w) \/ EndQuery(w) \/ LoadFails(w)
           \/ \E c \in Commands : Receive(w, c)
           \/ \E after \in {entry[w]} \cup Raised(w), outcome \in Results : Handle(w, after, outcome)
    PROVE  TypeOK'
  <1> USE HostType DEF Inv
  <1>0. Host[w] \in Servers /\ entry[w] \in Entries /\ from[w] \in Nat
    BY DEF TypeOK, Entries
  <1>1. CASE LoadCached(w)
    <2>1. Entry(cache[Host[w]]) \in Entries BY <1>0, EntryType DEF TypeOK
    <2> QED BY <1>1, <2>1 DEF LoadCached, Goto, redis, TypeOK, Entries
  <1>2. CASE LoadSnapshot(w)
    <2>1. Entry(snapshot) \in Entries /\ snapshot.version \in Nat
      BY EntryType DEF TypeOK, Aggregates
    <2> QED BY <1>2, <2>1 DEF LoadSnapshot, Goto, redis, TypeOK, Entries
  <1>3. CASE LoadEvents(w)
    <2>1. Entry(Replay(entry[w].ag, GetEvents(from[w] + 1))) \in Entries
      BY <1>0, EntryType, ReplayType DEF LedgerInv, Entries
    <2> QED BY <1>3, <2>1 DEF LoadEvents, Goto, redis, TypeOK, Entries
  <1>4. CASE LoadSet(w)
    BY <1>0, <1>4 DEF LoadSet, Goto, redis, TypeOK, Entries
  <1>5. CASE UpdateSnapshot(w)
    BY <1>0, <1>5 DEF UpdateSnapshot, Goto, TypeOK, Entries
  <1>6. CASE Query(w)
    BY <1>6 DEF Query, Goto, redis, TypeOK
  <1>7. CASE EndQuery(w)
    BY <1>7, Empties DEF EndQuery, Goto, redis, TypeOK, Entries
  <1>8. CASE LoadFails(w)
    <2>1. [outcome |-> "unknown", version |-> 0, app |-> FALSE] \in ContextReplies
      BY DEF ContextReplies, Results
    <2>2. faults' \in 0..MaxFaults BY <1>8 DEF LoadFails, TypeOK
    <2> QED BY <1>8, <2>1, <2>2, Empties DEF LoadFails, Goto, redis, TypeOK, Entries, ContextReplies
  <1>9. ASSUME NEW c \in Commands, Receive(w, c) PROVE TypeOK'
    <2>1. copies' \in [Commands -> Nat] BY <1>9 DEF Receive, TypeOK
    <2> QED BY <1>9, <2>1 DEF Receive, Goto, redis, TypeOK
  <1>10. ASSUME NEW after \in {entry[w]} \cup Raised(w), NEW outcome \in Results, Handle(w, after, outcome)
         PROVE  TypeOK'
    <2>1. w \in Threads /\ cmd[w] \in Commands
      BY <1>10 DEF Handle, LedgerInv, WorkersPlaced
    <2>2. after \in Entries BY <2>1, RaisedType
    <2>3. [outcome |-> outcome, version |-> after.ag.version, app |-> outcome = "domain"] \in ContextReplies
      <3>1. (outcome = "domain") \in BOOLEAN OBVIOUS
      <3>2. after.ag.version \in Nat BY <2>2 DEF Entries, Aggregates
      <3> QED BY <3>1, <3>2 DEF ContextReplies
    <2>4. reply' \in [Workers -> ContextReplies]
      BY <1>10, <2>3, Empties DEF Handle, TypeOK, ContextReplies
    <2>5. entry' \in [Workers -> Entries]
      BY <1>10, <2>2 DEF Handle, TypeOK, Entries
    <2> QED BY <1>10, <2>4, <2>5 DEF Handle, Goto, redis, TypeOK, Entries, ContextReplies
  <1> QED BY <1>1, <1>2, <1>3, <1>4, <1>5, <1>6, <1>7, <1>8, <1>9, <1>10 DEF Load

LEMMA ReleaseTypes ==
    ASSUME TypeOK, NEW w \in Workers, Release(w)
    PROVE  /\ pc' \in [Workers -> {"idle", "begin", "events", "set", "snapshot", "handle",
                                   "append", "appended", "conflict", "finish"}]
           /\ cmd' \in [Workers -> Commands \cup {NoCommand}]
           /\ entry' \in [Workers -> Entries]
           /\ from' \in [Workers -> Nat]
           /\ reply' \in [Workers -> ContextReplies]
           /\ retries' \in [Workers -> 0..RetryCount]
           /\ messages' \in [Workers -> SUBSET Messages]
  BY Empties DEF TypeOK, Release, Goto, Entries, ContextReplies

LEMMA StoreTypes ==
    ASSUME TypeOK, NEW w \in Workers, cmd[w] \in Commands, Store(w)
    PROVE  stream' \subseteq Records /\ results' \in [Commands -> StoredResults]
  <1>1. results' \in [Commands -> StoredResults]
    BY ResultType DEF Store, TypeOK, StoredResults
  <1>2. entry[w].version + 1 \in Nat BY DEF TypeOK
  <1>3. stream' \subseteq Records BY <1>2 DEF Store, TypeOK, Records
  <1> QED BY <1>1, <1>3

\* A step that commits a command or gives it up.
LEMMA CommitTypes ==
    ASSUME Inv, NEW w \in Workers, Commit(w) \/ AppendFails(w)
    PROVE  TypeOK'
  <1> USE HostType DEF Inv
  <1>0. w \in Threads /\ cmd[w] \in Commands /\ Host[w] \in Servers
    BY DEF Commit, AppendFails, AppendDuplicate, AppendStored, AppendExisting, AppendConflict,
           CommitCache, Retry, GiveUp, Finish, LedgerInv, WorkersPlaced, Workers
  <1>1. CASE AppendDuplicate(w)
    <2>1. results[cmd[w]] \in StoredResults /\ results[cmd[w]] # NoResult
          /\ results[cmd[w]].outcome # "none"
      BY <1>0, <1>1 DEF AppendDuplicate, TypeOK, StoredResults, LedgerInv, ResultsTrue
    <2>2. MessagesOf(cmd[w], Replayed(w, results[cmd[w]])) \in SUBSET Messages
      BY <1>0, <2>1, ReplayedType, MessagesOfType
    <2> QED BY <1>1, <2>2 DEF AppendDuplicate, Goto, redis, TypeOK
  <1>2. CASE AppendStored(w)
    <2>1. Store(w) BY <1>2 DEF AppendStored
    <2>2. MessagesOf(cmd[w], Result(w)) \in SUBSET Messages
      BY <1>0, ResultType, MessagesOfType
    <2> QED BY <1>0, <1>2, <2>1, <2>2, StoreTypes DEF AppendStored, Goto, TypeOK, StoredResults
  <1>3. CASE AppendExisting(w)
    <2>1. {Msg(cmd[w], "duplicate", 0)} \in SUBSET Messages
      BY <1>0 DEF Msg, Messages, Outcomes
    <2> QED BY <1>3, <2>1 DEF AppendExisting, Goto, redis, TypeOK
  <1>4. CASE AppendConflict(w)
    BY <1>4 DEF AppendConflict, Goto, redis, TypeOK
  <1>5. CASE CommitCache(w)
    BY <1>0, <1>5 DEF CommitCache, Goto, redis, TypeOK
  <1>6. CASE Retry(w)
    <2>1. retries' \in [Workers -> 0..RetryCount] BY <1>6 DEF Retry, TypeOK
    <2> QED BY <1>0, <1>6, <2>1, Empties DEF Retry, Goto, redis, TypeOK, Entries, ContextReplies
  <1>7. CASE GiveUp(w)
    <2>1. Release(w) BY <1>7 DEF GiveUp
    <2> QED BY <1>0, <1>7, <2>1, ReleaseTypes, Empties DEF GiveUp, redis, TypeOK, Entries, ContextReplies
  <1>8. CASE Finish(w)
    <2>1. Release(w) BY <1>8 DEF Finish
    <2>2. outbox' \in [Servers -> SUBSET Messages] BY <1>0, <1>8 DEF Finish, TypeOK
    <2> QED BY <1>8, <2>1, <2>2, ReleaseTypes DEF Finish, redis, TypeOK, Entries, ContextReplies
  <1>9. CASE AppendFails(w)
    <2>1. Release(w) BY <1>9 DEF AppendFails
    <2>2. stream' \subseteq Records /\ results' \in [Commands -> StoredResults] /\ snapshot' = snapshot
      BY <1>0, <1>9, StoreTypes DEF AppendFails, redis, TypeOK, StoredResults
    <2>3. faults' \in 0..MaxFaults BY <1>9 DEF AppendFails, TypeOK
    <2> QED BY <1>0, <1>9, <2>1, <2>2, <2>3, ReleaseTypes
            DEF AppendFails, TypeOK, Entries, ContextReplies, StoredResults
  <1> QED BY <1>1, <1>2, <1>3, <1>4, <1>5, <1>6, <1>7, <1>8, <1>9 DEF Commit

LEMMA EnvironmentTypes ==
    ASSUME TypeOK,
           \/ \E s \in Servers : (\E m \in outbox[s] : Publish(s, m)) \/ Evict(s) \/ Crash(s)
           \/ \E c \in Commands : Redeliver(c)
    PROVE  TypeOK'
  <1>1. ASSUME NEW s \in Servers, NEW m \in outbox[s], Publish(s, m) PROVE TypeOK'
    BY <1>1 DEF Publish, redis, worker, TypeOK
  <1>2. ASSUME NEW s \in Servers, Evict(s) PROVE TypeOK'
    BY <1>2, Empties DEF Evict, redis, worker, TypeOK
  <1>3. ASSUME NEW s \in Servers, Crash(s) PROVE TypeOK'
    <2>1. faults' \in 0..MaxFaults /\ copies' \in [Commands -> Nat]
      BY <1>3 DEF Crash, TypeOK
    <2>2. lost' \subseteq Commands BY <1>3 DEF Crash, TypeOK, Messages
    <2>3. /\ entry' \in [Workers -> Entries] /\ reply' \in [Workers -> ContextReplies]
          /\ cache' \in [Servers -> Aggregates]
      BY <1>3, Empties DEF Crash, TypeOK, Entries, ContextReplies
    <2>4. /\ pc' \in [Workers -> {"idle", "begin", "events", "set", "snapshot", "handle",
                                   "append", "appended", "conflict", "finish"}]
          /\ cmd' \in [Workers -> Commands \cup {NoCommand}]
          /\ from' \in [Workers -> Nat]
          /\ retries' \in [Workers -> 0..RetryCount]
          /\ messages' \in [Workers -> SUBSET Messages]
          /\ outbox' \in [Servers -> SUBSET Messages]
      BY <1>3 DEF Crash, TypeOK
    <2> QED BY <1>3, <2>1, <2>2, <2>3, <2>4 DEF Crash, redis, TypeOK, Entries, ContextReplies
  <1>4. ASSUME NEW c \in Commands, Redeliver(c) PROVE TypeOK'
    BY <1>4 DEF Redeliver, redis, worker, TypeOK
  <1> QED BY <1>1, <1>2, <1>3, <1>4

LEMMA TypeStep == Inv /\ [Next]_vars => TypeOK'
  <1> SUFFICES ASSUME Inv, [Next]_vars PROVE TypeOK'
    OBVIOUS
  <1>1. CASE UNCHANGED vars
    BY <1>1 DEF Inv, TypeOK, vars, redis, worker
  <1>2. CASE Next
    BY <1>2, LoadTypes, CommitTypes, EnvironmentTypes DEF Next, Work, Inv
  <1> QED BY <1>1, <1>2

-----------------------------------------------------------------------------
(* The invariant: steps that leave the store alone *)

LEMMA QuietStream ==
    ASSUME StreamDense, UNCHANGED stream
    PROVE  StreamDense' /\ Top(stream)' = Top(stream) /\ Top(stream) \in Nat
  BY DEF StreamDense

LEMMA QuietMessages ==
    ASSUME ResultsTrue, MessagesTrue, UNCHANGED <<stream, results, sent, outbox, messages>>
    PROVE  ResultsTrue' /\ MessagesTrue'
  <1>1. OnTheWay' = OnTheWay BY DEF OnTheWay
  <1>2. \A m : Ledger!Justified(m)' = Ledger!Justified(m)
    BY Zenon DEF Ledger!Justified, Ledger!NoOutcome
  <1> QED BY <1>1, <1>2 DEF MessagesTrue, ResultsTrue

LEMMA OnTheWayOf ==
    /\ \A m : m \in OnTheWay <=> (\E s \in Servers : m \in outbox[s]) \/ (\E w \in Workers : m \in messages[w])
    /\ \A m : m \in OnTheWay' <=> (\E s \in Servers : m \in outbox'[s]) \/ (\E w \in Workers : m \in messages'[w])
  <1>1. ASSUME NEW m
        PROVE  m \in OnTheWay <=> (\E s \in Servers : m \in outbox[s]) \/ (\E w \in Workers : m \in messages[w])
    <2> DEFINE A == UNION {outbox[s] : s \in Servers}
               B == UNION {messages[w] : w \in Workers}
    <2>1. m \in A <=> \E s \in Servers : m \in outbox[s]
      OBVIOUS
    <2>2. m \in B <=> \E w \in Workers : m \in messages[w]
      OBVIOUS
    <2>3. OnTheWay = A \cup B BY DEF OnTheWay
    <2> HIDE DEF A, B
    <2> QED BY <2>1, <2>2, <2>3
  <1>2. ASSUME NEW m
        PROVE  m \in OnTheWay' <=> (\E s \in Servers : m \in outbox'[s]) \/ (\E w \in Workers : m \in messages'[w])
    <2> DEFINE A == UNION {outbox'[s] : s \in Servers}
               B == UNION {messages'[w] : w \in Workers}
    <2>1. m \in A <=> \E s \in Servers : m \in outbox'[s]
      OBVIOUS
    <2>2. m \in B <=> \E w \in Workers : m \in messages'[w]
      OBVIOUS
    <2>3. OnTheWay' = A \cup B BY DEF OnTheWay
    <2> HIDE DEF A, B
    <2> QED BY <2>1, <2>2, <2>3
  <1> QED BY <1>1, <1>2

LEMMA InitInv == Init => LedgerInv
  <1> SUFFICES ASSUME Init PROVE LedgerInv
    OBVIOUS
  <1>1. stream = {} /\ Top(stream) = 0 BY DEF Init, Top
  <1>2. StreamDense
    <2>1. IsFiniteSet(stream) BY <1>1, FS_EmptySet
    <2> QED BY <1>1, <2>1 DEF StreamDense
  <1>3. WorkersPlaced BY DEF Init, WorkersPlaced, Workers
  <1>4. NothingAhead BY <1>1 DEF Init, NothingAhead, NoAggregate, NoEntry
  <1>5. AttemptsReady BY DEF Init, AttemptsReady
  <1>6. OnTheWay = {} BY DEF Init, OnTheWay
  <1>7. MessagesTrue BY <1>6 DEF Init, MessagesTrue
  <1>8. ResultsTrue BY <1>1 DEF Init, ResultsTrue, NoResult
  <1> QED BY <1>2, <1>3, <1>4, <1>5, <1>7, <1>8 DEF LedgerInv

\* Loading and handling.
LEMMA LoadInv ==
    ASSUME Inv, NEW w \in Workers,
           \/ Load(w) \/ Query(w) \/ EndQuery(w) \/ LoadFails(w)
           \/ \E c \in Commands : Receive(w, c)
           \/ \E after \in {entry[w]} \cup Raised(w), outcome \in Results : Handle(w, after, outcome)
    PROVE  LedgerInv' /\ UNCHANGED <<stream, results, sent>>
  <1> USE HostType DEF Inv, LedgerInv
  <1>0. UNCHANGED <<stream, results, sent, outbox, messages>>
    BY DEF Load, LoadCached, LoadSnapshot, LoadEvents, LoadSet, UpdateSnapshot, Query, EndQuery,
           LoadFails, Receive, Handle, redis
  <1>1. StreamDense' /\ ResultsTrue' /\ MessagesTrue' /\ Top(stream)' = Top(stream) /\ Top(stream) \in Nat
    BY <1>0, QuietStream, QuietMessages
  <1> DEFINE top == Top(stream)
  <1>2. top' = top /\ top \in Nat BY <1>1
  <1>3. /\ snapshot.version \in Nat /\ \A s \in Servers : cache[s].version \in Nat
        /\ \A v \in Workers : entry[v].version \in Nat /\ entry[v].ag.version \in Nat
    BY DEF TypeOK, Aggregates
  <1>4. Host[w] \in Servers OBVIOUS
  <1> DEFINE Rest == WorkersPlaced' /\ NothingAhead' /\ AttemptsReady'
  <1> SUFFICES Rest BY <1>0, <1>1
  <1>5. CASE LoadCached(w)
    BY <1>2, <1>3, <1>4, <1>5
       DEF LoadCached, Goto, Entry, WorkersPlaced, NothingAhead, AttemptsReady, AttemptReady, Changed,
           redis, TypeOK
  <1>6. CASE LoadSnapshot(w)
    BY <1>2, <1>3, <1>6
       DEF LoadSnapshot, Goto, Entry, WorkersPlaced, NothingAhead, AttemptsReady, AttemptReady, Changed,
           redis, TypeOK
  <1>7. CASE LoadEvents(w)
    <2> DEFINE ag == Replay(entry[w].ag, GetEvents(from[w] + 1))
    <2>1. from[w] \in Nat BY DEF TypeOK
    <2>2. ag.version <= top /\ ag.version \in Nat
      <3>1. ag.version = IF GetEvents(from[w] + 1) = {} THEN entry[w].ag.version
                         ELSE Top(GetEvents(from[w] + 1))
        BY DEF Replay
      <3>2. entry[w].ag.version <= top BY <1>7 DEF LoadEvents, NothingAhead
      <3> QED BY <2>1, <3>1, <3>2, <1>2, <1>3, EventsTop
    <2>3. PICK place \in {"handle", "set"} :
            entry' = [entry EXCEPT ![w] = Entry(ag)] /\ pc' = [pc EXCEPT ![w] = place]
      BY <1>7 DEF LoadEvents, Goto
    <2>4. /\ Entry(ag).version <= top /\ Entry(ag).ag.version <= top
          /\ Entry(ag).version = Entry(ag).ag.version
      BY <2>2 DEF Entry
    <2>5. pc[w] = "events" /\ UNCHANGED <<cache, snapshot, cmd, reply>>
      BY <1>7 DEF LoadEvents, redis
    <2> HIDE DEF ag, top
    <2>6. WorkersPlaced' BY <2>3, <2>5 DEF WorkersPlaced, TypeOK
    <2>7. NothingAhead' BY <2>3, <2>4, <2>5, <1>2, <1>3 DEF NothingAhead, TypeOK, top
    <2>8. AttemptsReady' BY <2>3, <2>5, <1>2 DEF AttemptsReady, AttemptReady, Changed, TypeOK, top
    <2> QED BY <2>6, <2>7, <2>8
  <1>8. CASE LoadSet(w)
    BY <1>2, <1>3, <1>4, <1>8
       DEF LoadSet, Goto, WorkersPlaced, NothingAhead, AttemptsReady, AttemptReady, Changed, redis, TypeOK
  <1>9. CASE UpdateSnapshot(w)
    BY <1>2, <1>3, <1>9
       DEF UpdateSnapshot, Goto, WorkersPlaced, NothingAhead, AttemptsReady, AttemptReady, Changed, TypeOK
  <1>10. CASE Query(w)
    <2>1. w \notin Threads BY <1>10, HostAssumption DEF Query
    <2> QED
      BY <1>2, <1>3, <1>10, <2>1
       DEF Query, Goto, WorkersPlaced, NothingAhead, AttemptsReady, AttemptReady, Changed, redis, TypeOK
  <1>11. CASE EndQuery(w)
    BY <1>2, <1>3, <1>11
       DEF EndQuery, Goto, NoEntry, NoAggregate, WorkersPlaced, NothingAhead, AttemptsReady, AttemptReady,
           Changed, redis, TypeOK
  <1>12. CASE LoadFails(w)
    BY <1>2, <1>3, <1>12
       DEF LoadFails, Goto, NoEntry, NoAggregate, WorkersPlaced, NothingAhead, AttemptsReady, AttemptReady,
           Changed, redis, TypeOK
  <1>13. ASSUME NEW c \in Commands, Receive(w, c) PROVE Rest
    <2>1. PICK place \in {"begin", "handle"} : pc' = [pc EXCEPT ![w] = place]
      BY <1>13 DEF Receive, Goto
    <2>2. /\ w \in Threads /\ pc[w] = "idle" /\ cmd' = [cmd EXCEPT ![w] = c]
          /\ UNCHANGED <<cache, snapshot, entry, reply>>
      BY <1>13 DEF Receive, redis
    <2>3. entry[w] = NoEntry /\ w \notin Readers BY <2>2, HostAssumption DEF WorkersPlaced
    <2>4. WorkersPlaced' BY <2>1, <2>2, <2>3 DEF WorkersPlaced, TypeOK, Workers
    <2>5. NothingAhead' BY <1>2, <1>3, <2>1, <2>2, <2>3 DEF NothingAhead, NoEntry, NoAggregate, TypeOK
    <2>6. AttemptsReady' BY <1>2, <2>1, <2>2 DEF AttemptsReady, AttemptReady, TypeOK
    <2> QED BY <2>4, <2>5, <2>6
  <1>14. ASSUME NEW after \in {entry[w]} \cup Raised(w), NEW outcome \in Results, Handle(w, after, outcome)
         PROVE  Rest
    <2>1. /\ w \in Threads /\ pc[w] = "handle" /\ cmd[w] \in Commands
          /\ entry[w].version = entry[w].ag.version /\ entry[w].ag.version <= top
      BY <1>14 DEF Handle, WorkersPlaced, NothingAhead
    <2> DEFINE e == after
    <2>2. /\ e.version <= top /\ e.version \in Nat
          /\ Changed(e) => e.ag.version = e.version + 1
          /\ ~Changed(e) => e.ag.version <= top
          /\ Changed(e) => cmd[w] \in IF e.version = 0 THEN Creates ELSE Modifies
          /\ e.ag.version \in Nat
      <3>1. CASE e = entry[w] BY <1>2, <1>3, <2>1, <3>1 DEF Changed
      <3>2. CASE e \in Raised(w) BY <1>2, <1>3, <2>1, <3>2, RaisedOf DEF Changed, NoAggregate
      <3> QED BY <3>1, <3>2
    <2>3. /\ entry' = [entry EXCEPT ![w] = e] /\ pc' = [pc EXCEPT ![w] = "append"]
          /\ UNCHANGED <<cache, snapshot, cmd>>
      BY <1>14 DEF Handle, Goto, redis
    <2>4. /\ outcome = "null" => cmd[w] \in Silent
          /\ outcome # "null" => reply' = [reply EXCEPT ![w] =
                [outcome |-> outcome, version |-> e.ag.version, app |-> outcome = "domain"]]
          /\ outcome = "null" => reply' = [reply EXCEPT ![w] = NoReply]
      BY <1>14 DEF Handle, Return
    <2> HIDE DEF e, top
    <2>5. WorkersPlaced' BY <2>1, <2>3 DEF WorkersPlaced, TypeOK
    <2>6. NothingAhead' BY <2>1, <2>2, <2>3, <1>2, <1>3 DEF NothingAhead, TypeOK, top
    <2>7. AttemptReady(w)'
      <3>1. entry'[w] = e /\ cmd'[w] = cmd[w] BY <2>3 DEF TypeOK
      <3>2. CASE outcome = "null"
        <4>1. reply'[w] = NoReply BY <3>2, <2>4 DEF TypeOK
        <4> QED BY <1>2, <2>2, <2>4, <3>1, <3>2, <4>1 DEF AttemptReady, NoReply, Changed, top
      <3>3. CASE outcome # "null"
        <4>1. reply'[w].outcome = outcome /\ reply'[w].version = e.ag.version
          BY <3>3, <2>4 DEF TypeOK
        <4> QED BY <1>2, <2>2, <2>4, <3>1, <3>3, <4>1 DEF AttemptReady, Changed, top
      <3> QED BY <3>2, <3>3
    <2>8. ASSUME NEW v \in Workers, v # w, pc'[v] = "append" PROVE AttemptReady(v)'
      <3>1. pc[v] = "append" /\ entry'[v] = entry[v] /\ reply'[v] = reply[v] /\ cmd'[v] = cmd[v]
        BY <2>3, <2>4, <2>8 DEF TypeOK
      <3> QED BY <1>2, <3>1 DEF AttemptsReady, AttemptReady, top
    <2>9. AttemptsReady' BY <2>7, <2>8 DEF AttemptsReady
    <2> QED BY <2>5, <2>6, <2>9
  <1> QED BY <1>5, <1>6, <1>7, <1>8, <1>9, <1>10, <1>11, <1>12, <1>13, <1>14 DEF Load

-----------------------------------------------------------------------------
(* The script that stores a command *)

\* A stream that is not empty has a top.
LEMMA TopPositive ==
    ASSUME TypeOK, StreamDense
    PROVE  Top(stream) \in Nat /\ (stream # {} <=> Top(stream) > 0)
  <1>1. stream # {} => 1..Top(stream) # {} BY DEF StreamDense
  <1>2. stream = {} => Top(stream) = 0 BY DEF Top
  <1> QED BY <1>1, <1>2 DEF StreamDense

\* The version check lets an event in only right after the last one.
LEMMA StoreEffect ==
    ASSUME Inv, NEW w \in Threads, pc[w] = "append", Store(w)
    PROVE  /\ StreamDense'
           /\ cmd[w] \in Commands
           /\ results[cmd[w]] = NoResult
           /\ results' = [results EXCEPT ![cmd[w]] = Result(w)]
           /\ ~Changed(entry[w]) => stream' = stream /\ Top(stream)' = Top(stream)
           /\ Changed(entry[w]) =>
                /\ entry[w].version = Top(stream)
                /\ stream' = stream \cup {[cmd |-> cmd[w], version |-> Top(stream) + 1]}
                /\ Top(stream)' = Top(stream) + 1
                /\ cmd[w] \notin Modifies => stream = {}
  <1>1. cmd[w] \in Commands BY DEF Inv, LedgerInv, WorkersPlaced
  <1>2. results[cmd[w]] = NoResult /\ results' = [results EXCEPT ![cmd[w]] = Result(w)]
    BY DEF Store
  <1>3. CASE ~Changed(entry[w])
    <2>1. stream' = stream BY <1>3 DEF Store
    <2> QED BY <1>1, <1>2, <1>3, <2>1, QuietStream DEF Inv, LedgerInv
  <1>4. CASE Changed(entry[w])
    <2>1. Top(stream) \in Nat /\ (stream # {} <=> Top(stream) > 0)
      BY TopPositive DEF Inv, LedgerInv
    <2>2. entry[w].version <= Top(stream) /\ entry[w].version \in Nat
      BY DEF Inv, LedgerInv, NothingAhead, TypeOK, Workers
    <2>3. entry[w].version = Top(stream)
      BY <1>4, <2>1, <2>2 DEF Store, Expected
    <2>4. stream' = stream \cup {[cmd |-> cmd[w], version |-> Top(stream) + 1]}
      BY <1>4, <2>3 DEF Store
    <2>5. cmd[w] \notin Modifies => stream = {}
      <3>1. cmd[w] \notin Modifies => entry[w].version = 0
        BY <1>4 DEF Inv, LedgerInv, AttemptsReady, AttemptReady, Workers
      <3> QED BY <2>1, <2>3, <3>1
    <2>6. stream \in SUBSET Records /\ {r.version : r \in stream} = 1..Top(stream) /\ IsFiniteSet(stream)
      BY DEF Inv, LedgerInv, StreamDense, TypeOK
    <2>7. IsFiniteSet(stream') BY <2>4, <2>6, FS_AddElement
    <2> DEFINE n == Top(stream)
    <2> HIDE DEF n
    <2>8. n \in Nat /\ {r.version : r \in stream} = 1..n /\ stream' = stream \cup {[cmd |-> cmd[w], version |-> n + 1]}
      BY <2>1, <2>4, <2>6 DEF n
    <2>9. Top(stream') = n + 1 /\ {r.version : r \in stream'} = 1..(n + 1)
      BY <1>1, <2>6, <2>8, TopOfAppend
    <2>10. Top(stream)' = n + 1 /\ StreamDense'
      <3>1. Top(stream)' = Top(stream') BY DEF Top
      <3>2. Top(stream)' = n + 1 /\ n + 1 \in Nat BY <2>8, <2>9, <3>1
      <3> QED BY <2>7, <2>9, <3>2 DEF StreamDense
    <2> QED BY <1>1, <1>2, <1>4, <2>3, <2>4, <2>5, <2>10 DEF n
  <1> QED BY <1>3, <1>4

\* What is true of the past stays true.
LEMMA JustifiedStable ==
    ASSUME TypeOK, NEW m \in Messages, Ledger!Justified(m), stream \subseteq stream',
           Top(stream) \in Nat, Top(stream)' \in Nat, Top(stream)' >= Top(stream),
           \A c \in Commands : results[c] # NoResult => results'[c] = results[c]
    PROVE  Ledger!Justified(m)'
  <1>1. m.cmd \in Commands BY DEF Messages
  <1>2. results[m.cmd].app => results[m.cmd] # NoResult BY DEF NoResult
  <1>3. NoResult = Ledger!NoOutcome BY DEF NoResult, Ledger!NoOutcome
  <1>4. CASE m.outcome = "event" /\ [cmd |-> m.cmd, version |-> m.version] \in stream
    BY <1>4 DEF Ledger!Justified
  <1>5. CASE m.outcome = "app" /\ results[m.cmd].app
    BY <1>1, <1>2, <1>5 DEF Ledger!Justified
  <1>6. CASE m.outcome = "duplicate" /\ Top(stream) > 0
    BY <1>6 DEF Ledger!Justified
  <1>7. CASE /\ results[m.cmd] # NoResult
             /\ \/ results[m.cmd].outcome = m.outcome /\ results[m.cmd].version = m.version
                \/ results[m.cmd].outcome = "null"
    <2>1. results'[m.cmd] = results[m.cmd] BY <1>1, <1>7
    <2> QED BY <1>3, <1>7, <2>1 DEF Ledger!Justified
  <1> QED BY <1>3, <1>4, <1>5, <1>6, <1>7 DEF Ledger!Justified

\* The messages of a stored result are true.
LEMMA ResultJustified ==
    ASSUME NEW c \in Commands, NEW r, results[c] # NoResult,
           r.app = results[c].app, r.event = results[c].event,
           \/ r.outcome = results[c].outcome /\ r.version = results[c].version
           \/ results[c].outcome = "null",
           results[c].event > 0 => [cmd |-> c, version |-> results[c].event] \in stream,
           NEW m \in MessagesOf(c, r)
    PROVE  Ledger!Justified(m)
  <1>1. NoResult = Ledger!NoOutcome BY DEF NoResult, Ledger!NoOutcome
  <1>2. CASE m = Msg(c, r.outcome, r.version)
    BY <1>1, <1>2 DEF Msg, Ledger!Justified
  <1>3. CASE r.event > 0 /\ m = Msg(c, "event", r.event)
    BY <1>3 DEF Msg, Ledger!Justified
  <1>4. CASE r.app /\ m = Msg(c, "app", 0)
    BY <1>4 DEF Msg, Ledger!Justified
  <1> QED BY <1>2, <1>3, <1>4 DEF MessagesOf

\* So are those of the result that has just been stored.
LEMMA StoredJustified ==
    ASSUME NEW c \in Commands, NEW r, results'[c] = r, r # NoResult,
           r.event > 0 => [cmd |-> c, version |-> r.event] \in stream',
           NEW m \in MessagesOf(c, r)
    PROVE  Ledger!Justified(m)'
  <1>1. NoResult = Ledger!NoOutcome BY DEF NoResult, Ledger!NoOutcome
  <1>2. CASE m = Msg(c, r.outcome, r.version)
    BY <1>1, <1>2 DEF Msg, Ledger!Justified
  <1>3. CASE r.event > 0 /\ m = Msg(c, "event", r.event)
    BY <1>3 DEF Msg, Ledger!Justified
  <1>4. CASE r.app /\ m = Msg(c, "app", 0)
    BY <1>4 DEF Msg, Ledger!Justified
  <1> QED BY <1>2, <1>3, <1>4 DEF MessagesOf

-----------------------------------------------------------------------------
(* The invariant: committing a command *)

LEMMA CommitsOnServer ==
    ASSUME Inv, NEW w \in Workers, Commit(w) \/ AppendFails(w)
    PROVE  w \in Threads /\ cmd[w] \in Commands /\ pc[w] # "idle"
  <1>1. pc[w] \in {"append", "appended", "conflict", "finish"}
    BY DEF Commit, AppendDuplicate, AppendStored, AppendExisting, AppendConflict, CommitCache, Retry,
           GiveUp, Finish, AppendFails
  <1> QED BY <1>1 DEF Inv, LedgerInv, WorkersPlaced, Workers

\* Only the script changes the store, and it only adds.
LEMMA StoreGrows ==
    ASSUME Inv, NEW w \in Threads, Commit(w) \/ AppendFails(w)
    PROVE  /\ (pc[w] = "append" /\ Store(w)) \/ UNCHANGED <<stream, results>>
           /\ StreamDense'
           /\ stream \subseteq stream'
           /\ Top(stream) \in Nat /\ Top(stream)' \in Nat /\ Top(stream)' >= Top(stream)
           /\ \A c \in Commands : results[c] # NoResult => results'[c] = results[c]
  <1>1. (pc[w] = "append" /\ Store(w)) \/ UNCHANGED <<stream, results>>
    BY DEF Commit, AppendDuplicate, AppendStored, AppendExisting, AppendConflict, CommitCache, Retry,
           GiveUp, Finish, AppendFails, redis
  <1>2. CASE UNCHANGED <<stream, results>>
    BY <1>2, QuietStream DEF Inv, LedgerInv
  <1>3. CASE pc[w] = "append" /\ Store(w)
    <2>1. Top(stream) \in Nat BY DEF Inv, LedgerInv, StreamDense
    <2>2. \A c \in Commands : results[c] # NoResult => results'[c] = results[c]
      BY <1>3, StoreEffect DEF Inv, TypeOK
    <2>3. /\ StreamDense' /\ stream \subseteq stream' /\ Top(stream)' \in Nat
          /\ Top(stream)' >= Top(stream)
      BY <1>3, <2>1, StoreEffect
    <2> QED BY <1>3, <2>1, <2>2, <2>3
  <1> QED BY <1>1, <1>2, <1>3

\* The new result says what the attempt was ready to store.
LEMMA StoredResult ==
    ASSUME Inv, NEW w \in Threads, pc[w] = "append", Store(w)
    PROVE  LET r == Result(w) IN
           /\ r.outcome \in Results /\ r # NoResult
           /\ r.event \in Nat /\ r.version \in Nat
           /\ r.event > 0 => /\ Changed(entry[w])
                             /\ r.event = Top(stream) + 1
                             /\ [cmd |-> cmd[w], version |-> r.event] \in stream'
           /\ Changed(entry[w]) => /\ r.event = Top(stream) + 1
                                   /\ r.version = IF r.outcome = "null" THEN 0 ELSE Top(stream) + 1
                                   /\ entry[w].ag.version = Top(stream)'
           /\ r.version <= Top(stream)'
           /\ ~Changed(entry[w]) => r.version <= Top(stream) /\ r.event = 0
           /\ cmd[w] \notin Silent => r.outcome # "null"
  <1> DEFINE r == Result(w)
  <1>1. AttemptReady(w) BY DEF Inv, LedgerInv, AttemptsReady, Workers
  <1>2. /\ r.outcome = reply[w].outcome /\ r.version = reply[w].version
        /\ r.event = IF Changed(entry[w]) THEN entry[w].ag.version ELSE 0
    BY DEF Result
  <1>3. /\ reply[w].outcome \in Results /\ reply[w].version \in Nat
        /\ entry[w].version \in Nat /\ entry[w].ag.version \in Nat
    BY DEF Inv, TypeOK, Workers, Aggregates
  <1>4. Top(stream) \in Nat BY DEF Inv, LedgerInv, StreamDense
  <1>5. r # NoResult BY <1>2, <1>3 DEF NoResult, Results
  <1>6. CASE Changed(entry[w])
    <2>1. /\ entry[w].version = Top(stream) /\ Top(stream)' = Top(stream) + 1
          /\ [cmd |-> cmd[w], version |-> Top(stream) + 1] \in stream'
      BY <1>6, StoreEffect
    <2>2. entry[w].ag.version = Top(stream) + 1 BY <1>1, <1>6, <2>1 DEF AttemptReady
    <2> HIDE DEF r
    <2> QED BY <1>1, <1>2, <1>3, <1>4, <1>5, <1>6, <2>1, <2>2 DEF AttemptReady, r
  <1>7. CASE ~Changed(entry[w])
    <2>1. Top(stream)' = Top(stream) BY <1>7, StoreEffect
    <2> HIDE DEF r
    <2> QED BY <1>1, <1>2, <1>3, <1>4, <1>5, <1>7, <2>1 DEF AttemptReady, r
  <1> QED BY <1>6, <1>7

\* A command that cannot change an aggregate has no event once there is one.
LEMMA EventForGood ==
    ASSUME Inv, NEW w \in Threads, Commit(w) \/ AppendFails(w), stream # {},
           NEW c \in Commands \ Modifies, results[c].event = 0
    PROVE  results'[c].event = 0
  <1>1. CASE UNCHANGED <<stream, results>> BY <1>1
  <1>2. CASE pc[w] = "append" /\ Store(w)
    <2>1. CASE c = cmd[w]
      <3>1. results'[c] = Result(w) BY <1>2, <2>1, StoreEffect DEF Inv, TypeOK
      <3>2. ~Changed(entry[w]) BY <1>2, <2>1, StoreEffect
      <3>3. Result(w).event = 0 BY <3>2 DEF Result
      <3> QED BY <3>1, <3>3
    <2>2. CASE c # cmd[w]
      <3>1. results'[c] = results[c] BY <1>2, <2>2, StoreEffect DEF Inv, TypeOK
      <3> QED BY <3>1
    <2> QED BY <2>1, <2>2
  <1> QED BY <1>1, <1>2, StoreGrows

LEMMA CommitResults ==
    ASSUME Inv, NEW w \in Threads, Commit(w) \/ AppendFails(w)
    PROVE  ResultsTrue'
  <1>1. CASE UNCHANGED <<stream, results>>
    BY <1>1 DEF Inv, LedgerInv, ResultsTrue
  <1>2. CASE pc[w] = "append" /\ Store(w)
    <2> SUFFICES ASSUME NEW c \in Commands
                 PROVE  /\ results'[c].outcome = "none" => results'[c] = NoResult
                        /\ results'[c].event > 0 => [cmd |-> c, version |-> results'[c].event] \in stream'
                        /\ results'[c].version <= Top(stream)'
                        /\ c \notin Silent => results'[c].outcome # "null"
      BY DEF ResultsTrue
    <2>1. CASE c = cmd[w]
      <3> DEFINE r == Result(w)
      <3>1. results'[c] = r BY <1>2, <2>1, StoreEffect DEF Inv, TypeOK
      <3>2. r.outcome \in Results /\ r.version <= Top(stream)' /\ (c \notin Silent => r.outcome # "null")
        BY <1>2, <2>1, StoredResult
      <3>3. r.event > 0 => [cmd |-> c, version |-> r.event] \in stream' BY <1>2, <2>1, StoredResult
      <3> HIDE DEF r
      <3> QED BY <3>1, <3>2, <3>3 DEF Results
    <2>2. CASE c # cmd[w]
      <3>1. results'[c] = results[c] BY <1>2, <2>2, StoreEffect DEF Inv, TypeOK
      <3>2. stream \subseteq stream' /\ Top(stream) \in Nat /\ Top(stream)' \in Nat
            /\ Top(stream)' >= Top(stream)
        BY StoreGrows
      <3>3. results[c].version \in Nat BY DEF Inv, TypeOK
      <3> QED BY <3>1, <3>2, <3>3 DEF Inv, LedgerInv, ResultsTrue
    <2> QED BY <2>1, <2>2
  <1> QED BY <1>1, <1>2, StoreGrows

LEMMA CommitPlaces ==
    ASSUME Inv, NEW w \in Threads, Commit(w) \/ AppendFails(w)
    PROVE  WorkersPlaced' /\ NothingAhead' /\ AttemptsReady'
  <1> USE HostType DEF Inv, LedgerInv
  <1>1. w \in Workers /\ Host[w] \in Servers /\ cmd[w] \in Commands
    BY CommitsOnServer DEF Workers
  <1>2. Top(stream) \in Nat /\ Top(stream)' \in Nat /\ Top(stream)' >= Top(stream)
    BY StoreGrows
  <1>3. /\ snapshot.version \in Nat /\ \A s \in Servers : cache[s].version \in Nat
        /\ \A v \in Workers : /\ entry[v].version \in Nat /\ entry[v].ag.version \in Nat
                              /\ reply[v].version \in Nat
    BY DEF TypeOK, Aggregates
  <1>4. /\ snapshot' = snapshot
        /\ \A s \in Servers : cache'[s] \in {cache[s], NoAggregate}
                              \/ (pc[w] = "appended" /\ cache'[s] = entry[w].ag)
        /\ entry'[w] \in {entry[w], NoEntry}
        /\ \A v \in Workers : v # w => /\ entry'[v] = entry[v] /\ pc'[v] = pc[v] /\ cmd'[v] = cmd[v]
                                       /\ reply'[v] = reply[v]
        /\ \/ pc'[w] = "begin" /\ entry'[w] = NoEntry /\ pc[w] = "conflict"
           \/ pc'[w] = "idle" /\ entry'[w] = NoEntry
           \/ pc'[w] = "conflict" /\ entry'[w] = entry[w]
           \/ pc'[w] = "finish" /\ entry'[w] = entry[w]
           \/ pc'[w] = "appended" /\ entry'[w] = entry[w] /\ pc[w] = "append" /\ Store(w) /\ Changed(entry[w])
        /\ cmd'[w] = cmd[w] \/ pc'[w] = "idle"
    <2>1. CASE AppendDuplicate(w) BY <1>1, <2>1 DEF AppendDuplicate, Goto, redis, TypeOK
    <2>2. CASE AppendStored(w) BY <1>1, <2>2 DEF AppendStored, Goto, TypeOK
    <2>3. CASE AppendExisting(w) BY <1>1, <2>3 DEF AppendExisting, Goto, redis, TypeOK
    <2>4. CASE AppendConflict(w) BY <1>1, <2>4 DEF AppendConflict, Goto, redis, TypeOK
    <2>5. CASE CommitCache(w) BY <1>1, <2>5 DEF CommitCache, Goto, redis, TypeOK
    <2>6. CASE Retry(w) BY <1>1, <2>6 DEF Retry, Goto, redis, TypeOK
    <2>7. CASE GiveUp(w) BY <1>1, <2>7 DEF GiveUp, Release, Goto, redis, TypeOK
    <2>8. CASE Finish(w) BY <1>1, <2>8 DEF Finish, Release, Goto, redis, TypeOK
    <2>9. CASE AppendFails(w) BY <1>1, <2>9 DEF AppendFails, Release, Goto, redis, TypeOK
    <2> QED BY <2>1, <2>2, <2>3, <2>4, <2>5, <2>6, <2>7, <2>8, <2>9 DEF Commit
  <1>5. pc[w] = "append" /\ Store(w) /\ Changed(entry[w]) => entry[w].ag.version = Top(stream)'
    BY StoredResult
  <1>6. NoEntry.version = 0 /\ NoEntry.ag.version = 0 /\ NoAggregate.version = 0
    BY DEF NoEntry, NoAggregate
  <1>7. WorkersPlaced'
    <2>1. w \notin Readers BY HostAssumption
    <2>2. ASSUME NEW v \in Workers
          PROVE /\ v \in Threads => (pc'[v] # "idle" => cmd'[v] \in Commands)
                /\ v \in Readers => /\ pc'[v] \in {"idle", "begin", "events", "set", "snapshot", "handle"}
                                    /\ cmd'[v] = NoCommand
                /\ pc'[v] \in {"begin", "idle"} => entry'[v] = NoEntry
      <3>1. CASE v = w
        <4>1. pc'[w] \in {"begin", "idle", "conflict", "finish", "appended"} BY <1>4
        <4>3. pc'[w] # "idle" => cmd'[w] \in Commands BY <1>1, <1>4
        <4>4. pc'[w] \in {"begin", "idle"} => entry'[w] = NoEntry BY <1>4
        <4> QED BY <2>1, <3>1, <4>1, <4>3, <4>4
      <3>2. CASE v # w BY <1>4, <2>2, <3>2 DEF WorkersPlaced
      <3> QED BY <3>1, <3>2
    <2> QED BY <2>2 DEF WorkersPlaced, Workers
  <1>8. NothingAhead'
    <2>1. snapshot'.version <= Top(stream)' BY <1>2, <1>3, <1>4 DEF NothingAhead
    <2>2. ASSUME NEW s \in Servers PROVE cache'[s].version <= Top(stream)'
      BY <1>1, <1>2, <1>3, <1>4, <1>6, <2>2 DEF NothingAhead
    <2>3. ASSUME NEW v \in Workers
          PROVE /\ entry'[v].version <= Top(stream)'
                /\ pc'[v] \notin {"append", "conflict", "finish"} => entry'[v].ag.version <= Top(stream)'
                /\ pc'[v] \in {"events", "set", "snapshot", "handle"} => entry'[v].version = entry'[v].ag.version
      <3>1. CASE v = w
        BY <1>1, <1>2, <1>3, <1>4, <1>5, <1>6, <2>3, <3>1 DEF NothingAhead
      <3>2. CASE v # w
        BY <1>2, <1>3, <1>4, <2>3, <3>2 DEF NothingAhead
      <3> QED BY <3>1, <3>2
    <2> QED BY <2>1, <2>2, <2>3 DEF NothingAhead
  <1>9. AttemptsReady'
    <2> SUFFICES ASSUME NEW v \in Workers, pc'[v] = "append" PROVE AttemptReady(v)'
      BY DEF AttemptsReady
    <2>1. v # w /\ pc[v] = "append" BY <1>4
    <2>2. AttemptReady(v) BY <2>1 DEF AttemptsReady
    <2> QED BY <1>2, <1>3, <1>4, <2>1, <2>2 DEF AttemptReady, Changed
  <1> QED BY <1>7, <1>8, <1>9

\* The messages that become visible to others are the ones the answer of the script
\* gives rise to.
LEMMA CommitMessages ==
    ASSUME Inv, NEW w \in Threads, Commit(w) \/ AppendFails(w)
    PROVE  MessagesTrue' /\ sent' = sent
  <1> USE DEF Inv, LedgerInv
  <1>1. w \in Workers /\ cmd[w] \in Commands BY CommitsOnServer DEF Workers
  <1> DEFINE top == Top(stream)
             New == IF AppendDuplicate(w) \/ AppendStored(w) \/ AppendExisting(w) THEN messages'[w] ELSE {}
  <1>2. /\ top \in Nat /\ top' \in Nat /\ top' >= top /\ stream \subseteq stream'
        /\ \A c \in Commands : results[c] # NoResult => results'[c] = results[c]
    BY StoreGrows
  <1>3. sent' = sent /\ OnTheWay' \subseteq OnTheWay \cup New
    <2>1. /\ sent' = sent
          /\ \A v \in Workers : v # w => messages'[v] = messages[v]
          /\ \A s \in Servers : outbox'[s] \subseteq outbox[s] \cup messages[w]
          /\ messages'[w] \subseteq messages[w] \cup New
      <3>1. CASE AppendDuplicate(w) BY <1>1, <3>1 DEF AppendDuplicate, TypeOK
      <3>2. CASE AppendStored(w) BY <1>1, <3>2 DEF AppendStored, TypeOK
      <3>3. CASE AppendExisting(w) BY <1>1, <3>3 DEF AppendExisting, TypeOK
      <3>4. CASE AppendConflict(w) BY <1>1, <3>4 DEF AppendConflict, TypeOK
      <3>5. CASE CommitCache(w) BY <1>1, <3>5 DEF CommitCache, TypeOK
      <3>6. CASE Retry(w) BY <1>1, <3>6 DEF Retry, TypeOK
      <3>7. CASE GiveUp(w) BY <1>1, <3>7 DEF GiveUp, Release, TypeOK
      <3>8. CASE Finish(w) BY <1>1, <3>8 DEF Finish, Release, TypeOK
      <3>9. CASE AppendFails(w) BY <1>1, <3>9 DEF AppendFails, Release, TypeOK
      <3> QED BY <3>1, <3>2, <3>3, <3>4, <3>5, <3>6, <3>7, <3>8, <3>9 DEF Commit
    <2> HIDE DEF New
    <2> QED BY <1>1, <2>1, OnTheWayOf
  <1>4. OnTheWay \subseteq Messages /\ sent \subseteq Messages
    <2>1. ASSUME NEW m \in OnTheWay PROVE m \in Messages
      <3>1. (\E s \in Servers : m \in outbox[s]) \/ (\E v \in Workers : m \in messages[v])
        BY <2>1, OnTheWayOf
      <3> QED BY <3>1 DEF TypeOK
    <2> QED BY <2>1 DEF TypeOK
  <1>5. ASSUME NEW m \in OnTheWay \cup sent
        PROVE  /\ Ledger!Justified(m)'
               /\ m \in OnTheWay => m.version <= top' + 1
               /\ m.outcome = "duplicate" =>
                    m.version = 0 /\ stream' # {} /\ (m.cmd \notin Modifies => results'[m.cmd].event = 0)
    <2>1. m \in Messages /\ m.version \in Nat /\ m.cmd \in Commands BY <1>4 DEF Messages
    <2>2. Ledger!Justified(m) BY DEF MessagesTrue
    <2>3. Ledger!Justified(m)' BY <1>2, <2>1, <2>2, JustifiedStable
    <2>4. m \in OnTheWay => m.version <= top' + 1 BY <1>2, <2>1 DEF MessagesTrue
    <2>5. ASSUME m.outcome = "duplicate"
          PROVE  m.version = 0 /\ stream' # {} /\ (m.cmd \notin Modifies => results'[m.cmd].event = 0)
      <3>1. m.version = 0 /\ stream # {} /\ (m.cmd \notin Modifies => results[m.cmd].event = 0)
        BY <2>5 DEF MessagesTrue
      <3>2. ASSUME m.cmd \notin Modifies PROVE results'[m.cmd].event = 0
        BY <1>1, <2>1, <3>1, <3>2, EventForGood
      <3> QED BY <1>2, <3>1, <3>2
    <2> QED BY <2>3, <2>4, <2>5
  <1>6. ASSUME NEW m \in New
        PROVE  /\ Ledger!Justified(m)'
               /\ m.version <= top' + 1
               /\ m.outcome = "duplicate" =>
                    m.version = 0 /\ stream' # {} /\ (m.cmd \notin Modifies => results'[m.cmd].event = 0)
    <2> DEFINE c == cmd[w]
    <2>1. CASE AppendDuplicate(w)
      <3> DEFINE r == Replayed(w, results[c])
      <3>1. /\ m \in MessagesOf(c, r) /\ results[c] # NoResult
            /\ UNCHANGED <<stream, results>>
        BY <1>1, <2>1 DEF AppendDuplicate, redis, TypeOK
      <3>2. /\ results[c].version \in Nat /\ results[c].event \in Nat /\ results[c].version <= top
            /\ results[c].outcome \in Results
            /\ results[c].event > 0 => [cmd |-> c, version |-> results[c].event] \in stream
        BY <1>1, <3>1 DEF TypeOK, ResultsTrue
      <3>3. /\ reply[w].version \in Nat /\ reply[w].version <= top + 1 /\ reply[w].outcome \in Results
        <4>1. /\ reply[w].version \in Nat /\ reply[w].outcome \in Results /\ entry[w].version \in Nat
              /\ entry[w].version <= top
          BY <1>1 DEF TypeOK, NothingAhead
        <4>2. AttemptReady(w) BY <1>1, <2>1 DEF AppendDuplicate, AttemptsReady
        <4> QED BY <1>2, <4>1, <4>2 DEF AttemptReady
      <3>4. /\ r.app = results[c].app /\ r.event = results[c].event
            /\ \/ r.outcome = results[c].outcome /\ r.version = results[c].version
               \/ /\ results[c].outcome = "null"
                  /\ r.outcome = reply[w].outcome /\ r.version = reply[w].version
        BY <1>1 DEF Replayed, TypeOK
      <3> HIDE DEF r
      <3>5. Ledger!Justified(m) BY <1>1, <3>1, <3>2, <3>4, ResultJustified
      <3>6. results[c].event > 0 => results[c].event <= top
        <4>1. ASSUME results[c].event > 0 PROVE results[c].event \in 1..top
          BY <3>2, <4>1 DEF StreamDense
        <4> QED BY <4>1, <1>2
      <3>7. m.version <= top + 1 /\ m.outcome # "duplicate"
        BY <1>2, <3>1, <3>2, <3>3, <3>4, <3>6 DEF MessagesOf, Msg, Results
      <3>8. Ledger!Justified(m)'
        <4>1. m.cmd = c /\ m \in Messages
          <5>1. r.outcome \in Outcomes /\ r.version \in Nat /\ r.event \in Nat
            BY <3>2, <3>3, <3>4 DEF Outcomes
          <5>2. \E o \in Outcomes \cup {"event", "app"}, v \in Nat : m = Msg(c, o, v)
            BY <3>1, <5>1 DEF MessagesOf
          <5> QED BY <1>1, <5>2 DEF Msg, Messages
        <4> QED BY <1>2, <3>5, <4>1, JustifiedStable
      <3> QED BY <1>2, <3>1, <3>7, <3>8
    <2>2. CASE AppendStored(w)
      <3> DEFINE r == Result(w)
      <3>1. pc[w] = "append" /\ Store(w) BY <2>2 DEF AppendStored
      <3>2. m \in MessagesOf(c, r) BY <1>1, <2>2 DEF AppendStored, TypeOK
      <3>3. results'[c] = r BY <1>1, <3>1, StoreEffect DEF TypeOK
      <3>4. /\ r.outcome \in Results /\ r # NoResult /\ r.event \in Nat /\ r.version \in Nat
            /\ r.version <= top'
            /\ r.event > 0 => r.event = top + 1 /\ [cmd |-> c, version |-> r.event] \in stream'
        BY <3>1, StoredResult
      <3> HIDE DEF r
      <3>5. Ledger!Justified(m)' BY <1>1, <3>2, <3>3, <3>4, StoredJustified
      <3>6. m.version <= top' + 1 /\ m.outcome # "duplicate"
        BY <1>2, <3>2, <3>4 DEF MessagesOf, Msg, Results
      <3> QED BY <3>5, <3>6
    <2>3. CASE AppendExisting(w)
      <3>1. m = Msg(c, "duplicate", 0) BY <1>1, <2>3 DEF AppendExisting, TypeOK
      <3>2. /\ pc[w] = "append" /\ Refused(w) /\ entry[w].version = 0 /\ UNCHANGED <<stream, results>>
        BY <2>3 DEF AppendExisting, redis
      <3>3. stream # {} /\ results[c] = NoResult BY <3>2 DEF Refused, Expected
      <3>4. top > 0 BY <3>3, TopPositive
      <3>5. Ledger!Justified(m)' BY <1>2, <3>1, <3>4 DEF Msg, Ledger!Justified
      <3>6. results[c].event = 0 BY <3>3 DEF NoResult
      <3> QED BY <1>2, <3>1, <3>2, <3>3, <3>5, <3>6 DEF Msg
    <2> QED BY <2>1, <2>2, <2>3
  <1> HIDE DEF New
  <1> QED BY <1>3, <1>5, <1>6 DEF MessagesTrue

LEMMA CommitInv ==
    ASSUME Inv, NEW w \in Workers, Commit(w) \/ AppendFails(w)
    PROVE  LedgerInv'
  BY CommitsOnServer, StoreGrows, CommitPlaces, CommitResults, CommitMessages DEF LedgerInv

-----------------------------------------------------------------------------
(* The invariant: the environment *)

\* Dropping messages, or moving them into sent, leaves the others true.
LEMMA FewerMessages ==
    ASSUME ResultsTrue, MessagesTrue, UNCHANGED <<stream, results>>,
           OnTheWay' \subseteq OnTheWay, sent' \subseteq sent \cup OnTheWay
    PROVE  ResultsTrue' /\ MessagesTrue'
  <1>1. \A m : Ledger!Justified(m)' = Ledger!Justified(m)
    BY Zenon DEF Ledger!Justified, Ledger!NoOutcome
  <1> QED BY <1>1 DEF MessagesTrue, ResultsTrue

LEMMA EnvironmentInv ==
    ASSUME Inv,
           \/ \E s \in Servers : (\E m \in outbox[s] : Publish(s, m)) \/ Evict(s) \/ Crash(s)
           \/ \E c \in Commands : Redeliver(c)
    PROVE  LedgerInv' /\ UNCHANGED <<stream, results>>
  <1> USE HostType DEF Inv, LedgerInv
  <1>1. ASSUME NEW s \in Servers, NEW m \in outbox[s], Publish(s, m)
        PROVE  LedgerInv' /\ UNCHANGED <<stream, results>>
    <2>1. UNCHANGED <<redis, copies, cache, worker, lost, faults>> BY <1>1 DEF Publish
    <2>2. StreamDense' /\ Top(stream)' = Top(stream) BY <2>1, QuietStream DEF redis
    <2>3. OnTheWay' \subseteq OnTheWay /\ sent' \subseteq sent \cup OnTheWay
      <3>1. \A t \in Servers : outbox'[t] \subseteq outbox[t] BY <1>1 DEF Publish, TypeOK
      <3>2. messages' = messages /\ sent' = sent \cup {m} BY <1>1 DEF Publish, worker
      <3> QED BY <3>1, <3>2, OnTheWayOf
    <2>4. ResultsTrue' /\ MessagesTrue' BY <2>1, <2>3, FewerMessages DEF redis
    <2>5. WorkersPlaced' /\ NothingAhead' /\ AttemptsReady'
      BY <2>1, <2>2 DEF worker, redis, WorkersPlaced, NothingAhead, AttemptsReady, AttemptReady
    <2> QED BY <2>1, <2>2, <2>4, <2>5 DEF redis
  <1>2. ASSUME NEW s \in Servers, Evict(s) PROVE LedgerInv' /\ UNCHANGED <<stream, results>>
    <2>1. UNCHANGED <<redis, copies, sent, outbox, worker, lost, faults>> BY <1>2 DEF Evict
    <2>2. StreamDense' /\ Top(stream)' = Top(stream) /\ Top(stream) \in Nat
      BY <2>1, QuietStream DEF redis
    <2>3. ResultsTrue' /\ MessagesTrue' BY <2>1, QuietMessages DEF redis, worker
    <2>4. \A t \in Servers : cache'[t] \in {cache[t], NoAggregate} BY <1>2 DEF Evict, TypeOK
    <2>5. NoAggregate.version <= Top(stream) BY <2>2 DEF NoAggregate
    <2>6. NothingAhead' BY <2>1, <2>2, <2>4, <2>5 DEF worker, redis, NothingAhead
    <2>7. WorkersPlaced' /\ AttemptsReady'
      BY <2>1, <2>2 DEF worker, redis, WorkersPlaced, AttemptsReady, AttemptReady
    <2> QED BY <2>1, <2>2, <2>3, <2>6, <2>7 DEF redis
  <1>3. ASSUME NEW s \in Servers, Crash(s) PROVE LedgerInv' /\ UNCHANGED <<stream, results>>
    <2>1. UNCHANGED <<redis, sent>> BY <1>3 DEF Crash
    <2>2. StreamDense' /\ Top(stream)' = Top(stream) /\ Top(stream) \in Nat
      BY <2>1, QuietStream DEF redis
    <2>3. /\ \A t \in Servers : /\ cache'[t] \in {cache[t], NoAggregate}
                                /\ outbox'[t] \subseteq outbox[t]
          /\ \A w \in Workers :
                \/ /\ pc'[w] = pc[w] /\ cmd'[w] = cmd[w] /\ entry'[w] = entry[w]
                   /\ reply'[w] = reply[w] /\ messages'[w] = messages[w]
                \/ pc'[w] = "idle" /\ cmd'[w] = NoCommand /\ entry'[w] = NoEntry /\ messages'[w] = {}
      BY <1>3 DEF Crash, TypeOK
    <2>4. OnTheWay' \subseteq OnTheWay BY <2>3, OnTheWayOf
    <2>5. ResultsTrue' /\ MessagesTrue' BY <2>1, <2>4, FewerMessages DEF redis
    <2>6. /\ NoAggregate.version <= Top(stream) /\ NoEntry.version <= Top(stream)
          /\ NoEntry.ag.version <= Top(stream) /\ NoEntry.version = NoEntry.ag.version
      BY <2>2 DEF NoAggregate, NoEntry
    <2>7. NothingAhead' BY <2>1, <2>2, <2>3, <2>6 DEF redis, NothingAhead
    <2>8. WorkersPlaced' BY <2>3 DEF WorkersPlaced, Workers
    <2>9. AttemptsReady' BY <2>2, <2>3 DEF AttemptsReady, AttemptReady
    <2> QED BY <2>1, <2>2, <2>5, <2>7, <2>8, <2>9 DEF redis
  <1>4. ASSUME NEW c \in Commands, Redeliver(c) PROVE LedgerInv' /\ UNCHANGED <<stream, results>>
    <2>1. UNCHANGED <<redis, sent, cache, outbox, worker>> BY <1>4 DEF Redeliver
    <2>2. StreamDense' /\ Top(stream)' = Top(stream) BY <2>1, QuietStream DEF redis
    <2>3. ResultsTrue' /\ MessagesTrue' BY <2>1, QuietMessages DEF redis, worker
    <2>4. WorkersPlaced' /\ NothingAhead' /\ AttemptsReady'
      BY <2>1, <2>2 DEF worker, redis, WorkersPlaced, NothingAhead, AttemptsReady, AttemptReady
    <2> QED BY <2>1, <2>2, <2>3, <2>4 DEF redis
  <1> QED BY <1>1, <1>2, <1>3, <1>4

LEMMA InvStep == Inv /\ [Next]_vars => LedgerInv'
  <1> SUFFICES ASSUME Inv, [Next]_vars PROVE LedgerInv'
    OBVIOUS
  <1>1. CASE UNCHANGED vars
    <2>1. UNCHANGED <<stream, results, sent, outbox, messages>> BY <1>1 DEF vars, redis, worker
    <2>2. StreamDense' /\ Top(stream)' = Top(stream) BY <2>1, QuietStream DEF Inv, LedgerInv
    <2>3. ResultsTrue' /\ MessagesTrue' BY <2>1, QuietMessages DEF Inv, LedgerInv
    <2>4. WorkersPlaced' /\ NothingAhead' /\ AttemptsReady'
      BY <1>1, <2>2 DEF Inv, LedgerInv, vars, redis, worker, WorkersPlaced, NothingAhead, AttemptsReady, AttemptReady
    <2> QED BY <2>2, <2>3, <2>4 DEF LedgerInv
  <1>2. CASE Next
    BY <1>2, LoadInv, CommitInv, EnvironmentInv DEF Next, Work
  <1> QED BY <1>1, <1>2

\* Every variable keeps its type, for every set of commands, servers and readers and
\* any number of retries and faults.
THEOREM TypeCorrect == Spec => []TypeOK
  <1>1. Init => Inv BY TypeInit, InitInv DEF Inv
  <1>2. Inv /\ [Next]_vars => Inv' BY TypeStep, InvStep DEF Inv
  <1>3. Inv => TypeOK BY DEF Inv
  <1> QED BY <1>1, <1>2, <1>3, PTL DEF Spec

\* The stream has no gap, no copy of the aggregate is ahead of it, and nothing is
\* stored or on its way that is not true of it.
THEOREM LedgerInvariant == Spec => []LedgerInv
  <1>1. Init => Inv BY TypeInit, InitInv DEF Inv
  <1>2. Inv /\ [Next]_vars => Inv' BY TypeStep, InvStep DEF Inv
  <1>3. Inv => LedgerInv BY DEF Inv
  <1> QED BY <1>1, <1>2, <1>3, PTL DEF Spec

-----------------------------------------------------------------------------
(* The refinement *)

LEMMA LedgerInit == Init => Ledger!Init
  BY DEF Init, Top, NoResult, Ledger!Init, Ledger!NoOutcome

\* Storing a result is a step of the ledger.
LEMMA StoreIsLedgerStep ==
    ASSUME Inv, NEW w \in Threads, pc[w] = "append", Store(w), sent' = sent
    PROVE  Ledger!Append(cmd[w]) \/ Ledger!Observe(cmd[w])
  <1> DEFINE r == Result(w)
  <1>1. /\ r = [outcome |-> r.outcome, version |-> r.version, app |-> r.app, event |-> r.event]
    BY DEF Result
  <1>2. r.app \in BOOLEAN BY Zenon DEF Inv, TypeOK, Workers, Result
  <1>3. /\ r.outcome \in {"ok", "null", "domain", "unknown"} /\ r.version \in Nat
        /\ Changed(entry[w]) => /\ r.event = Top(stream) + 1
                                /\ r.version = IF r.outcome = "null" THEN 0 ELSE Top(stream) + 1
        /\ ~Changed(entry[w]) => r.version <= Top(stream) /\ r.event = 0
    BY StoredResult DEF Results
  <1>4. results[cmd[w]] = Ledger!NoOutcome /\ results' = [results EXCEPT ![cmd[w]] = r]
    BY StoreEffect DEF NoResult, Ledger!NoOutcome
  <1>5. Top(stream) \in Nat BY DEF Inv, LedgerInv, StreamDense
  <1>6. CASE Changed(entry[w])
    <2>1. /\ stream' = stream \cup {[cmd |-> cmd[w], version |-> Top(stream) + 1]}
          /\ Top(stream)' = Top(stream) + 1
      BY <1>6, StoreEffect
    <2>2. r = [outcome |-> r.outcome, version |-> IF r.outcome = "null" THEN 0 ELSE Top(stream) + 1,
               app |-> r.app, event |-> Top(stream) + 1]
      BY <1>1, <1>3, <1>6
    <2> HIDE DEF r
    <2>3. \E result \in {"ok", "null", "domain", "unknown"}, app \in BOOLEAN :
            results' = [results EXCEPT ![cmd[w]] =
              [outcome |-> result, version |-> IF result = "null" THEN 0 ELSE Top(stream) + 1,
               app |-> app, event |-> Top(stream) + 1]]
      <3>1. r.outcome \in {"ok", "null", "domain", "unknown"} /\ r.app \in BOOLEAN BY <1>2, <1>3
      <3> USE <3>1
      <3> WITNESS r.outcome \in {"ok", "null", "domain", "unknown"}, r.app \in BOOLEAN
      <3> QED BY <1>4, <2>2
    <2> QED BY <1>4, <2>1, <2>3 DEF Ledger!Append
  <1>7. CASE ~Changed(entry[w])
    <2>1. stream' = stream /\ Top(stream)' = Top(stream) BY <1>7, StoreEffect
    <2>2. r.version \in 0..Top(stream) BY <1>3, <1>5, <1>7
    <2>3. r = [outcome |-> r.outcome, version |-> r.version, app |-> r.app, event |-> 0]
      BY <1>1, <1>3, <1>7
    <2> HIDE DEF r
    <2>4. \E result \in {"ok", "null", "domain", "unknown"}, version \in 0..Top(stream), app \in BOOLEAN :
            results' = [results EXCEPT ![cmd[w]] =
              [outcome |-> result, version |-> version, app |-> app, event |-> 0]]
      <3>1. /\ r.outcome \in {"ok", "null", "domain", "unknown"} /\ r.version \in 0..Top(stream)
            /\ r.app \in BOOLEAN
        BY <1>2, <1>3, <2>2
      <3> USE <3>1
      <3> WITNESS r.outcome \in {"ok", "null", "domain", "unknown"}, r.version \in 0..Top(stream),
                  r.app \in BOOLEAN
      <3> QED BY <1>4, <2>3
    <2> QED BY <1>4, <2>1, <2>4 DEF Ledger!Observe
  <1> QED BY <1>6, <1>7

\* So is publishing a message.
LEMMA PublishIsLedgerStep ==
    ASSUME Inv, NEW s \in Servers, NEW m \in outbox[s], Publish(s, m)
    PROVE  [Ledger!Next]_(Ledger!ledger)
  <1>1. m \in OnTheWay BY OnTheWayOf
  <1>2. Ledger!Justified(m) BY <1>1 DEF Inv, LedgerInv, MessagesTrue
  <1>3. UNCHANGED <<stream, Top(stream), results>> BY QuietStream DEF Publish, redis, Inv, LedgerInv
  <1>4. sent' = sent \cup {m} BY DEF Publish
  <1>5. CASE m \in sent
    <2>1. sent' = sent BY <1>4, <1>5
    <2> QED BY <1>3, <2>1 DEF Ledger!ledger
  <1>6. CASE m \notin sent
    <2>1. m \in sent' \ sent BY <1>4, <1>6
    <2>2. Ledger!Tell(m) BY <1>2, <1>3, <1>4 DEF Ledger!Tell
    <2> QED BY <2>1, <2>2 DEF Ledger!Next
  <1> QED BY <1>5, <1>6

LEMMA LedgerStep == Inv /\ [Next]_vars => [Ledger!Next]_(Ledger!ledger)
  <1> SUFFICES ASSUME Inv, [Next]_vars PROVE [Ledger!Next]_(Ledger!ledger)
    OBVIOUS
  <1>1. ASSUME UNCHANGED <<stream, results, sent>> PROVE UNCHANGED Ledger!ledger
    BY <1>1, QuietStream DEF Inv, LedgerInv, Ledger!ledger
  <1>2. CASE UNCHANGED vars BY <1>1, <1>2 DEF vars, redis
  <1>3. ASSUME NEW w \in Workers, Commit(w) \/ AppendFails(w) PROVE [Ledger!Next]_(Ledger!ledger)
    <2>1. w \in Threads /\ cmd[w] \in Commands BY <1>3, CommitsOnServer
    <2>2. sent' = sent BY <1>3, <2>1, CommitMessages
    <2>3. (pc[w] = "append" /\ Store(w)) \/ UNCHANGED <<stream, results>> BY <1>3, <2>1, StoreGrows
    <2> QED BY <1>1, <2>1, <2>2, <2>3, StoreIsLedgerStep DEF Ledger!Next
  <1>4. ASSUME NEW s \in Servers, NEW m \in outbox[s], Publish(s, m)
        PROVE  [Ledger!Next]_(Ledger!ledger)
    BY <1>4, PublishIsLedgerStep
  <1>5. ASSUME NEW s \in Servers, Evict(s) \/ Crash(s) PROVE UNCHANGED Ledger!ledger
    BY <1>1, <1>5 DEF Evict, Crash, redis
  <1>6. ASSUME NEW c \in Commands, Redeliver(c) PROVE UNCHANGED Ledger!ledger
    BY <1>1, <1>6 DEF Redeliver, redis
  <1>7. CASE Next
    BY <1>7, <1>1, <1>3, <1>4, <1>5, <1>6, LoadInv DEF Next, Work
  <1> QED BY <1>2, <1>7

\* The service implements the ledger: the commands of an aggregate take effect one at
\* a time and once, on the state the last one left, and only what is stored is told
\* (the script of AppendEvents, and what UnitOfWork.CommitAsync does with its answer).
THEOREM Refinement == Spec => ImplementsLedger
  <1>1. Init => Inv BY TypeInit, InitInv DEF Inv
  <1>2. Inv /\ [Next]_vars => Inv' BY TypeStep, InvStep DEF Inv
  <1> QED BY <1>1, <1>2, LedgerInit, LedgerStep, PTL DEF Spec, ImplementsLedger, Ledger!Spec

LEMMA InvOneAnswer == Inv => OneAnswer
  <1> SUFFICES ASSUME Inv, NEW c \in Commands
               PROVE  /\ c \notin Silent => \A m, n \in Stored(c) : m = n
                      /\ c \notin Modifies /\ Stored(c) # Replies(c) => results[c].event = 0
    BY DEF OneAnswer
  <1>1. ASSUME NEW k \in Replies(c)
        PROVE  k.cmd = c /\ k.outcome \in Outcomes /\ k \in OnTheWay \cup sent /\ k \in Messages
    <2>1. k.cmd = c /\ k.outcome \in Outcomes /\ k \in OnTheWay \cup sent
      BY <1>1, OnTheWayOf DEF Replies
    <2>2. k \in sent \/ (\E s \in Servers : k \in outbox[s]) BY <1>1 DEF Replies
    <2> QED BY <2>1, <2>2 DEF Inv, TypeOK
  <1>2. ASSUME c \notin Silent, NEW k \in Stored(c)
        PROVE  k = [cmd |-> c, outcome |-> results[c].outcome, version |-> results[c].version]
    <2>1. k \in Replies(c) /\ k.outcome # "duplicate" BY <1>2 DEF Stored
    <2>2. k.cmd = c /\ k.outcome \in Outcomes /\ k \in OnTheWay \cup sent /\ k \in Messages
      BY <1>1, <2>1
    <2>3. Ledger!Justified(k) BY <2>2 DEF Inv, LedgerInv, MessagesTrue
    <2>4. results[c].outcome # "null" BY <1>2 DEF Inv, LedgerInv, ResultsTrue
    <2>5. k.outcome = results[c].outcome /\ k.version = results[c].version
      BY <2>1, <2>2, <2>3, <2>4 DEF Ledger!Justified, Outcomes, Results
    <2>6. k = [cmd |-> k.cmd, outcome |-> k.outcome, version |-> k.version] BY <2>2 DEF Messages
    <2> QED BY <2>2, <2>5, <2>6
  <1>3. ASSUME c \notin Modifies, Stored(c) # Replies(c) PROVE results[c].event = 0
    <2>1. PICK k \in Replies(c) : k.outcome = "duplicate" BY <1>3 DEF Stored
    <2> QED BY <1>1, <1>3, <2>1 DEF Inv, LedgerInv, MessagesTrue
  <1> QED BY <1>2, <1>3

\* A command whose handler sets a reply is never told two stored results, and one that
\* can only create the aggregate and was refused never takes effect (AppendEvents gives
\* a stored result again; UnitOfWork.CommitAsync stores no refusal).
THEOREM OneAnswerTheorem == Spec => []OneAnswer
  <1>1. Init => Inv BY TypeInit, InitInv DEF Inv
  <1>2. Inv /\ [Next]_vars => Inv' BY TypeStep, InvStep DEF Inv
  <1> QED BY <1>1, <1>2, InvOneAnswer, PTL DEF Spec

-----------------------------------------------------------------------------
(* No event is forgotten *)

\* A thread without a command is idle.
IdleFree == \A w \in Threads : pc[w] = "idle" => cmd[w] = NoCommand

\* A thread that is going to hand over the event of a command: it has it in its
\* messages, or is still to be told of it by the script.  One that waits to start over
\* may give up, and one that was refused leaves with the refusal.
EventOf(c) == Msg(c, "event", results[c].event)
Carries(w, c) ==
    /\ cmd[w] = c
    /\ pc[w] # "conflict"
    /\ pc[w] \in {"appended", "finish"} => EventOf(c) \in messages[w]

\* Where the event of a command is.
EventSafe(c) ==
    results[c].event > 0 =>
        \/ EventOf(c) \in sent
        \/ \E s \in Servers : EventOf(c) \in outbox[s]
        \/ copies[c] > 0
        \/ \E w \in Threads : Carries(w, c)
        \/ c \in lost
AccountInv == Inv /\ IdleFree /\ \A c \in Commands : EventSafe(c)

LEMMA SafeIsAccounted == (\A c \in Commands : EventSafe(c)) => EventsAccounted
  <1> SUFFICES ASSUME NEW c \in Commands, EventSafe(c), results[c].event > 0
               PROVE  \/ EventOf(c) \in sent \cup UNION {outbox[s] : s \in Servers}
                      \/ copies[c] > 0
                      \/ \E w \in Threads : cmd[w] = c
                      \/ c \in lost
    BY Zenon DEF EventsAccounted, EventOf
  <1>1. ASSUME NEW s \in Servers, EventOf(c) \in outbox[s]
        PROVE  EventOf(c) \in UNION {outbox[t] : t \in Servers}
    BY <1>1
  <1> QED BY <1>1 DEF EventSafe, Carries

\* Loading and handling leave the messages alone; a command that is taken is at its server.
LEMMA LoadAccount ==
    ASSUME AccountInv, NEW w \in Workers,
           \/ Load(w) \/ Query(w) \/ EndQuery(w) \/ LoadFails(w)
           \/ \E c \in Commands : Receive(w, c)
           \/ \E after \in {entry[w]} \cup Raised(w), outcome \in Results : Handle(w, after, outcome)
    PROVE  IdleFree' /\ \A c \in Commands : EventSafe(c)'
  <1> USE DEF AccountInv, Inv
  <1>1. UNCHANGED <<results, sent, outbox, messages, lost>>
    BY DEF Load, LoadCached, LoadSnapshot, LoadEvents, LoadSet, UpdateSnapshot, Query, EndQuery,
           LoadFails, Receive, Handle, redis
  <1>2. /\ pc'[w] \notin {"appended", "finish", "conflict"}
        /\ \A v \in Workers : v # w => pc'[v] = pc[v] /\ cmd'[v] = cmd[v]
    BY DEF Load, LoadCached, LoadSnapshot, LoadEvents, LoadSet, UpdateSnapshot, Query, EndQuery,
           LoadFails, Receive, Handle, Goto, TypeOK
  <1>3. (cmd' = cmd /\ copies' = copies)
        \/ (\E c \in Commands : /\ w \in Threads /\ cmd'[w] = c /\ pc[w] = "idle"
                                /\ \A d \in Commands : d # c => copies'[d] = copies[d]
                                /\ \A v \in Threads : v # w => cmd'[v] = cmd[v])
    <2>1. ASSUME NEW c \in Commands, Receive(w, c)
          PROVE  /\ w \in Threads /\ cmd'[w] = c /\ pc[w] = "idle"
                 /\ \A d \in Commands : d # c => copies'[d] = copies[d]
                 /\ \A v \in Threads : v # w => cmd'[v] = cmd[v]
      BY <2>1 DEF Receive, TypeOK, Workers
    <2>2. CASE \/ Load(w) \/ Query(w) \/ EndQuery(w) \/ LoadFails(w)
               \/ \E after \in {entry[w]} \cup Raised(w), outcome \in Results : Handle(w, after, outcome)
      BY <2>2 DEF Load, LoadCached, LoadSnapshot, LoadEvents, LoadSet, UpdateSnapshot, Query, EndQuery,
                  LoadFails, Handle
    <2> QED BY <2>1, <2>2
  <1>4. IdleFree'
    <2> SUFFICES ASSUME NEW v \in Threads, pc'[v] = "idle" PROVE cmd'[v] = NoCommand
      BY DEF IdleFree
    <2>1. CASE v = w
      <3>1. pc'[w] # "idle"
        BY <2>1, HostAssumption
           DEF Load, LoadCached, LoadSnapshot, LoadEvents, LoadSet, UpdateSnapshot, Query, EndQuery,
               LoadFails, Receive, Handle, Goto, TypeOK
      <3> QED BY <2>1, <3>1
    <2>2. CASE v # w BY <1>2, <2>2 DEF IdleFree, Workers
    <2> QED BY <2>1, <2>2
  <1>5. ASSUME NEW c \in Commands PROVE EventSafe(c)'
    <2>0. EventOf(c)' = EventOf(c) BY <1>1 DEF EventOf
    <2>1. CASE cmd' = cmd /\ copies' = copies
      <3>1. \A v \in Threads : Carries(v, c) => Carries(v, c)'
        BY <1>1, <1>2, <2>0, <2>1 DEF Carries, Workers
      <3> QED BY <1>1, <2>0, <2>1, <3>1 DEF EventSafe
    <2>2. CASE \E d \in Commands : /\ w \in Threads /\ cmd'[w] = d /\ pc[w] = "idle"
                                   /\ \A e \in Commands : e # d => copies'[e] = copies[e]
                                   /\ \A v \in Threads : v # w => cmd'[v] = cmd[v]
      <3>1. PICK d \in Commands : /\ w \in Threads /\ cmd'[w] = d /\ pc[w] = "idle"
                                  /\ \A e \in Commands : e # d => copies'[e] = copies[e]
                                  /\ \A v \in Threads : v # w => cmd'[v] = cmd[v]
        BY <2>2
      <3>2. CASE c = d
        <4>1. Carries(w, c)' BY <1>2, <3>1, <3>2 DEF Carries
        <4> QED BY <3>1, <4>1 DEF EventSafe
      <3>3. CASE c # d
        <4>1. cmd[w] # c BY <3>1 DEF IdleFree
        <4>2. \A v \in Threads : Carries(v, c) => Carries(v, c)'
          BY <1>1, <1>2, <2>0, <3>1, <4>1 DEF Carries, Workers
        <4> QED BY <1>1, <2>0, <3>1, <3>3, <4>2 DEF EventSafe
      <3> QED BY <3>2, <3>3
    <2> QED BY <1>3, <2>1, <2>2
  <1> QED BY <1>4, <1>5

\* A step of a commit: an event that has been stored is in the messages of its server.
LEMMA CommitAccount ==
    ASSUME AccountInv, NEW w \in Workers, Commit(w) \/ AppendFails(w)
    PROVE  IdleFree' /\ \A c \in Commands : EventSafe(c)'
  <1> USE DEF AccountInv, Inv
  <1>0. w \in Threads /\ cmd[w] \in Commands /\ pc[w] # "idle" BY CommitsOnServer
  <1>1. /\ \A c \in Commands : results[c] # NoResult => results'[c] = results[c]
        /\ (pc[w] = "append" /\ Store(w)) \/ UNCHANGED <<stream, results>>
        /\ sent' = sent
    BY <1>0, StoreGrows, CommitMessages
  <1>2. /\ copies' = copies /\ lost \subseteq lost'
        /\ \A v \in Workers : v # w => pc'[v] = pc[v] /\ cmd'[v] = cmd[v] /\ messages'[v] = messages[v]
        /\ \A s \in Servers : outbox[s] \subseteq outbox'[s]
        /\ \/ cmd'[w] = cmd[w] /\ pc'[w] # "idle"
           \/ cmd'[w] = NoCommand /\ pc'[w] = "idle"
    <2>1. CASE AppendDuplicate(w) BY <1>0, <2>1 DEF AppendDuplicate, Goto, TypeOK
    <2>2. CASE AppendStored(w) BY <1>0, <2>2 DEF AppendStored, Goto, TypeOK
    <2>3. CASE AppendExisting(w) BY <1>0, <2>3 DEF AppendExisting, Goto, TypeOK
    <2>4. CASE AppendConflict(w) BY <1>0, <2>4 DEF AppendConflict, Goto, TypeOK
    <2>5. CASE CommitCache(w) BY <1>0, <2>5 DEF CommitCache, Goto, TypeOK
    <2>6. CASE Retry(w) BY <1>0, <2>6 DEF Retry, Goto, TypeOK
    <2>7. CASE GiveUp(w) BY <1>0, <2>7 DEF GiveUp, Release, Goto, TypeOK
    <2>8. CASE Finish(w) BY <1>0, <2>8 DEF Finish, Release, Goto, TypeOK
    <2>9. CASE AppendFails(w) BY <1>0, <2>9 DEF AppendFails, Release, Goto, TypeOK
    <2> QED BY <2>1, <2>2, <2>3, <2>4, <2>5, <2>6, <2>7, <2>8, <2>9 DEF Commit
  <1>3. IdleFree'
    BY <1>0, <1>2 DEF IdleFree, Workers
  <1>4. ASSUME NEW c \in Commands, results'[c].event > 0, Carries(w, c) \/ (pc[w] = "append" /\ cmd[w] = c)
        PROVE  Carries(w, c)' \/ c \in lost' \/ EventOf(c)' \in outbox'[Host[w]]
    <2>0. cmd[w] = c /\ pc[w] # "conflict" BY <1>4 DEF Carries
    <2>1. CASE AppendDuplicate(w)
      <3>1. /\ results[c] # NoResult /\ results'[c] = results[c] /\ cmd'[w] = c /\ pc'[w] = "finish"
            /\ messages'[w] = MessagesOf(c, Replayed(w, results[c]))
        BY <1>0, <1>1, <2>0, <2>1 DEF AppendDuplicate, Goto, TypeOK
      <3>2. Replayed(w, results[c]).event = results[c].event
        BY <1>0, <2>0 DEF Replayed, TypeOK
      <3>3. EventOf(c)' \in messages'[w] BY <1>4, <3>1, <3>2 DEF EventOf, MessagesOf
      <3> QED BY <3>1, <3>3 DEF Carries
    <2>2. CASE AppendStored(w)
      <3>1. /\ results'[c] = Result(w) /\ cmd'[w] = c /\ pc'[w] # "conflict"
            /\ messages'[w] = MessagesOf(c, Result(w))
        <4>1. pc[w] = "append" /\ Store(w) BY <2>2 DEF AppendStored
        <4>2. results'[c] = Result(w) BY <1>0, <2>0, <4>1, StoreEffect DEF TypeOK
        <4> QED BY <1>0, <2>0, <2>2, <4>2 DEF AppendStored, Goto, TypeOK
      <3>2. EventOf(c)' \in messages'[w] BY <1>4, <3>1 DEF EventOf, MessagesOf
      <3> QED BY <3>1, <3>2 DEF Carries
    <2>3. CASE AppendExisting(w) \/ AppendConflict(w)
      <3>1. results'[c] = NoResult
        BY <2>0, <2>3 DEF AppendExisting, AppendConflict, Refused, redis
      <3> QED BY <1>4, <3>1 DEF NoResult
    <2>4. CASE CommitCache(w)
      <3>1. pc[w] = "appended" /\ pc'[w] = "finish" /\ UNCHANGED <<results, cmd, messages>>
        BY <1>0, <2>4 DEF CommitCache, Goto, redis, TypeOK, Workers
      <3> QED BY <1>4, <3>1 DEF Carries, EventOf
    <2>5. CASE Retry(w) \/ GiveUp(w) BY <2>0, <2>5 DEF Retry, GiveUp
    <2>6. CASE Finish(w)
      <3>1. /\ pc[w] = "finish" /\ UNCHANGED results
            /\ messages[w] \subseteq outbox'[Host[w]]
        BY <1>0, <2>6, HostType DEF Finish, redis, TypeOK, Workers
      <3> QED BY <1>4, <3>1 DEF Carries, EventOf
    <2>7. CASE AppendFails(w) BY <2>0, <2>7 DEF AppendFails
    <2> QED BY <2>1, <2>2, <2>3, <2>4, <2>5, <2>6, <2>7 DEF Commit
  <1>5. ASSUME NEW c \in Commands, results'[c].event > 0 PROVE EventSafe(c)'
    <2>0. Host[w] \in Servers BY <1>0, HostType DEF Workers
    <2>1. CASE results'[c] # results[c]
      <3>1. pc[w] = "append" /\ Store(w) /\ c = cmd[w]
        BY <1>0, <1>1, <2>1 DEF Store, TypeOK
      <3>2. Carries(w, c)' \/ c \in lost' \/ EventOf(c)' \in outbox'[Host[w]] BY <1>4, <1>5, <3>1
      <3> QED BY <1>0, <2>0, <3>2 DEF EventSafe
    <2>2. CASE results'[c] = results[c]
      <3>1. EventSafe(c) /\ results[c].event > 0 /\ EventOf(c)' = EventOf(c)
        BY <1>5, <2>2 DEF EventOf
      <3>2. ASSUME NEW v \in Threads, Carries(v, c) PROVE EventSafe(c)'
        <4>1. CASE v = w
          <5>1. Carries(w, c)' \/ c \in lost' \/ EventOf(c)' \in outbox'[Host[w]]
            BY <1>4, <1>5, <3>2, <4>1
          <5> QED BY <1>0, <2>0, <5>1 DEF EventSafe
        <4>2. CASE v # w
          <5>1. Carries(v, c)' BY <1>2, <3>1, <3>2, <4>2 DEF Carries, Workers
          <5> QED BY <5>1 DEF EventSafe
        <4> QED BY <4>1, <4>2
      <3>3. CASE EventOf(c) \in sent \/ (\E s \in Servers : EventOf(c) \in outbox[s])
                 \/ copies[c] > 0 \/ c \in lost
        BY <1>1, <1>2, <3>1, <3>3 DEF EventSafe
      <3> QED BY <3>1, <3>2, <3>3 DEF EventSafe
    <2> QED BY <2>1, <2>2
  <1>6. \A c \in Commands : EventSafe(c)' BY <1>5 DEF EventSafe
  <1> QED BY <1>3, <1>6

LEMMA EnvironmentAccount ==
    ASSUME AccountInv,
           \/ \E s \in Servers : (\E m \in outbox[s] : Publish(s, m)) \/ Evict(s) \/ Crash(s)
           \/ \E c \in Commands : Redeliver(c)
    PROVE  IdleFree' /\ \A c \in Commands : EventSafe(c)'
  <1> USE DEF AccountInv, Inv
  <1>1. ASSUME NEW s \in Servers, NEW m \in outbox[s], Publish(s, m)
        PROVE  IdleFree' /\ \A c \in Commands : EventSafe(c)'
    <2>1. UNCHANGED <<results, copies, pc, cmd, messages, lost>> BY <1>1 DEF Publish, redis, worker
    <2>2. /\ sent \subseteq sent' /\ m \in sent'
          /\ \A t \in Servers : \A n \in outbox[t] : n \in outbox'[t] \/ n = m
      BY <1>1 DEF Publish, TypeOK
    <2>3. IdleFree' BY <2>1 DEF IdleFree
    <2> QED BY <2>1, <2>2, <2>3 DEF EventSafe, EventOf, Carries
  <1>2. ASSUME NEW s \in Servers, Evict(s) PROVE IdleFree' /\ \A c \in Commands : EventSafe(c)'
    <2>1. UNCHANGED <<results, copies, sent, outbox, pc, cmd, messages, lost>>
      BY <1>2 DEF Evict, redis, worker
    <2> QED BY <2>1 DEF IdleFree, Carries, EventSafe, EventOf
  <1>3. ASSUME NEW s \in Servers, Crash(s) PROVE IdleFree' /\ \A c \in Commands : EventSafe(c)'
    <2>1. results' = results /\ sent' = sent /\ lost \subseteq lost' BY <1>3 DEF Crash, redis
    <2>2. /\ \A m \in outbox[s] : m.cmd \in lost'
          /\ \A t \in Servers : t # s => outbox'[t] = outbox[t]
          /\ \A c \in Commands : copies'[c] = IF \E v \in Workers : Host[v] = s /\ cmd[v] = c
                                              THEN copies[c] + 1 ELSE copies[c]
      BY <1>3 DEF Crash, TypeOK
    <2>3. \A v \in Workers :
             IF Host[v] = s THEN pc'[v] = "idle" /\ cmd'[v] = NoCommand
             ELSE pc'[v] = pc[v] /\ cmd'[v] = cmd[v] /\ messages'[v] = messages[v]
      BY <1>3 DEF Crash, TypeOK
    <2>4. IdleFree' BY <2>3 DEF IdleFree, Workers
    <2>5. ASSUME NEW c \in Commands, results'[c].event > 0 PROVE EventSafe(c)'
      <3>1. EventSafe(c) /\ results[c].event > 0 /\ EventOf(c)' = EventOf(c) /\ EventOf(c).cmd = c
        BY <2>1, <2>5 DEF EventOf, Msg
      <3>2. copies[c] \in Nat BY DEF TypeOK
      <3>3. CASE \E v \in Workers : Host[v] = s /\ cmd[v] = c
        <4>1. copies'[c] > 0 BY <2>2, <3>2, <3>3
        <4> QED BY <4>1 DEF EventSafe
      <3>4. CASE ~ \E v \in Workers : Host[v] = s /\ cmd[v] = c
        <4>1. \A v \in Threads : Carries(v, c) => Carries(v, c)'
          BY <2>3, <3>1, <3>4 DEF Carries, Workers
        <4>2. (\E t \in Servers : EventOf(c) \in outbox[t]) =>
                 c \in lost' \/ (\E t \in Servers : EventOf(c) \in outbox'[t])
          BY <2>2, <3>1
        <4>3. copies'[c] = copies[c] BY <2>2, <3>4
        <4> QED BY <2>1, <3>1, <4>1, <4>2, <4>3 DEF EventSafe
      <3> QED BY <3>3, <3>4
    <2> QED BY <2>4, <2>5 DEF EventSafe
  <1>4. ASSUME NEW c \in Commands, Redeliver(c)
        PROVE  IdleFree' /\ \A d \in Commands : EventSafe(d)'
    <2>1. UNCHANGED <<results, sent, outbox, pc, cmd, messages, lost>>
      BY <1>4 DEF Redeliver, redis, worker
    <2>2. \A d \in Commands : copies[d] > 0 => copies'[d] > 0 BY <1>4 DEF Redeliver, TypeOK
    <2>3. IdleFree' BY <2>1 DEF IdleFree
    <2> QED BY <2>1, <2>2, <2>3 DEF EventSafe, EventOf, Carries
  <1> QED BY <1>1, <1>2, <1>3, <1>4

\* The events of a command that took effect are sent, on their way, or the command is
\* still to be handled, unless a fault after its offset was committed has destroyed them
\* (EventSourcingCommandProcessor hands its messages to the publisher and does not wait).
THEOREM EventsAreAccounted == Spec => []EventsAccounted
  <1>1. Init => AccountInv
    <2>1. Init => Inv BY TypeInit, InitInv DEF Inv
    <2>2. Init => IdleFree BY DEF Init, IdleFree, Workers
    <2>3. Init => \A c \in Commands : EventSafe(c) BY DEF Init, EventSafe, NoResult
    <2> QED BY <2>1, <2>2, <2>3 DEF AccountInv
  <1>2. AccountInv /\ [Next]_vars => AccountInv'
    <2> SUFFICES ASSUME AccountInv, [Next]_vars PROVE AccountInv'
      OBVIOUS
    <2>1. Inv' BY TypeStep, InvStep DEF Inv, AccountInv
    <2>2. CASE UNCHANGED vars
      BY <2>1, <2>2 DEF AccountInv, IdleFree, Carries, EventSafe, EventOf, vars, redis, worker
    <2>3. CASE Next
      <3>1. IdleFree' /\ \A c \in Commands : EventSafe(c)'
        BY <2>3, LoadAccount, CommitAccount, EnvironmentAccount DEF Next, Work
      <3> QED BY <2>1, <3>1 DEF AccountInv
    <2> QED BY <2>2, <2>3
  <1>3. AccountInv => EventsAccounted BY SafeIsAccounted DEF AccountInv
  <1> QED BY <1>1, <1>2, <1>3, PTL DEF Spec

-----------------------------------------------------------------------------
(* Every aggregate is the replay of the stream up to its version *)

UpTo(S, v) == {r \in S : r.version <= v}
BuiltFrom(S, ag) == ag.applied = Count(UpTo(S, ag.version))

\* An attempt has one more event than the stream at the version it started from.
RaisedFrom(S, e, c) == e.ag.applied = [Count(UpTo(S, e.version)) EXCEPT ![c] = @ + 1]

CopyBuilt(w) ==
    /\ pc[w] \in {"events", "set", "snapshot", "handle", "appended"} => BuiltFrom(stream, entry[w].ag)
    /\ pc[w] = "events" => from[w] = entry[w].ag.version
    /\ pc[w] = "append" /\ Changed(entry[w]) => RaisedFrom(stream, entry[w], cmd[w])
CopiesBuilt ==
    /\ BuiltFrom(stream, snapshot)
    /\ \A s \in Servers : BuiltFrom(stream, cache[s])
    /\ \A w \in Workers : CopyBuilt(w)
BuildInv == Inv /\ CopiesBuilt

\* The events of two parts of a stream are counted apart.
LEMMA CountUnion ==
    ASSUME NEW S, NEW T, IsFiniteSet(S), IsFiniteSet(T), S \cap T = {}
    PROVE  Count(S \cup T) = [c \in Commands |-> Count(S)[c] + Count(T)[c]]
  <1>1. ASSUME NEW c \in Commands
        PROVE  Cardinality({r \in S \cup T : r.cmd = c})
               = Cardinality({r \in S : r.cmd = c}) + Cardinality({r \in T : r.cmd = c})
    <2> DEFINE A == {r \in S : r.cmd = c}
               B == {r \in T : r.cmd = c}
    <2>1. A \in SUBSET S /\ B \in SUBSET T /\ A \cap B = {} OBVIOUS
    <2>2. IsFiniteSet(A) /\ IsFiniteSet(B) BY <2>1, FS_Subset
    <2>3. {r \in S \cup T : r.cmd = c} = A \cup B OBVIOUS
    <2>4. A \cap B = {} BY <2>1
    <2> HIDE DEF A, B
    <2>5. Cardinality(A \cup B) = Cardinality(A) + Cardinality(B) - Cardinality(A \cap B)
      BY <2>2, FS_Union
    <2>6. Cardinality(A \cap B) = 0 BY <2>4, FS_EmptySet
    <2>7. Cardinality(A) \in Nat /\ Cardinality(B) \in Nat BY <2>2, FS_CardinalityType
    <2>8. Cardinality(A \cup B) = Cardinality(A) + Cardinality(B) BY <2>5, <2>6, <2>7
    <2> QED BY <2>3, <2>8 DEF A, B
  <1> QED BY <1>1 DEF Count

LEMMA CountOne ==
    ASSUME NEW r, r.cmd \in Commands
    PROVE  Count({r}) = [c \in Commands |-> IF c = r.cmd THEN 1 ELSE 0]
  <1>1. ASSUME NEW c \in Commands
        PROVE  Cardinality({q \in {r} : q.cmd = c}) = IF c = r.cmd THEN 1 ELSE 0
    <2>1. CASE c = r.cmd
      <3>1. {q \in {r} : q.cmd = c} = {r} BY <2>1
      <3> QED BY <2>1, <3>1, FS_Singleton
    <2>2. CASE c # r.cmd
      <3>1. {q \in {r} : q.cmd = c} = {} BY <2>2
      <3> QED BY <2>2, <3>1, FS_EmptySet
    <2> QED BY <2>1, <2>2
  <1> QED BY <1>1 DEF Count

LEMMA CountNone == Count({}) = [c \in Commands |-> 0]
  <1>1. \A c : {r \in {} : r.cmd = c} = {} OBVIOUS
  <1> QED BY <1>1, FS_EmptySet DEF Count

LEMMA NoneBuilt ==
    ASSUME TypeOK, StreamDense
    PROVE  BuiltFrom(stream, NoAggregate)
  <1>1. \A r \in stream : r.version \in 1..Top(stream) BY DEF StreamDense
  <1>2. UpTo(stream, 0) = {} BY <1>1 DEF UpTo, StreamDense
  <1> QED BY <1>2, CountNone DEF BuiltFrom, NoAggregate

\* An append leaves the stream below as it was.
LEMMA UpToStable ==
    ASSUME TypeOK, StreamDense, NEW c, NEW v \in Nat, v <= Top(stream),
           \/ stream' = stream
           \/ stream' = stream \cup {[cmd |-> c, version |-> Top(stream) + 1]}
    PROVE  UpTo(stream', v) = UpTo(stream, v)
  <1>1. ~(Top(stream) + 1 <= v) BY DEF StreamDense
  <1> QED BY <1>1 DEF UpTo

\* A replay ends where the stream ends.
LEMMA ReplayTop ==
    ASSUME TypeOK, StreamDense, NEW ag \in Aggregates, ag.version <= Top(stream)
    PROVE  Replay(ag, GetEvents(ag.version + 1)).version = Top(stream)
  <1> DEFINE v == ag.version
             new == GetEvents(v + 1)
  <1>1. v \in Nat /\ Top(stream) \in Nat /\ v <= Top(stream) BY DEF Aggregates, StreamDense
  <1>2. new = {} => Top(stream) <= v BY <1>1, EventsTop
  <1>3. new # {} => Top(new) = Top(stream) BY <1>1, EventsTop
  <1> QED BY <1>1, <1>2, <1>3 DEF Replay

\* Replaying what GetEvents finds after a version gives the whole stream.
LEMMA ReplayBuilds ==
    ASSUME TypeOK, StreamDense, NEW ag \in Aggregates, BuiltFrom(stream, ag), ag.version <= Top(stream)
    PROVE  BuiltFrom(stream, Replay(ag, GetEvents(ag.version + 1)))
  <1> DEFINE v == ag.version
             old == UpTo(stream, v)
             new == GetEvents(v + 1)
             top == Top(stream)
             after == Replay(ag, new)
  <1>1. v \in Nat /\ top \in Nat /\ v <= top BY DEF Aggregates, StreamDense
  <1>2. \A r \in stream : r.version \in Nat /\ r.version <= top
    <2>1. \A r \in stream : r.version \in 1..top BY DEF StreamDense
    <2> QED BY <1>1, <2>1
  <1>3. old \in SUBSET stream /\ new \in SUBSET stream BY DEF UpTo, GetEvents
  <1>4. old \cap new = {} /\ stream = old \cup new
    BY <1>1, <1>2 DEF UpTo, GetEvents
  <1>5. IsFiniteSet(old) /\ IsFiniteSet(new) BY <1>3, FS_Subset DEF StreamDense
  <1>6. after.version = top BY ReplayTop
  <1>7. UpTo(stream, top) = stream BY <1>2 DEF UpTo
  <1>8. after.applied = [c \in Commands |-> Count(old)[c] + Count(new)[c]]
    BY DEF Replay, BuiltFrom
  <1> HIDE DEF v, old, new, top, after
  <1>9. after.applied = Count(stream) BY <1>4, <1>5, <1>8, CountUnion
  <1>10. BuiltFrom(stream, after) BY <1>6, <1>7, <1>9 DEF BuiltFrom
  <1> QED BY <1>10 DEF after, new, v

\* Storing an attempt makes its aggregate the replay of the stream.
LEMMA StoreBuilds ==
    ASSUME BuildInv, NEW w \in Threads, pc[w] = "append", Store(w), Changed(entry[w])
    PROVE  BuiltFrom(stream', entry[w].ag)
  <1> USE DEF BuildInv, Inv, LedgerInv
  <1> DEFINE top == Top(stream)
             new == [cmd |-> cmd[w], version |-> top + 1]
  <1>1. /\ stream' = stream \cup {new} /\ entry[w].version = top /\ cmd[w] \in Commands
    BY StoreEffect
  <1>2. top \in Nat /\ IsFiniteSet(stream) BY DEF StreamDense
  <1>3. \A r \in stream : r.version \in Nat /\ r.version <= top
    <2>1. \A r \in stream : r.version \in 1..top BY DEF StreamDense
    <2> QED BY <1>2, <2>1
  <1>4. entry[w].ag.version = top + 1
    BY <1>1 DEF AttemptsReady, AttemptReady, Workers
  <1>5. UpTo(stream, top) = stream BY <1>3 DEF UpTo
  <1>6. UpTo(stream', top + 1) = stream \cup {new} BY <1>1, <1>2, <1>3 DEF UpTo
  <1>7. new \notin stream BY <1>2, <1>3
  <1>8. entry[w].ag.applied = [Count(stream) EXCEPT ![cmd[w]] = @ + 1]
    BY <1>1, <1>5 DEF CopiesBuilt, CopyBuilt, RaisedFrom, Workers
  <1>9. Count({new}) = [c \in Commands |-> IF c = cmd[w] THEN 1 ELSE 0]
    <2>1. new.cmd = cmd[w] /\ new.cmd \in Commands BY <1>1
    <2> HIDE DEF new
    <2> QED BY <2>1, CountOne
  <1>10. IsFiniteSet({new}) /\ stream \cap {new} = {} BY <1>7, FS_Singleton
  <1>11. Count(stream) \in [Commands -> Nat] BY <1>2, CountType
  <1> HIDE DEF new, top
  <1>12. Count(stream \cup {new}) = [c \in Commands |-> Count(stream)[c] + Count({new})[c]]
    BY <1>2, <1>10, CountUnion
  <1>13. Count(stream \cup {new}) = [Count(stream) EXCEPT ![cmd[w]] = @ + 1]
    <2> DEFINE old == Count(stream)
    <2>1. ASSUME NEW c \in Commands
          PROVE  old[c] + Count({new})[c] = IF c = cmd[w] THEN old[c] + 1 ELSE old[c]
      BY <1>9, <1>11, <2>1
    <2>2. old \in [Commands -> Nat] BY <1>11
    <2>3. Count(stream \cup {new}) = [c \in Commands |-> old[c] + Count({new})[c]] BY <1>12
    <2> HIDE DEF old
    <2>4. Count(stream \cup {new}) = [old EXCEPT ![cmd[w]] = @ + 1]
      BY <1>1, <2>1, <2>2, <2>3
    <2> QED BY <2>4 DEF old
  <1> QED BY <1>4, <1>6, <1>8, <1>13 DEF BuiltFrom

\* What a copy needs to stay built.
LEMMA CopyKept ==
    ASSUME BuildInv, NEW c,
           \/ stream' = stream
           \/ stream' = stream \cup {[cmd |-> c, version |-> Top(stream) + 1]}
    PROVE  /\ BuiltFrom(stream', snapshot)
           /\ \A s \in Servers : BuiltFrom(stream', cache[s])
           /\ \A v \in Workers : pc'[v] = pc[v] /\ entry'[v] = entry[v] /\ from'[v] = from[v]
                                   /\ cmd'[v] = cmd[v] => CopyBuilt(v)'
  <1> USE DEF BuildInv, Inv, LedgerInv
  <1>1. ASSUME NEW ag \in Aggregates, ag.version <= Top(stream), BuiltFrom(stream, ag)
        PROVE  BuiltFrom(stream', ag)
    <2>1. ag.version \in Nat BY DEF Aggregates
    <2>2. UpTo(stream', ag.version) = UpTo(stream, ag.version) BY <1>1, <2>1, UpToStable
    <2> QED BY <1>1, <2>2 DEF BuiltFrom
  <1>2. BuiltFrom(stream', snapshot)
    BY <1>1 DEF CopiesBuilt, NothingAhead, TypeOK
  <1>3. \A s \in Servers : BuiltFrom(stream', cache[s])
    BY <1>1 DEF CopiesBuilt, NothingAhead, TypeOK
  <1>4. ASSUME NEW v \in Workers, pc'[v] = pc[v], entry'[v] = entry[v], from'[v] = from[v], cmd'[v] = cmd[v]
        PROVE  CopyBuilt(v)'
    <2>1. CopyBuilt(v) /\ entry[v].ag \in Aggregates /\ entry[v].version \in Nat
          /\ entry[v].version <= Top(stream)
      BY DEF CopiesBuilt, TypeOK, NothingAhead
    <2>2. ASSUME pc[v] \in {"events", "set", "snapshot", "handle", "appended"}
          PROVE  BuiltFrom(stream', entry[v].ag)
      BY <1>1, <2>1, <2>2 DEF CopyBuilt, NothingAhead
    <2>3. UpTo(stream', entry[v].version) = UpTo(stream, entry[v].version)
      BY <2>1, UpToStable
    <2> QED BY <1>4, <2>1, <2>2, <2>3 DEF CopyBuilt, RaisedFrom, Changed
  <1> QED BY <1>2, <1>3, <1>4

\* Loading and handling.
LEMMA LoadBuild ==
    ASSUME BuildInv, NEW w \in Workers,
           \/ Load(w) \/ Query(w) \/ EndQuery(w) \/ LoadFails(w)
           \/ \E c \in Commands : Receive(w, c)
           \/ \E after \in {entry[w]} \cup Raised(w), outcome \in Results : Handle(w, after, outcome)
    PROVE  CopiesBuilt'
  <1> USE HostType DEF BuildInv, Inv, LedgerInv
  <1>1. stream' = stream BY LoadInv
  <1>2. Host[w] \in Servers /\ CopyBuilt(w) /\ BuiltFrom(stream, NoAggregate)
    BY NoneBuilt DEF CopiesBuilt
  <1>3. \A v \in Workers : v # w => pc'[v] = pc[v] /\ entry'[v] = entry[v] /\ from'[v] = from[v]
                                    /\ cmd'[v] = cmd[v]
    BY DEF Load, LoadCached, LoadSnapshot, LoadEvents, LoadSet, UpdateSnapshot, Query, EndQuery,
           LoadFails, Receive, Handle, Goto, TypeOK
  <1>4. ASSUME snapshot' = snapshot \/ BuiltFrom(stream, snapshot'),
               \A s \in Servers : cache'[s] = cache[s] \/ BuiltFrom(stream, cache'[s]),
               CopyBuilt(w)'
        PROVE  CopiesBuilt'
    BY <1>1, <1>3, <1>4, CopyKept DEF CopiesBuilt
  <1>5. CASE LoadCached(w)
    <2>1. /\ UNCHANGED <<snapshot, cache>> /\ pc'[w] = "handle"
          /\ entry'[w].ag = cache[Host[w]]
      BY <1>5 DEF LoadCached, Goto, Entry, redis, TypeOK
    <2>2. CopyBuilt(w)' BY <1>1, <1>2, <2>1 DEF CopyBuilt, CopiesBuilt
    <2> QED BY <1>4, <2>1, <2>2
  <1>6. CASE LoadSnapshot(w)
    <2>1. /\ UNCHANGED <<snapshot, cache>> /\ pc'[w] = "events"
          /\ entry'[w].ag = snapshot /\ from'[w] = snapshot.version
      BY <1>6 DEF LoadSnapshot, Goto, Entry, redis, TypeOK
    <2>2. CopyBuilt(w)' BY <1>1, <2>1 DEF CopyBuilt, CopiesBuilt
    <2> QED BY <1>4, <2>1, <2>2
  <1>7. CASE LoadEvents(w)
    <2> DEFINE ag == Replay(entry[w].ag, GetEvents(from[w] + 1))
    <2>1. /\ UNCHANGED <<snapshot, cache>> /\ pc'[w] \in {"handle", "set"} /\ entry'[w].ag = ag
      BY <1>7 DEF LoadEvents, Goto, Entry, redis, TypeOK
    <2>2. /\ from[w] = entry[w].ag.version /\ BuiltFrom(stream, entry[w].ag)
          /\ entry[w].ag.version <= Top(stream) /\ entry[w].ag \in Aggregates
      BY <1>2, <1>7 DEF LoadEvents, CopyBuilt, NothingAhead, TypeOK
    <2>3. BuiltFrom(stream, ag) BY <2>2, ReplayBuilds
    <2>4. CopyBuilt(w)' BY <1>1, <2>1, <2>3 DEF CopyBuilt
    <2> QED BY <1>4, <2>1, <2>4
  <1>8. CASE LoadSet(w)
    <2>1. /\ snapshot' = snapshot /\ pc'[w] \in {"handle", "snapshot"} /\ entry' = entry
          /\ \A s \in Servers : cache'[s] \in {cache[s], entry[w].ag}
      BY <1>8 DEF LoadSet, Goto, redis, TypeOK
    <2>2. BuiltFrom(stream, entry[w].ag) BY <1>2, <1>8 DEF LoadSet, CopyBuilt
    <2>3. CopyBuilt(w)' BY <1>1, <2>1, <2>2 DEF CopyBuilt
    <2> QED BY <1>4, <2>1, <2>2, <2>3
  <1>9. CASE UpdateSnapshot(w)
    <2>1. /\ snapshot' = entry[w].ag /\ pc'[w] = "handle" /\ entry' = entry /\ cache' = cache
      BY <1>9 DEF UpdateSnapshot, Goto, TypeOK
    <2>2. BuiltFrom(stream, entry[w].ag) BY <1>2, <1>9 DEF UpdateSnapshot, CopyBuilt
    <2>3. CopyBuilt(w)' BY <1>1, <2>1, <2>2 DEF CopyBuilt
    <2> QED BY <1>4, <2>1, <2>2, <2>3
  <1>10. CASE Query(w) \/ EndQuery(w)
    <2>1. UNCHANGED <<snapshot, cache>> /\ pc'[w] \in {"begin", "idle"}
      BY <1>10 DEF Query, EndQuery, Goto, redis, TypeOK
    <2>2. CopyBuilt(w)' BY <2>1 DEF CopyBuilt
    <2> QED BY <1>4, <2>1, <2>2
  <1>11. CASE LoadFails(w)
    <2>1. UNCHANGED <<snapshot, cache>> /\ pc'[w] = "append" /\ entry'[w] = NoEntry
      BY <1>11 DEF LoadFails, Goto, redis, TypeOK
    <2>2. ~Changed(NoEntry) BY DEF Changed, NoEntry, NoAggregate
    <2>3. CopyBuilt(w)' BY <2>1, <2>2 DEF CopyBuilt, Changed
    <2> QED BY <1>4, <2>1, <2>3
  <1>12. ASSUME NEW c \in Commands, Receive(w, c) PROVE CopiesBuilt'
    <2>1. UNCHANGED <<snapshot, cache>> /\ pc'[w] \in {"handle", "begin"} /\ entry'[w] = NoEntry
      BY <1>12 DEF Receive, Goto, redis, TypeOK, WorkersPlaced
    <2>2. CopyBuilt(w)' BY <1>1, <1>2, <2>1 DEF CopyBuilt, NoEntry
    <2> QED BY <1>4, <2>1, <2>2
  <1>13. ASSUME NEW after \in {entry[w]} \cup Raised(w), NEW outcome \in Results, Handle(w, after, outcome)
         PROVE  CopiesBuilt'
    <2>1. /\ UNCHANGED <<snapshot, cache, cmd>> /\ pc'[w] = "append" /\ entry'[w] = after
      BY <1>13 DEF Handle, Goto, redis, TypeOK
    <2>2. /\ entry[w].version = entry[w].ag.version /\ BuiltFrom(stream, entry[w].ag)
          /\ cmd[w] \in Commands /\ entry[w].version \in Nat
      BY <1>2, <1>13 DEF Handle, CopyBuilt, NothingAhead, WorkersPlaced, TypeOK
    <2>3. Changed(after) => RaisedFrom(stream, after, cmd[w])
      <3>1. CASE after \in Raised(w)
        <4>1. PICK a \in {NoAggregate, entry[w].ag} :
                 /\ after = [version |-> after.version,
                             ag |-> [version |-> a.version + 1, applied |-> [a.applied EXCEPT ![cmd[w]] = @ + 1]]]
                 /\ \/ a = NoAggregate /\ after.version = 0 /\ cmd[w] \in Creates
                    \/ a = entry[w].ag /\ a.version > 0 /\ after.version = entry[w].version /\ cmd[w] \in Modifies
          BY <2>2, <3>1, RaisedOf
        <4>2. after.ag.applied = [a.applied EXCEPT ![cmd[w]] = @ + 1] BY <4>1
        <4>3. a.applied = Count(UpTo(stream, after.version))
          BY <1>2, <2>2, <4>1 DEF BuiltFrom, NoAggregate
        <4> QED BY <4>2, <4>3 DEF RaisedFrom
      <3>2. CASE after = entry[w] BY <2>2, <3>2 DEF Changed
      <3> QED BY <3>1, <3>2
    <2>4. CopyBuilt(w)' BY <1>1, <2>1, <2>3 DEF CopyBuilt, Changed
    <2> QED BY <1>4, <2>1, <2>4
  <1> QED BY <1>5, <1>6, <1>7, <1>8, <1>9, <1>10, <1>11, <1>12, <1>13 DEF Load

LEMMA CommitBuild ==
    ASSUME BuildInv, NEW w \in Workers, Commit(w) \/ AppendFails(w)
    PROVE  CopiesBuilt'
  <1> USE DEF BuildInv, Inv, LedgerInv
  <1>1. w \in Threads /\ cmd[w] \in Commands /\ Host[w] \in Servers
    BY CommitsOnServer, HostType
  <1>2. \/ stream' = stream
        \/ stream' = stream \cup {[cmd |-> cmd[w], version |-> Top(stream) + 1]}
    BY <1>1, StoreGrows, StoreEffect
  <1>3. BuiltFrom(stream', NoAggregate)
    <2>1. BuiltFrom(stream, NoAggregate) /\ Top(stream) \in Nat BY NoneBuilt DEF StreamDense
    <2>2. ~(Top(stream) + 1 <= 0) BY <2>1
    <2>3. UpTo(stream', 0) = UpTo(stream, 0) BY <1>2, <2>2 DEF UpTo
    <2> QED BY <2>1, <2>3 DEF BuiltFrom, NoAggregate
  <1>4. /\ snapshot' = snapshot
        /\ \A v \in Workers : v # w => pc'[v] = pc[v] /\ entry'[v] = entry[v] /\ from'[v] = from[v]
                                       /\ cmd'[v] = cmd[v]
        /\ \A s \in Servers : cache'[s] \in {cache[s], NoAggregate}
                              \/ (cache'[s] = entry[w].ag /\ pc[w] = "appended" /\ stream' = stream)
        /\ \/ pc'[w] \in {"finish", "conflict", "begin", "idle"}
           \/ pc'[w] = "appended" /\ pc[w] = "append" /\ Store(w) /\ Changed(entry[w]) /\ entry' = entry
    <2>1. CASE AppendDuplicate(w) BY <1>1, <2>1 DEF AppendDuplicate, Goto, redis, TypeOK
    <2>2. CASE AppendStored(w) BY <1>1, <2>2 DEF AppendStored, Goto, TypeOK
    <2>3. CASE AppendExisting(w) BY <1>1, <2>3 DEF AppendExisting, Goto, redis, TypeOK
    <2>4. CASE AppendConflict(w) BY <1>1, <2>4 DEF AppendConflict, Goto, redis, TypeOK
    <2>5. CASE CommitCache(w) BY <1>1, <2>5 DEF CommitCache, Goto, redis, TypeOK
    <2>6. CASE Retry(w) BY <1>1, <2>6 DEF Retry, Goto, redis, TypeOK
    <2>7. CASE GiveUp(w) BY <1>1, <2>7 DEF GiveUp, Release, Goto, redis, TypeOK
    <2>8. CASE Finish(w) BY <1>1, <2>8 DEF Finish, Release, Goto, redis, TypeOK
    <2>9. CASE AppendFails(w) BY <1>1, <2>9 DEF AppendFails, Release, Goto, redis, TypeOK
    <2> QED BY <2>1, <2>2, <2>3, <2>4, <2>5, <2>6, <2>7, <2>8, <2>9 DEF Commit
  <1>5. /\ BuiltFrom(stream', snapshot)
        /\ \A s \in Servers : BuiltFrom(stream', cache[s])
        /\ \A v \in Workers : v # w => CopyBuilt(v)'
    BY <1>2, <1>4, CopyKept
  <1>6. \A s \in Servers : BuiltFrom(stream', cache'[s])
    <2>1. pc[w] = "appended" => BuiltFrom(stream, entry[w].ag) BY DEF CopiesBuilt, CopyBuilt
    <2> QED BY <1>3, <1>4, <1>5, <2>1
  <1>7. CopyBuilt(w)'
    <2>1. CASE pc'[w] \in {"finish", "conflict", "begin", "idle"} BY <2>1 DEF CopyBuilt
    <2>2. CASE pc'[w] = "appended" /\ pc[w] = "append" /\ Store(w) /\ Changed(entry[w]) /\ entry' = entry
      BY <1>1, <2>2, StoreBuilds DEF CopyBuilt
    <2> QED BY <1>4, <2>1, <2>2
  <1> QED BY <1>4, <1>5, <1>6, <1>7 DEF CopiesBuilt

LEMMA EnvironmentBuild ==
    ASSUME BuildInv,
           \/ \E s \in Servers : (\E m \in outbox[s] : Publish(s, m)) \/ Evict(s) \/ Crash(s)
           \/ \E c \in Commands : Redeliver(c)
    PROVE  CopiesBuilt'
  <1> USE DEF BuildInv, Inv, LedgerInv
  <1>1. stream' = stream BY EnvironmentInv
  <1>2. snapshot' = snapshot BY DEF Publish, Evict, Crash, Redeliver, redis
  <1>3. \A s \in Servers : cache'[s] \in {cache[s], NoAggregate}
    BY DEF Publish, Evict, Crash, Redeliver, TypeOK
  <1>4. \A v \in Workers :
           \/ pc'[v] = "idle"
           \/ pc'[v] = pc[v] /\ entry'[v] = entry[v] /\ from'[v] = from[v] /\ cmd'[v] = cmd[v]
    BY DEF Publish, Evict, Crash, Redeliver, worker, TypeOK
  <1>5. BuiltFrom(stream', NoAggregate) BY <1>1, NoneBuilt
  <1>6. \A v \in Workers : CopyBuilt(v)'
    <2>1. ASSUME NEW v \in Workers, pc'[v] = "idle" PROVE CopyBuilt(v)' BY <2>1 DEF CopyBuilt
    <2> QED BY <1>1, <1>4, <2>1, CopyKept
  <1>7. BuiltFrom(stream', snapshot) /\ \A s \in Servers : BuiltFrom(stream', cache[s])
    BY <1>1, CopyKept
  <1> QED BY <1>2, <1>3, <1>5, <1>6, <1>7 DEF CopiesBuilt

LEMMA BuildInit == Init => BuildInv
  <1> SUFFICES ASSUME Init PROVE BuildInv
    OBVIOUS
  <1>1. Inv BY TypeInit, InitInv DEF Inv
  <1>2. BuiltFrom(stream, NoAggregate) BY <1>1, NoneBuilt DEF Inv, LedgerInv
  <1>3. \A w \in Workers : CopyBuilt(w) BY DEF Init, CopyBuilt
  <1> QED BY <1>1, <1>2, <1>3 DEF Init, BuildInv, CopiesBuilt

LEMMA BuildStep == BuildInv /\ [Next]_vars => BuildInv'
  <1> SUFFICES ASSUME BuildInv, [Next]_vars PROVE BuildInv'
    OBVIOUS
  <1>1. Inv' BY TypeStep, InvStep DEF Inv, BuildInv
  <1>2. CASE UNCHANGED vars
    <2>1. CopiesBuilt'
      BY <1>2 DEF BuildInv, CopiesBuilt, CopyBuilt, vars, redis, worker
    <2> QED BY <1>1, <2>1 DEF BuildInv
  <1>3. CASE Next
    <2>1. CopiesBuilt' BY <1>3, LoadBuild, CommitBuild, EnvironmentBuild DEF Next, Work
    <2> QED BY <1>1, <2>1 DEF BuildInv
  <1> QED BY <1>2, <1>3

\* Every aggregate that is cached, stored as a snapshot or handed to a handler is the
\* replay of the stream up to its version, whatever was cached, evicted or saved when
\* (EventSourcingRepository.GetByKeyAsync, UnitOfWork.CommitAsync).
THEOREM AggregatesAreBuilt == Spec => []AggregatesBuilt
  <1>1. BuildInv => AggregatesBuilt
    BY DEF BuildInv, CopiesBuilt, CopyBuilt, AggregatesBuilt, Built, BuiltFrom, UpTo
  <1> QED BY <1>1, BuildInit, BuildStep, PTL DEF Spec

-----------------------------------------------------------------------------
(* Retries *)

\* Each event belongs to a command of its own, and only the first one is not the event
\* of a command that changes the aggregate.
EventsStored ==
    \A r \in stream : results[r.cmd].event = r.version /\ (r.version > 1 => r.cmd \in Modifies)

\* A version of the aggregate that others have moved on from.
Old(version) == 0 < version /\ version < Top(stream)

\* A worker that is about to cache an old copy.
Late(w) == pc[w] \in {"set", "appended"} /\ Old(entry[w].ag.version)

\* A thread whose attempt works, or would work, on an old copy.
Behind(w) ==
    \/ Old(cache[Host[w]].version)
    \/ pc[w] \in {"set", "snapshot", "handle", "appended"} /\ Old(entry[w].ag.version)
    \/ pc[w] = "append" /\ Changed(entry[w]) /\ Old(entry[w].version)
    \/ pc[w] = "conflict" /\ Top(stream) > 1

\* The workers that can still cost a thread a retry for the events stored so far.
Overdue(w) == {v \in Sharing(w) : Late(v) \/ (v = w /\ Behind(w))}

\* Each event after the first costs at most one retry for each worker that shares the
\* cache: those paid, and those still overdue.
RetryBound(w) ==
    /\ pc[w] = "conflict" => Top(stream) > 1
    /\ Top(stream) = 0 => retries[w] = 0
    /\ IsFiniteSet(Sharing(w)) /\ Top(stream) > 0 =>
         retries[w] + Cardinality(Overdue(w)) <= Cardinality(Sharing(w)) * (Top(stream) - 1)
    /\ Enough(w) /\ pc[w] = "conflict" => retries[w] < RetryCount
RetryInv == BuildInv /\ EventsStored /\ \A w \in Threads : RetryBound(w)

\* A command that changes the aggregate and is not stored makes the stream no longer
\* than there are such commands.
LEMMA StreamShort ==
    ASSUME TypeOK, StreamDense, EventsStored, IsFiniteSet(Modifies),
           NEW c \in Modifies, results[c] = NoResult
    PROVE  Top(stream) <= Cardinality(Modifies)
  <1> DEFINE n == Top(stream)
             Others == Modifies \ {c}
             f == [v \in 2..n |-> (CHOOSE r \in stream : r.version = v).cmd]
  <1>1. n \in Nat /\ {r.version : r \in stream} = 1..n BY DEF StreamDense
  <1>2. IsFiniteSet(Others) /\ Cardinality(Others) = Cardinality(Modifies) - 1
    BY FS_RemoveElement
  <1>3. Cardinality(Modifies) \in Nat /\ Cardinality(Others) \in Nat
    BY <1>2, FS_CardinalityType
  <1>4. Cardinality(2..n) = IF 2 > n THEN 0 ELSE n - 2 + 1
    BY <1>1, FS_Interval
  <1>5. ASSUME NEW v \in 2..n
        PROVE  f[v] \in Others /\ results[f[v]].event = v
    <2>1. v \in 1..n BY <1>1
    <2>2. \E r \in stream : r.version = v BY <1>1, <2>1
    <2> DEFINE r == CHOOSE q \in stream : q.version = v
    <2>3. r \in stream /\ r.version = v BY <2>2
    <2>4. f[v] = r.cmd OBVIOUS
    <2> HIDE DEF f, r
    <2>5. results[r.cmd].event = v /\ r.cmd \in Modifies BY <1>1, <2>3 DEF EventsStored
    <2>6. r.cmd # c BY <1>1, <2>5 DEF NoResult
    <2> QED BY <2>4, <2>5, <2>6
  <1>6. f \in [2..n -> Others] BY <1>5
  <1>7. Cardinality(2..n) <= Cardinality(Others)
    <2> SUFFICES ASSUME Cardinality(Others) < Cardinality(2..n) PROVE FALSE
      BY <1>1, <1>3, <1>4
    <2>1. IsFiniteSet(2..n) BY <1>1, FS_Interval
    <2> DEFINE S == 2..n
    <2>2. IsFiniteSet(S) /\ Cardinality(Others) < Cardinality(S) /\ f \in [S -> Others]
      BY <1>6, <2>1
    <2> HIDE DEF f, Others, S
    <2>3. \E u, v \in S : u # v /\ f[u] = f[v] BY <1>2, <2>2, FS_PigeonHole
    <2> QED BY <1>5, <2>3 DEF S
  <1> QED BY <1>1, <1>2, <1>3, <1>4, <1>7

\* Storing an attempt keeps the events apart.
LEMMA StoreStored ==
    ASSUME RetryInv, NEW w \in Threads, pc[w] = "append", Store(w), NEW r \in stream'
    PROVE  results'[r.cmd].event = r.version /\ (r.version > 1 => r.cmd \in Modifies)
  <1> USE DEF RetryInv, BuildInv, Inv, LedgerInv
  <1>1. /\ cmd[w] \in Commands /\ results[cmd[w]] = NoResult /\ results'[cmd[w]] = Result(w)
        /\ \A d \in Commands : d # cmd[w] => results'[d] = results[d]
    BY StoreEffect DEF TypeOK
  <1>2. CASE r \in stream
    <2>1. r.cmd \in Commands /\ r.version \in 1..Top(stream) /\ Top(stream) \in Nat
      BY <1>2 DEF TypeOK, Records, StreamDense
    <2>2. results[r.cmd].event = r.version /\ (r.version > 1 => r.cmd \in Modifies)
      BY <1>2 DEF EventsStored
    <2>3. r.cmd # cmd[w] BY <1>1, <2>1, <2>2 DEF NoResult
    <2> QED BY <1>1, <2>1, <2>2, <2>3
  <1>3. CASE r \notin stream
    <2>1. Changed(entry[w]) BY <1>3, StoreEffect
    <2>2. /\ r = [cmd |-> cmd[w], version |-> Top(stream) + 1]
          /\ cmd[w] \notin Modifies => stream = {}
      BY <1>3, <2>1, StoreEffect
    <2>3. Result(w).event = Top(stream) + 1 BY <2>1, StoredResult
    <2>4. cmd[w] \notin Modifies => Top(stream) = 0 BY <2>2 DEF Top
    <2> QED BY <1>1, <2>2, <2>3, <2>4
  <1> QED BY <1>2, <1>3

\* Counting retries.
LEMMA OneMoreEvent ==
    ASSUME NEW k \in Nat, NEW n \in Nat
    PROVE  k * ((n + 1) - 1) = k * (n - 1) + k
  OBVIOUS

LEMMA FewerEvents ==
    ASSUME NEW k \in Nat, NEW n \in Nat, NEW d \in Nat
    PROVE  k * n <= k * (n + d)
  <1>1. k * (n + d) = k * n + k * d OBVIOUS
  <1>2. k * d \in Nat OBVIOUS
  <1>3. k * n \in Nat OBVIOUS
  <1> QED BY <1>1, <1>2, <1>3

LEMMA Swapped ==
    ASSUME NEW S, IsFiniteSet(S), NEW v \in S, NEW w, NEW T \in SUBSET ((S \ {v}) \cup {w})
    PROVE  Cardinality(T) <= Cardinality(S)
  <1> DEFINE R == S \ {v}
             U == R \cup {w}
  <1>1. IsFiniteSet(R) /\ Cardinality(R) = Cardinality(S) - 1 BY FS_RemoveElement
  <1>2. Cardinality(S) \in Nat /\ Cardinality(R) \in Nat BY <1>1, FS_CardinalityType
  <1> HIDE DEF R
  <1>3. /\ IsFiniteSet(U)
        /\ Cardinality(U) = Cardinality(R) \/ Cardinality(U) = Cardinality(R) + 1
    BY <1>1, FS_AddElement
  <1>4. T \in SUBSET U BY DEF R
  <1> HIDE DEF U
  <1>5. Cardinality(T) <= Cardinality(U) BY <1>3, <1>4, FS_Subset
  <1>6. Cardinality(T) \in Nat BY <1>3, <1>4, FS_Subset, FS_CardinalityType
  <1> QED BY <1>1, <1>2, <1>3, <1>5, <1>6

\* A thread's bound holds on when no more workers are overdue and it has not retried.
LEMMA BoundKept ==
    ASSUME TypeOK, TypeOK', StreamDense, UNCHANGED stream, NEW w \in Threads, RetryBound(w),
           retries'[w] <= retries[w],
           IsFiniteSet(Sharing(w)) => /\ Cardinality(Overdue(w)') <= Cardinality(Overdue(w))
                                      /\ IsFiniteSet(Overdue(w)'),
           pc'[w] = "conflict" => Top(stream) > 1 /\ (Enough(w) => retries'[w] < RetryCount)
    PROVE  RetryBound(w)'
  <1>1. Top(stream)' = Top(stream) /\ Top(stream) \in Nat BY QuietStream
  <1>2. retries[w] \in Nat /\ retries'[w] \in Nat BY DEF TypeOK, Workers
  <1>3. ASSUME IsFiniteSet(Sharing(w)), Top(stream) > 0
        PROVE  retries'[w] + Cardinality(Overdue(w)') <= Cardinality(Sharing(w)) * (Top(stream) - 1)
    <2> DEFINE k == Cardinality(Overdue(w)')
               n == Cardinality(Overdue(w))
               b == Cardinality(Sharing(w)) * (Top(stream) - 1)
    <2>1. Overdue(w) \in SUBSET Sharing(w) BY DEF Overdue
    <2>2. n \in Nat /\ k \in Nat BY <1>3, <2>1, FS_Subset, FS_CardinalityType
    <2>3. Top(stream) - 1 \in Nat /\ Cardinality(Sharing(w)) \in Nat BY <1>1, <1>3, FS_CardinalityType
    <2>4. b \in Int BY <2>3
    <2>5. retries[w] + n <= b /\ k <= n BY <1>3 DEF RetryBound
    <2> HIDE DEF k, n, b
    <2>6. retries'[w] + k <= b BY <1>2, <2>2, <2>4, <2>5
    <2> QED BY <2>6 DEF k, b
  <1>4. Sharing(w)' = Sharing(w) /\ (Enough(w)' <=> Enough(w)) BY DEF Sharing, Enough
  <1>5. Cardinality(Overdue(w))' = Cardinality(Overdue(w)') OBVIOUS
  <1> QED BY <1>1, <1>2, <1>3, <1>4, <1>5 DEF RetryBound

\* A subset of what was overdue.
LEMMA OverdueShrinks ==
    ASSUME TypeOK, TypeOK', StreamDense, UNCHANGED stream, NEW w \in Threads, RetryBound(w),
           retries'[w] <= retries[w],
           Overdue(w)' \subseteq Overdue(w),
           pc'[w] = "conflict" => Top(stream) > 1 /\ (Enough(w) => retries'[w] < RetryCount)
    PROVE  RetryBound(w)'
  <1>1. ASSUME IsFiniteSet(Sharing(w))
        PROVE  Cardinality(Overdue(w)') <= Cardinality(Overdue(w)) /\ IsFiniteSet(Overdue(w)')
    <2>1. Overdue(w) \in SUBSET Sharing(w) BY DEF Overdue
    <2>2. IsFiniteSet(Overdue(w)) BY <1>1, <2>1, FS_Subset
    <2>3. Overdue(w)' \in SUBSET Overdue(w) OBVIOUS
    <2> QED BY <2>2, <2>3, FS_Subset
  <1> QED BY <1>1, BoundKept

LEMMA OldStays == ASSUME UNCHANGED stream, NEW x PROVE Old(x)' <=> Old(x)
  BY DEF Old

\* A step of another worker: it may cache an old copy, and is no longer late then.
LEMMA OthersBound ==
    ASSUME TypeOK, TypeOK', StreamDense, UNCHANGED stream,
           NEW u \in Workers, NEW w \in Threads, w # u, RetryBound(w),
           \A v \in Workers : v # u => pc'[v] = pc[v] /\ entry'[v] = entry[v] /\ retries'[v] = retries[v],
           \A s \in Servers : s # Host[u] => cache'[s] = cache[s],
           Late(u)' => Late(u),
           Old(cache'[Host[u]].version) => Old(cache[Host[u]].version) \/ (Late(u) /\ ~Late(u)')
    PROVE  RetryBound(w)'
  <1>1. /\ w \in Workers /\ Host[w] \in Servers /\ retries[w] \in Nat
        /\ pc'[w] = pc[w] /\ entry'[w] = entry[w] /\ retries'[w] = retries[w]
        /\ pc[w] = "conflict" => Top(stream) > 1 /\ (Enough(w) => retries[w] < RetryCount)
    BY HostType DEF Workers, TypeOK, RetryBound
  <1>2. ASSUME NEW v \in Workers, v # u PROVE Late(v)' <=> Late(v)
    <2>1. pc'[v] = pc[v] /\ entry'[v] = entry[v] BY <1>2
    <2> QED BY <2>1, OldStays DEF Late
  <1>3. Behind(w)' => Behind(w) \/ (Host[u] = Host[w] /\ Late(u) /\ ~Late(u)')
    <2>1. Old(cache'[Host[w]].version) => Old(cache[Host[w]].version)
                                         \/ (Host[u] = Host[w] /\ Late(u) /\ ~Late(u)')
      <3>1. CASE Host[u] = Host[w] BY <3>1
      <3>2. CASE Host[u] # Host[w] BY <1>1, <3>2
      <3> QED BY <3>1, <3>2
    <2>2. Top(stream)' = Top(stream) BY QuietStream
    <2>3. \A x : Old(x)' <=> Old(x) BY OldStays
    <2> QED BY <1>1, <2>1, <2>2, <2>3 DEF Behind, Changed
  <1>4. Sharing(w) \subseteq Workers /\ Sharing(w)' = Sharing(w) BY DEF Sharing
  <1>5. CASE Behind(w)' => Behind(w)
    <2>1. ASSUME NEW v \in Overdue(w)' PROVE v \in Overdue(w)
      <3>1. v \in Sharing(w) /\ (Late(v)' \/ (v = w /\ Behind(w)')) BY <1>4, <2>1 DEF Overdue
      <3>2. Late(v) \/ (v = w /\ Behind(w)) BY <1>2, <1>4, <1>5, <3>1
      <3> QED BY <3>1, <3>2 DEF Overdue
    <2> QED BY <1>1, <2>1, OverdueShrinks
  <1>6. CASE Host[u] = Host[w] /\ Late(u) /\ ~Late(u)'
    <2>1. u \in Overdue(w) BY <1>6 DEF Overdue, Sharing
    <2>2. ASSUME NEW v \in Overdue(w)' PROVE v \in (Overdue(w) \ {u}) \cup {w}
      <3>1. v \in Sharing(w) /\ (Late(v)' \/ v = w) BY <1>4, <2>2 DEF Overdue
      <3>2. v # w => v # u /\ Late(v) BY <1>2, <1>4, <1>6, <3>1
      <3> QED BY <3>1, <3>2 DEF Overdue
    <2>3. ASSUME IsFiniteSet(Sharing(w))
          PROVE  Cardinality(Overdue(w)') <= Cardinality(Overdue(w)) /\ IsFiniteSet(Overdue(w)')
      <3>1. Overdue(w) \in SUBSET Sharing(w) BY DEF Overdue
      <3>2. Overdue(w)' \in SUBSET Sharing(w) BY <1>4 DEF Overdue
      <3>3. IsFiniteSet(Overdue(w)) /\ IsFiniteSet(Overdue(w)') BY <2>3, <3>1, <3>2, FS_Subset
      <3>4. Overdue(w)' \in SUBSET ((Overdue(w) \ {u}) \cup {w}) BY <2>2
      <3>5. \A S, v, x, T : IsFiniteSet(S) /\ v \in S /\ T \in SUBSET ((S \ {v}) \cup {x})
                            => Cardinality(T) <= Cardinality(S)
        BY Swapped
      <3> QED BY <2>1, <3>3, <3>4, <3>5
    <2> QED BY <1>1, <2>3, BoundKept
  <1> QED BY <1>3, <1>5, <1>6

\* A step of the thread itself that does not lose its attempt.
LEMMA OwnBound ==
    ASSUME TypeOK, TypeOK', StreamDense, UNCHANGED stream, NEW w \in Threads, RetryBound(w),
           \A v \in Workers : v # w => pc'[v] = pc[v] /\ entry'[v] = entry[v],
           retries'[w] <= retries[w],
           Behind(w)' => Behind(w),
           pc'[w] = "conflict" => Top(stream) > 1 /\ (Enough(w) => retries'[w] < RetryCount)
    PROVE  RetryBound(w)'
  <1>1. Sharing(w) \subseteq Workers /\ Sharing(w)' = Sharing(w) BY DEF Sharing
  <1>2. Late(w)' => Behind(w)' BY DEF Late, Behind
  <1>3. ASSUME NEW v \in Overdue(w)' PROVE v \in Overdue(w)
    <2>1. v \in Sharing(w) /\ (Late(v)' \/ (v = w /\ Behind(w)')) BY <1>1, <1>3 DEF Overdue
    <2>2. CASE v = w BY <1>2, <2>1, <2>2 DEF Overdue
    <2>3. CASE v # w
      <3>1. pc'[v] = pc[v] /\ entry'[v] = entry[v] BY <1>1, <2>1, <2>3
      <3>2. Late(v) BY <2>1, <2>3, <3>1, OldStays DEF Late
      <3> QED BY <2>1, <3>2 DEF Overdue
    <2> QED BY <2>2, <2>3
  <1> QED BY <1>3, OverdueShrinks

\* Loading and handling: what is read from the stream is not old.
LEMMA LoadRetry ==
    ASSUME RetryInv, TypeOK', NEW w \in Workers,
           \/ Load(w) \/ Query(w) \/ EndQuery(w) \/ LoadFails(w)
           \/ \E c \in Commands : Receive(w, c)
           \/ \E after \in {entry[w]} \cup Raised(w), outcome \in Results : Handle(w, after, outcome)
    PROVE  EventsStored' /\ \A v \in Threads : RetryBound(v)'
  <1> USE HostType DEF RetryInv, BuildInv, Inv, LedgerInv
  <1>1. UNCHANGED <<stream, results, retries>>
    BY DEF Load, LoadCached, LoadSnapshot, LoadEvents, LoadSet, UpdateSnapshot, Query, EndQuery,
           LoadFails, Receive, Handle, redis
  <1>2. \A v \in Workers : v # w => pc'[v] = pc[v] /\ entry'[v] = entry[v]
    BY DEF Load, LoadCached, LoadSnapshot, LoadEvents, LoadSet, UpdateSnapshot, Query, EndQuery,
           LoadFails, Receive, Handle, Goto, TypeOK
  <1>3. /\ Top(stream)' = Top(stream) /\ Top(stream) \in Nat /\ Host[w] \in Servers
        /\ entry[w].version \in Nat /\ entry[w].ag.version \in Nat
    BY <1>1, QuietStream DEF TypeOK, Aggregates
  <1>4. \A x : Old(x)' <=> Old(x) BY <1>1, OldStays
  <1>5. ~Old(0) /\ NoAggregate.version = 0 /\ NoEntry.version = 0 /\ NoEntry.ag.version = 0
    BY DEF Old, NoAggregate, NoEntry
  <1> DEFINE Kept == /\ \A s \in Servers : s # Host[w] => cache'[s] = cache[s]
                     /\ Late(w)' => Late(w)
                     /\ Old(cache'[Host[w]].version) => Old(cache[Host[w]].version) \/ (Late(w) /\ ~Late(w)')
                     /\ Behind(w)' => Behind(w)
                     /\ pc'[w] # "conflict"
  <1>6. Kept
    <2>1. CASE LoadCached(w)
      <3>1. /\ cache' = cache /\ pc'[w] = "handle" /\ entry'[w].ag = cache[Host[w]]
        BY <2>1 DEF LoadCached, Goto, Entry, TypeOK
      <3> QED BY <1>4, <3>1 DEF Late, Behind
    <2>2. CASE LoadSnapshot(w)
      <3>1. cache' = cache /\ pc'[w] = "events" BY <2>2 DEF LoadSnapshot, Goto, TypeOK
      <3> QED BY <1>4, <3>1 DEF Late, Behind
    <2>3. CASE LoadEvents(w)
      <3> DEFINE ag == Replay(entry[w].ag, GetEvents(from[w] + 1))
      <3>1. /\ cache' = cache /\ pc[w] = "events" /\ pc'[w] \in {"handle", "set"}
            /\ entry'[w].ag = ag
        BY <2>3 DEF LoadEvents, Goto, Entry, TypeOK
      <3>2. /\ entry[w].ag \in Aggregates /\ entry[w].ag.version <= Top(stream)
            /\ from[w] = entry[w].ag.version
        BY <3>1 DEF TypeOK, NothingAhead, CopiesBuilt, CopyBuilt
      <3>3. ag.version = Top(stream) BY <3>2, ReplayTop
      <3>4. ~Old(ag.version) BY <1>3, <3>3 DEF Old
      <3> HIDE DEF ag
      <3> QED BY <1>4, <3>1, <3>4 DEF Late, Behind
    <2>4. CASE LoadSet(w)
      <3>1. /\ pc[w] = "set" /\ pc'[w] \in {"snapshot", "handle"} /\ entry' = entry
            /\ cache'[Host[w]] = entry[w].ag
            /\ \A s \in Servers : s # Host[w] => cache'[s] = cache[s]
        BY <1>3, <2>4 DEF LoadSet, Goto, TypeOK
      <3> QED BY <1>4, <3>1 DEF Late, Behind
    <2>5. CASE UpdateSnapshot(w)
      <3>1. cache' = cache /\ pc[w] = "snapshot" /\ pc'[w] = "handle" /\ entry' = entry
        BY <2>5 DEF UpdateSnapshot, Goto, TypeOK
      <3> QED BY <1>4, <3>1 DEF Late, Behind
    <2>6. CASE Query(w) \/ EndQuery(w)
      <3>1. cache' = cache /\ pc'[w] \in {"begin", "idle"} BY <2>6 DEF Query, EndQuery, Goto, TypeOK
      <3> QED BY <1>4, <3>1 DEF Late, Behind
    <2>7. CASE LoadFails(w)
      <3>1. cache' = cache /\ pc'[w] = "append" /\ entry'[w] = NoEntry
        BY <2>7 DEF LoadFails, Goto, TypeOK
      <3> QED BY <1>4, <1>5, <3>1 DEF Late, Behind
    <2>8. ASSUME NEW c \in Commands, Receive(w, c) PROVE Kept
      <3>1. cache' = cache /\ pc'[w] \in {"handle", "begin"} /\ entry'[w] = NoEntry
        BY <2>8 DEF Receive, Goto, TypeOK, WorkersPlaced
      <3> QED BY <1>4, <1>5, <3>1 DEF Late, Behind
    <2>9. ASSUME NEW after \in {entry[w]} \cup Raised(w), NEW outcome \in Results, Handle(w, after, outcome)
          PROVE  Kept
      <3>1. /\ cache' = cache /\ pc[w] = "handle" /\ pc'[w] = "append" /\ entry'[w] = after
            /\ cmd[w] \in Commands /\ entry[w].version = entry[w].ag.version
        BY <2>9 DEF Handle, Goto, TypeOK, WorkersPlaced, NothingAhead
      <3>2. Old(after.version) => Old(entry[w].ag.version)
        <4>1. CASE after = entry[w] BY <3>1, <4>1
        <4>2. CASE after \in Raised(w)
          <5>1. after.version = 0 \/ after.version = entry[w].version BY <3>1, <4>2, RaisedOf
          <5> QED BY <1>5, <3>1, <5>1
        <4> QED BY <4>1, <4>2
      <3> QED BY <1>4, <3>1, <3>2 DEF Late, Behind
    <2> QED BY <2>1, <2>2, <2>3, <2>4, <2>5, <2>6, <2>7, <2>8, <2>9 DEF Load
  <1>7. ASSUME NEW v \in Threads PROVE RetryBound(v)'
    <2>1. v \in Workers /\ RetryBound(v) /\ retries[v] \in Nat BY DEF Workers, TypeOK
    <2>2. CASE v # w
      <3>1. \A x \in Workers : x # w => pc'[x] = pc[x] /\ entry'[x] = entry[x] /\ retries'[x] = retries[x]
        BY <1>1, <1>2
      <3> QED BY <1>1, <1>6, <2>1, <2>2, <3>1, OthersBound
    <2>3. CASE v = w BY <1>1, <1>2, <1>6, <2>1, <2>3, OwnBound
    <2> QED BY <2>2, <2>3
  <1>8. EventsStored' BY <1>1 DEF EventsStored
  <1> QED BY <1>7, <1>8

\* A command is stored: each worker can cost a retry for the new event.
LEMMA GrowBound ==
    ASSUME TypeOK, TypeOK', StreamDense, Top(stream)' = Top(stream) + 1, NEW w \in Threads, RetryBound(w),
           retries'[w] <= retries[w],
           pc'[w] = "conflict" => pc[w] = "conflict" /\ retries'[w] = retries[w]
    PROVE  RetryBound(w)'
  <1>1. Top(stream) \in Nat /\ retries[w] \in Nat /\ retries'[w] \in Nat
    BY DEF StreamDense, TypeOK, Workers
  <1>2. Sharing(w)' = Sharing(w) /\ (Enough(w)' <=> Enough(w)) BY DEF Sharing, Enough
  <1>3. Cardinality(Overdue(w))' = Cardinality(Overdue(w)') OBVIOUS
  <1>4. ASSUME IsFiniteSet(Sharing(w))
        PROVE  retries'[w] + Cardinality(Overdue(w)') <= Cardinality(Sharing(w)) * (Top(stream)' - 1)
    <2> DEFINE k == Cardinality(Sharing(w))
               n == Cardinality(Overdue(w))
               m == Cardinality(Overdue(w)')
               t == Top(stream)
    <2>1. Overdue(w) \in SUBSET Sharing(w) /\ Overdue(w)' \in SUBSET Sharing(w)
      BY <1>2 DEF Overdue
    <2>2. k \in Nat /\ n \in Nat /\ m \in Nat /\ m <= k
      BY <1>4, <2>1, FS_Subset, FS_CardinalityType
    <2>3. CASE t = 0
      <3>1. Top(stream)' = 1 BY <2>3
      <3>2. \A x \in Nat : ~Old(x)' BY <3>1 DEF Old
      <3>3. /\ w \in Workers /\ Host[w] \in Servers /\ cache'[Host[w]].version \in Nat
            /\ \A v \in Workers : entry'[v].version \in Nat /\ entry'[v].ag.version \in Nat
        BY HostType DEF Workers, TypeOK, Aggregates
      <3>4. ~Behind(w)' BY <3>1, <3>2, <3>3 DEF Behind
      <3>5. \A v \in Workers : ~Late(v)' BY <3>2, <3>3 DEF Late
      <3>6. Overdue(w)' = {} BY <3>4, <3>5 DEF Overdue, Sharing
      <3>7. m = 0 BY <3>6, FS_EmptySet
      <3>8. retries'[w] = 0 BY <1>1, <2>3 DEF RetryBound
      <3>9. k * (1 - 1) = 0 BY <2>2
      <3> QED BY <3>1, <3>7, <3>8, <3>9
    <2>4. CASE t > 0
      <3>1. retries[w] + n <= k * (t - 1) BY <1>4, <2>4 DEF RetryBound
      <3>2. k * ((t + 1) - 1) = k * (t - 1) + k BY <1>1, <2>2, OneMoreEvent
      <3>3. k * (t - 1) \in Int BY <1>1, <2>2
      <3> HIDE DEF k, n, m, t
      <3>4. retries'[w] + m <= k * ((t + 1) - 1) BY <1>1, <2>2, <3>1, <3>2, <3>3
      <3> QED BY <3>4 DEF k, m, t
    <2> QED BY <1>1, <2>3, <2>4
  <1> QED BY <1>1, <1>2, <1>3, <1>4 DEF RetryBound

\* An attempt that is refused has retries left: the events before it are of other commands.
LEMMA ConflictBound ==
    ASSUME RetryInv, NEW w \in Threads, pc[w] = "append", Refused(w), entry[w].version > 0
    PROVE  /\ Old(entry[w].version) /\ Top(stream) > 1
           /\ Enough(w) => retries[w] < RetryCount
  <1> USE DEF RetryInv, BuildInv, Inv, LedgerInv
  <1>1. /\ w \in Workers /\ entry[w].version \in Nat /\ entry[w].version <= Top(stream)
        /\ Top(stream) \in Nat /\ retries[w] \in Nat
    BY DEF Workers, TypeOK, NothingAhead, StreamDense
  <1>2. Changed(entry[w]) /\ results[cmd[w]] = NoResult /\ Top(stream) # entry[w].version
    BY DEF Refused, Expected
  <1>3. Old(entry[w].version) /\ Top(stream) > 1 BY <1>1, <1>2 DEF Old
  <1>4. ASSUME Enough(w) PROVE retries[w] < RetryCount
    <2> DEFINE k == Cardinality(Sharing(w))
               n == Cardinality(Overdue(w))
               t == Top(stream)
               c == Cardinality(Modifies)
    <2>1. IsFiniteSet(Sharing(w)) /\ IsFiniteSet(Modifies) /\ k * (c - 1) <= RetryCount
      BY <1>4 DEF Enough
    <2>2. Overdue(w) \in SUBSET Sharing(w) /\ w \in Overdue(w)
      BY <1>1, <1>2, <1>3 DEF Overdue, Sharing, Behind
    <2>3. IsFiniteSet(Overdue(w)) BY <2>1, <2>2, FS_Subset
    <2>4. n \in Nat /\ k \in Nat /\ c \in Nat BY <2>1, <2>3, FS_CardinalityType
    <2>5. n > 0 BY <2>2, <2>3, <2>4, FS_EmptySet
    <2>6. retries[w] + n <= k * (t - 1) BY <1>1, <1>3, <2>1 DEF RetryBound
    <2>7. cmd[w] \in Modifies BY <1>1, <1>2 DEF AttemptsReady, AttemptReady
    <2>8. t <= c BY <1>2, <2>1, <2>7, StreamShort
    <2>9. t - 1 \in Nat /\ c - t \in Nat BY <1>1, <1>3, <2>4, <2>8
    <2>10. k * (t - 1) <= k * ((t - 1) + (c - t)) BY <2>4, <2>9, FewerEvents
    <2>11. (t - 1) + (c - t) = c - 1 BY <1>1, <2>4
    <2>12. k * (t - 1) \in Int /\ k * (c - 1) \in Int BY <1>1, <2>4
    <2> HIDE DEF k, n, t, c
    <2>13. k * (t - 1) <= k * (c - 1) BY <2>10, <2>11
    <2> QED BY <1>1, <2>1, <2>4, <2>5, <2>6, <2>12, <2>13, BoundAssumption
  <1> QED BY <1>3, <1>4

\* Dropping the cached copy and starting over pays for one overdue worker: the thread itself.
LEMMA RetryPays ==
    ASSUME RetryInv, TypeOK', NEW w \in Threads, Retry(w)
    PROVE  RetryBound(w)'
  <1> USE DEF RetryInv, BuildInv, Inv, LedgerInv
  <1>1. /\ w \in Workers /\ Host[w] \in Servers /\ retries[w] \in Nat
        /\ Top(stream) > 1 /\ pc[w] = "conflict"
    BY HostType DEF Workers, TypeOK, RetryBound, Retry
  <1>2. /\ stream' = stream /\ pc'[w] = "begin" /\ retries'[w] = retries[w] + 1
        /\ cache'[Host[w]] = NoAggregate
        /\ \A v \in Workers : v # w => pc'[v] = pc[v] /\ entry'[v] = entry[v]
    BY <1>1 DEF Retry, Goto, redis, TypeOK
  <1>3. Top(stream)' = Top(stream) /\ Top(stream) \in Nat BY <1>2, QuietStream
  <1>4. \A x : Old(x)' <=> Old(x) BY <1>2, OldStays
  <1>5. ~Behind(w)' /\ ~Late(w)'
    <2>1. ~Old(NoAggregate.version) BY DEF Old, NoAggregate
    <2> QED BY <1>2, <1>4, <2>1 DEF Behind, Late
  <1>6. w \in Overdue(w) BY <1>1 DEF Overdue, Sharing, Behind
  <1>7. Sharing(w) \subseteq Workers /\ Sharing(w)' = Sharing(w) BY DEF Sharing
  <1>8. ASSUME NEW v \in Overdue(w)' PROVE v \in Overdue(w) \ {w}
    <2>1. v \in Sharing(w) /\ v # w /\ Late(v)' BY <1>5, <1>7, <1>8 DEF Overdue
    <2>2. pc'[v] = pc[v] /\ entry'[v] = entry[v] BY <1>2, <1>7, <2>1
    <2>3. Late(v) BY <1>4, <2>1, <2>2 DEF Late
    <2> QED BY <2>1, <2>3 DEF Overdue
  <1>9. ASSUME IsFiniteSet(Sharing(w))
        PROVE  retries'[w] + Cardinality(Overdue(w)') <= Cardinality(Sharing(w)) * (Top(stream) - 1)
    <2> DEFINE S == Overdue(w)
               T == Overdue(w)'
               b == Cardinality(Sharing(w)) * (Top(stream) - 1)
    <2>1. S \in SUBSET Sharing(w) BY DEF Overdue
    <2>2. IsFiniteSet(S) BY <1>9, <2>1, FS_Subset
    <2>3. T \in SUBSET (S \ {w}) /\ w \in S BY <1>6, <1>8
    <2>4. b \in Int BY <1>3, <1>9, FS_CardinalityType
    <2>5. retries[w] + Cardinality(S) <= b BY <1>1, <1>3, <1>9 DEF RetryBound
    <2> HIDE DEF S, T, b
    <2>6. IsFiniteSet(S \ {w}) /\ Cardinality(S \ {w}) = Cardinality(S) - 1
      BY <2>2, <2>3, FS_RemoveElement
    <2>7. Cardinality(T) <= Cardinality(S \ {w}) /\ IsFiniteSet(T) BY <2>3, <2>6, FS_Subset
    <2>8. Cardinality(S) \in Nat /\ Cardinality(T) \in Nat BY <2>2, <2>7, FS_CardinalityType
    <2>9. retries'[w] + Cardinality(T) <= b BY <1>1, <1>2, <2>4, <2>5, <2>6, <2>7, <2>8
    <2> QED BY <2>9 DEF T, b
  <1>10. Cardinality(Overdue(w))' = Cardinality(Overdue(w)') OBVIOUS
  <1> QED BY <1>1, <1>2, <1>3, <1>7, <1>9, <1>10 DEF RetryBound

LEMMA CommitRetry ==
    ASSUME RetryInv, TypeOK', NEW w \in Workers, Commit(w) \/ AppendFails(w)
    PROVE  EventsStored' /\ \A v \in Threads : RetryBound(v)'
  <1> USE DEF RetryInv, BuildInv, Inv, LedgerInv
  <1>0. w \in Threads /\ cmd[w] \in Commands /\ Host[w] \in Servers /\ retries[w] \in Nat
    BY CommitsOnServer, HostType DEF TypeOK
  <1>1. (pc[w] = "append" /\ Store(w)) \/ UNCHANGED <<stream, results>> BY <1>0, StoreGrows
  <1>2. /\ \A v \in Workers : v # w => /\ pc'[v] = pc[v] /\ entry'[v] = entry[v]
                                       /\ retries'[v] = retries[v]
        /\ \A s \in Servers : s # Host[w] => cache'[s] = cache[s]
        /\ \/ cache' = cache /\ pc'[w] \in {"finish", "appended", "idle"} /\ retries'[w] \in {0, retries[w]}
           \/ AppendConflict(w)
           \/ CommitCache(w)
           \/ Retry(w)
           \/ cache'[Host[w]] = NoAggregate /\ pc'[w] = "idle" /\ retries'[w] = 0 /\ UNCHANGED stream
        /\ pc'[w] = "appended" => Store(w) /\ Changed(entry[w])
    <2>1. CASE AppendDuplicate(w) BY <1>0, <2>1 DEF AppendDuplicate, Goto, TypeOK
    <2>2. CASE AppendStored(w) BY <1>0, <2>2 DEF AppendStored, Goto, TypeOK
    <2>3. CASE AppendExisting(w) BY <1>0, <2>3 DEF AppendExisting, Goto, TypeOK
    <2>4. CASE AppendConflict(w) BY <1>0, <2>4 DEF AppendConflict, Goto, TypeOK
    <2>5. CASE CommitCache(w) BY <1>0, <2>5 DEF CommitCache, Goto, TypeOK
    <2>6. CASE Retry(w) BY <1>0, <2>6 DEF Retry, Goto, TypeOK
    <2>7. CASE GiveUp(w) BY <1>0, <2>7 DEF GiveUp, Release, Goto, redis, TypeOK
    <2>8. CASE Finish(w) BY <1>0, <2>8 DEF Finish, Release, Goto, TypeOK
    <2>9. CASE AppendFails(w) BY <1>0, <2>9 DEF AppendFails, Release, Goto, TypeOK
    <2> QED BY <2>1, <2>2, <2>3, <2>4, <2>5, <2>6, <2>7, <2>8, <2>9 DEF Commit
  <1>3. EventsStored' BY <1>0, <1>1, StoreStored DEF EventsStored
  <1>4. CASE pc[w] = "append" /\ Store(w) /\ Changed(entry[w])
    <2>1. Top(stream)' = Top(stream) + 1 BY <1>0, <1>4, StoreEffect
    <2>2. pc'[w] # "conflict" /\ retries'[w] <= retries[w]
      <3>1. ~AppendConflict(w) /\ ~CommitCache(w) /\ ~Retry(w)
        BY <1>4 DEF AppendConflict, Refused, CommitCache, Retry, Store
      <3> QED BY <1>0, <1>2, <3>1
    <2>3. ASSUME NEW v \in Threads PROVE RetryBound(v)'
      <3>1. v \in Workers /\ retries[v] \in Nat BY DEF Workers, TypeOK
      <3>2. retries'[v] <= retries[v] /\ (pc'[v] = "conflict" => pc[v] = "conflict" /\ retries'[v] = retries[v])
        BY <1>2, <2>2, <3>1
      <3> QED BY <2>1, <3>2, GrowBound
    <2> QED BY <1>3, <2>3
  <1>5. CASE ~(pc[w] = "append" /\ Store(w) /\ Changed(entry[w]))
    <2>1. stream' = stream BY <1>0, <1>1, <1>5, StoreEffect
    <2>2. \A x : Old(x)' <=> Old(x) BY <2>1, OldStays
    <2>3. Top(stream)' = Top(stream) BY <2>1, QuietStream
    <2>4. ~Old(NoAggregate.version) BY DEF Old, NoAggregate
    <2>5. pc'[w] # "appended"
      <3>1. ASSUME pc'[w] = "appended" PROVE pc[w] = "append" /\ Store(w) /\ Changed(entry[w])
        BY <1>0, <1>2, <3>1
           DEF Commit, AppendFails, AppendDuplicate, AppendStored, AppendExisting, AppendConflict,
               CommitCache, Retry, GiveUp, Finish, Release, Goto, TypeOK
      <3> QED BY <1>5, <3>1
    <2>6. /\ Late(w)' => Late(w)
          /\ Old(cache'[Host[w]].version) => Old(cache[Host[w]].version) \/ (Late(w) /\ ~Late(w)')
          /\ Behind(w)' => Behind(w)
          /\ retries'[w] <= retries[w] \/ Retry(w)
          /\ pc'[w] = "conflict" => Top(stream) > 1 /\ (Enough(w) => retries'[w] < RetryCount)
      <3>1. CASE cache' = cache /\ pc'[w] \in {"finish", "idle"} /\ retries'[w] \in {0, retries[w]}
        BY <1>0, <2>2, <3>1 DEF Late, Behind
      <3>2. CASE AppendConflict(w)
        <4>1. /\ pc[w] = "append" /\ Refused(w) /\ entry[w].version > 0 /\ pc'[w] = "conflict"
              /\ cache' = cache /\ retries' = retries
          BY <1>0, <3>2 DEF AppendConflict, Goto, TypeOK
        <4>2. Old(entry[w].version) /\ Top(stream) > 1 /\ (Enough(w) => retries[w] < RetryCount)
          BY <1>0, <4>1, ConflictBound
        <4>3. Behind(w) BY <4>1, <4>2 DEF Behind, Refused
        <4>4. ~Late(w)' BY <4>1 DEF Late
        <4> QED BY <1>0, <2>2, <4>1, <4>2, <4>3, <4>4
      <3>3. CASE CommitCache(w)
        <4>1. /\ pc[w] = "appended" /\ pc'[w] = "finish" /\ cache'[Host[w]] = entry[w].ag
              /\ retries' = retries
          BY <1>0, <3>3 DEF CommitCache, Goto, TypeOK
        <4> QED BY <1>0, <2>2, <4>1 DEF Late, Behind
      <3>4. CASE Retry(w)
        <4>1. pc'[w] = "begin" /\ cache'[Host[w]] = NoAggregate BY <1>0, <3>4 DEF Retry, Goto, TypeOK
        <4> QED BY <2>2, <2>4, <3>4, <4>1 DEF Late, Behind
      <3>5. CASE cache'[Host[w]] = NoAggregate /\ pc'[w] = "idle" /\ retries'[w] = 0
        BY <1>0, <2>2, <2>4, <3>5 DEF Late, Behind
      <3> QED BY <1>2, <2>5, <3>1, <3>2, <3>3, <3>4, <3>5
    <2>7. ASSUME NEW v \in Threads PROVE RetryBound(v)'
      <3>1. CASE v # w BY <1>2, <2>1, <2>6, <3>1, OthersBound
      <3>2. CASE v = w /\ ~Retry(w) BY <1>2, <2>1, <2>6, <3>2, OwnBound
      <3>3. CASE v = w /\ Retry(w) BY <3>3, RetryPays
      <3> QED BY <3>1, <3>2, <3>3
    <2> QED BY <1>3, <2>7
  <1> QED BY <1>4, <1>5

LEMMA EnvironmentRetry ==
    ASSUME RetryInv, TypeOK',
           \/ \E s \in Servers : (\E m \in outbox[s] : Publish(s, m)) \/ Evict(s) \/ Crash(s)
           \/ \E c \in Commands : Redeliver(c)
    PROVE  EventsStored' /\ \A v \in Threads : RetryBound(v)'
  <1> USE DEF RetryInv, BuildInv, Inv, LedgerInv
  <1>1. UNCHANGED <<stream, results>> BY EnvironmentInv
  <1>2. \A s \in Servers : cache'[s] \in {cache[s], NoAggregate}
    BY DEF Publish, Evict, Crash, Redeliver, TypeOK
  <1>3. \A v \in Workers :
           \/ pc'[v] = "idle" /\ retries'[v] = 0
           \/ pc'[v] = pc[v] /\ entry'[v] = entry[v] /\ retries'[v] = retries[v]
    BY DEF Publish, Evict, Crash, Redeliver, worker, TypeOK
  <1>4. \A x : Old(x)' <=> Old(x) BY <1>1, OldStays
  <1>5. ~Old(NoAggregate.version) BY DEF Old, NoAggregate
  <1>6. Top(stream)' = Top(stream) BY <1>1, QuietStream
  <1>7. ASSUME NEW v \in Workers PROVE Late(v)' => Late(v)
    <2>1. CASE pc'[v] = "idle" BY <2>1 DEF Late
    <2>2. CASE pc'[v] = pc[v] /\ entry'[v] = entry[v] BY <1>4, <2>2 DEF Late
    <2> QED BY <1>3, <2>1, <2>2
  <1>8. ASSUME NEW v \in Threads PROVE RetryBound(v)'
    <2>1. v \in Workers /\ Host[v] \in Servers /\ retries[v] \in Nat /\ RetryBound(v)
      BY HostType DEF Workers, TypeOK
    <2>2. Old(cache'[Host[v]].version) => Old(cache[Host[v]].version) BY <1>2, <1>5, <2>1
    <2>3. Behind(v)' => Behind(v)
      <3>1. CASE pc'[v] = "idle" BY <1>4, <2>2, <3>1 DEF Behind
      <3>2. CASE pc'[v] = pc[v] /\ entry'[v] = entry[v]
        BY <1>4, <1>6, <2>2, <3>2 DEF Behind, Changed
      <3> QED BY <1>3, <2>1, <3>1, <3>2
    <2>4. Overdue(v)' \subseteq Overdue(v)
      <3>1. Sharing(v) \subseteq Workers /\ Sharing(v)' = Sharing(v) BY DEF Sharing
      <3> QED BY <1>7, <2>3, <3>1 DEF Overdue
    <2>5. /\ retries'[v] <= retries[v]
          /\ pc'[v] = "conflict" => Top(stream) > 1 /\ (Enough(v) => retries'[v] < RetryCount)
      BY <1>3, <2>1 DEF RetryBound
    <2> QED BY <1>1, <2>1, <2>4, <2>5, OverdueShrinks
  <1>9. EventsStored' BY <1>1 DEF EventsStored
  <1> QED BY <1>8, <1>9

\* No thread runs out of retries when there are as many as the other commands that change
\* the aggregate, for each worker that shares its cache: each of their events can make
\* one of these workers cache, or the thread itself work on, an old copy once
\* (ConcurrencyProcessor.ProcessAsync, UnitOfWork.CommitAsync).
THEOREM ServersNeverGiveUp == Spec => []NeverGivesUp
  <1>1. Init => RetryInv
    <2> SUFFICES ASSUME Init PROVE RetryInv
      OBVIOUS
    <2>1. EventsStored BY DEF Init, EventsStored
    <2>2. Top(stream) = 0 BY DEF Init, Top
    <2>3. \A w \in Threads : RetryBound(w) BY <2>2 DEF Init, RetryBound, Workers
    <2> QED BY <2>1, <2>3, BuildInit DEF RetryInv
  <1>2. RetryInv /\ [Next]_vars => RetryInv'
    <2> SUFFICES ASSUME RetryInv, [Next]_vars PROVE RetryInv'
      OBVIOUS
    <2>1. BuildInv' BY BuildStep DEF RetryInv
    <2>2. CASE UNCHANGED vars
      <3>1. EventsStored' /\ \A v \in Threads : RetryBound(v)'
        BY <2>2 DEF RetryInv, EventsStored, RetryBound, Overdue, Late, Behind, Old, Sharing, Enough,
                    Changed, vars, redis, worker
      <3> QED BY <2>1, <3>1 DEF RetryInv
    <2>3. CASE Next
      <3>1. TypeOK' BY <2>1 DEF BuildInv, Inv
      <3>2. EventsStored' /\ \A v \in Threads : RetryBound(v)'
        BY <2>3, <3>1, LoadRetry, CommitRetry, EnvironmentRetry DEF Next, Work
      <3> QED BY <2>1, <3>2 DEF RetryInv
    <2> QED BY <2>2, <2>3
  <1>3. RetryInv => NeverGivesUp BY DEF RetryInv, RetryBound, NeverGivesUp
  <1> QED BY <1>1, <1>2, <1>3, PTL DEF Spec
=============================================================================
