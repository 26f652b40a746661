--------------------------- MODULE MailboxProofs ---------------------------
(***************************************************************************)
(* Proofs about Mailbox, for any number of messages and keys, any batch    *)
(* size, and any choice of tasks that do not yield.                        *)
(***************************************************************************)
EXTENDS Mailbox, TLAPS

-----------------------------------------------------------------------------
(* Queues *)

LEMMA AppendFacts ==
    ASSUME NEW S, NEW s \in Seq(S), NEW e \in S
    PROVE  /\ Append(s, e) \in Seq(S) /\ Append(s, e) # <<>>
           /\ DOMAIN s = 1..Len(s) /\ Len(s) \in Nat
           /\ DOMAIN Append(s, e) = 1..(Len(s) + 1)
           /\ \A i \in 1..Len(s) : Append(s, e)[i] = s[i]
           /\ Append(s, e)[Len(s) + 1] = e
OBVIOUS

LEMMA TailFacts ==
    ASSUME NEW S, NEW s \in Seq(S), s # <<>>
    PROVE  /\ Tail(s) \in Seq(S) /\ Head(s) \in S /\ Head(s) = s[1]
           /\ DOMAIN s = 1..Len(s) /\ Len(s) \in Nat \ {0}
           /\ DOMAIN Tail(s) = 1..(Len(s) - 1)
           /\ \A i \in 1..(Len(s) - 1) : Tail(s)[i] = s[i + 1]
OBVIOUS

-----------------------------------------------------------------------------
(* Types *)

LEMMA KeyFacts ==
    /\ \A m \in Messages : Key[m] \in Keys \cup {Blank}
    /\ \A b \in Mailboxes : b \in Messages /\ b \in Threads /\ Key[b] \in Keys /\ b # None
    /\ Processor \in Threads /\ Processor \notin Messages
BY NamesAssumption DEF Mailboxes, Keys, Threads

LEMMA CommandFacts ==
    /\ \A m \in Mailboxes : ProcessMessageCommand(m) \in Commands
    /\ \A b \in Mailboxes : CompleteMessageCommand(b) \in Commands
    /\ \A c \in Commands : c.type = "process" => c.message \in Mailboxes /\ c.mailbox = None
    /\ \A c \in Commands : c.type = "complete" => c.mailbox \in Mailboxes /\ c.message = None
    /\ \A c \in Commands : c.type \in {"process", "complete"}
BY DEF Commands, ProcessMessageCommand, CompleteMessageCommand

\* The command the processor takes.
LEMMA TakeFacts ==
    ASSUME TypeOK, NEW type, Take(type)
    PROVE  /\ commands' \in Seq(Commands) /\ Head(commands) \in Commands /\ pc[Processor] = "idle"
           /\ Head(commands).type = type
BY TailFacts DEF TypeOK, Take

\* The mailbox GetOrAdd finds or makes.
LEMMA MailboxForType == ASSUME TypeOK, NEW m \in Mailboxes PROVE MailboxFor(m) \in Mailboxes
BY KeyFacts DEF TypeOK, MailboxFor

LEMMA TypeInit == Init => TypeOK
<1> SUFFICES ASSUME Init PROVE TypeOK
    OBVIOUS
<1>1. commands \in Seq(Commands) /\ queue \in [Mailboxes -> Seq(Mailboxes)]
    BY DEF Init
<1>2. processedCount \in [Threads -> 0..BatchCount]
    BY BatchAssumption DEF Init
<1> QED
    BY <1>1, <1>2 DEF Init, TypeOK, Labels, InRun

\* The message a thread takes out of its mailbox.
LEMMA DequeueFacts ==
    ASSUME TypeOK, NEW t \in Threads, pc[t] = "loop", queue[box[t]] # <<>>
    PROVE  /\ box[t] \in Mailboxes /\ Head(queue[box[t]]) \in Mailboxes
           /\ Tail(queue[box[t]]) \in Seq(Mailboxes)
<1>1. box[t] \in Mailboxes
    BY DEF TypeOK, InRun
<1>2. queue[box[t]] \in Seq(Mailboxes)
    BY <1>1 DEF TypeOK
<1> QED
    BY <1>1, <1>2, TailFacts

LEMMA TypeStep == TypeOK /\ [Next]_vars => TypeOK'
<1> SUFFICES ASSUME TypeOK, [Next]_vars PROVE TypeOK'
    OBVIOUS
<1>1. ASSUME NEW m \in Messages, Process(m) PROVE TypeOK'
    <2>1. CASE Key[m] = Blank
        <3>1. pc' = [pc EXCEPT ![m] = "read"] /\ commands' = commands
            BY <1>1, <2>1 DEF Process, Goto
        <3> QED
            BY <1>1, <3>1 DEF Process, TypeOK, Labels, InRun
    <2>2. CASE Key[m] # Blank
        <3>1. m \in Mailboxes
            BY <2>2 DEF Mailboxes
        <3>2. commands' = Append(commands, ProcessMessageCommand(m)) /\ pc' = pc
            BY <1>1, <2>2 DEF Process
        <3>3. commands' \in Seq(Commands)
            BY <3>1, <3>2, CommandFacts, AppendFacts DEF TypeOK
        <3> QED
            BY <1>1, <3>2, <3>3 DEF Process, TypeOK
    <2> QED
        BY <2>1, <2>2
<1>2. CASE Stop
    BY <1>2 DEF Stop, TypeOK
<1>3. CASE ExecuteProcessCommand
    <2> DEFINE m == Head(commands).message
               b == MailboxFor(m)
    <2>1. m \in Mailboxes /\ b \in Mailboxes /\ commands' \in Seq(Commands)
        BY <1>3, TakeFacts, CommandFacts, MailboxForType DEF ExecuteProcessCommand
    <2>2. Append(queue[b], m) \in Seq(Mailboxes)
        BY <2>1, AppendFacts DEF TypeOK
    <2>3. /\ mailboxDictionary' = [mailboxDictionary EXCEPT ![Key[m]] = b]
          /\ queue' = [queue EXCEPT ![b] = Append(queue[b], m)]
          /\ box' = [box EXCEPT ![Processor] = b]
          /\ pc' = [pc EXCEPT ![Processor] = "schedule"]
          /\ UNCHANGED <<stopped, isHandling, processedCount, value, local, result>>
        BY <1>3 DEF ExecuteProcessCommand, Goto
    <2> HIDE DEF m, b
    <2> QED
        BY <2>1, <2>2, <2>3, KeyFacts DEF TypeOK, Labels, InRun
<1>4. CASE CompleteProcessMessage
    <2>1. commands' \in Seq(Commands)
        BY <1>4, TakeFacts DEF CompleteProcessMessage
    <2> QED
        BY <1>4, <2>1 DEF CompleteProcessMessage, TypeOK
<1>5. ASSUME NEW t \in Threads, ScheduleMailbox(t) PROVE TypeOK'
    <2>1. 0 \in 0..BatchCount
        BY BatchAssumption
    <2> QED
        BY <1>5, <2>1 DEF ScheduleMailbox, Return, Goto, TypeOK, Labels, InRun
<1>6. ASSUME NEW t \in Threads, Dequeue(t) PROVE TypeOK'
    <2> DEFINE m == Head(queue[box[t]])
    <2>1. pc[t] = "loop" /\ box[t] \in Mailboxes /\ m \in Mailboxes /\ Tail(queue[box[t]]) \in Seq(Mailboxes)
        BY <1>6, DequeueFacts DEF Dequeue
    <2>2. processedCount[t] + 1 \in 0..BatchCount
        BY <1>6, BatchAssumption DEF Dequeue, TypeOK
    <2>3. /\ queue' = [queue EXCEPT ![box[t]] = Tail(queue[box[t]])]
          /\ processedCount' = [processedCount EXCEPT ![m] = processedCount[t] + 1]
          /\ pc' = [pc EXCEPT ![m] = "read", ![t] = IF t = Processor THEN "idle" ELSE "done"]
          /\ box' = [box EXCEPT ![m] = box[t], ![t] = None]
          /\ UNCHANGED <<commands, stopped, mailboxDictionary, isHandling, value, local, result>>
        BY <1>6 DEF Dequeue
    <2>4. m \in Threads
        BY <2>1, KeyFacts
    <2> HIDE DEF m
    <2>5. pc' \in [Threads -> Labels] /\ box' \in [Threads -> Mailboxes \cup {None}]
        BY <2>1, <2>3, <2>4 DEF TypeOK, Labels
    <2>6. \A u \in Threads : pc'[u] \in InRun => box'[u] \in Mailboxes
        BY <2>3, <2>4 DEF TypeOK, InRun
    <2> QED
        BY <2>1, <2>2, <2>3, <2>4, <2>5, <2>6 DEF TypeOK
<1>7. ASSUME NEW t \in Threads, NEW outcome \in Outcomes, RunSynchronously(t, outcome) PROVE TypeOK'
    <2> DEFINE m == Head(queue[box[t]])
    <2>1. pc[t] = "loop" /\ box[t] \in Mailboxes /\ m \in Mailboxes /\ Tail(queue[box[t]]) \in Seq(Mailboxes)
        BY <1>7, DequeueFacts DEF RunSynchronously
    <2>2. processedCount[t] + 1 \in 0..BatchCount
        BY <1>7, BatchAssumption DEF RunSynchronously, TypeOK
    <2>3. /\ queue' = [queue EXCEPT ![box[t]] = Tail(queue[box[t]])]
          /\ processedCount' = [processedCount EXCEPT ![t] = processedCount[t] + 1]
          /\ pc' = [pc EXCEPT ![m] = "done"]
          /\ value' \in {value, [value EXCEPT ![Key[m]] = value[Key[m]] + 1]}
          /\ result' = [result EXCEPT ![m] = outcome]
          /\ UNCHANGED <<commands, stopped, mailboxDictionary, isHandling, box, local>>
        BY <1>7 DEF RunSynchronously, Goto
    <2>4. m \in Threads /\ m \in Messages /\ Key[m] \in Keys \cup {Blank}
        BY <2>1, KeyFacts
    <2> HIDE DEF m
    <2>5. value' \in [Keys \cup {Blank} -> Nat]
        BY <2>3, <2>4 DEF TypeOK
    <2> QED
        BY <2>1, <2>2, <2>3, <2>4, <2>5 DEF TypeOK, Labels, InRun, Outcomes
<1>8. ASSUME NEW m \in Messages, TaskRead(m) PROVE TypeOK'
    <2>1. value[Key[m]] \in Nat /\ m \in Threads
        BY KeyFacts DEF TypeOK, Threads
    <2> QED
        BY <1>8, <2>1 DEF TaskRead, Goto, TypeOK, Labels, InRun
<1>9. ASSUME NEW m \in Messages, NEW outcome \in Outcomes, TaskEnd(m, outcome) PROVE TypeOK'
    <2>1. m \in Threads /\ Key[m] \in Keys \cup {Blank} /\ local[m] + 1 \in Nat
        BY KeyFacts DEF TypeOK, Threads
    <2>2. value' \in [Keys \cup {Blank} -> Nat]
        BY <1>9, <2>1 DEF TaskEnd, TypeOK
    <2>3. result' \in [Messages -> {"none", "posted", "value", "exception"}]
        BY <1>9 DEF TaskEnd, TypeOK, Outcomes
    <2> QED
        BY <1>9, <2>1, <2>2, <2>3 DEF TaskEnd, Goto, TypeOK, Labels, InRun
<1>10. ASSUME NEW t \in Threads, Leave(t) \/ ExitHandlingMessage(t) \/ CheckQueue(t) PROVE TypeOK'
    BY <1>10 DEF Leave, ExitHandlingMessage, CheckQueue, Goto, TypeOK, Labels, InRun
<1>11. ASSUME NEW t \in Threads, OnMessageEmpty(t) PROVE TypeOK'
    <2>1. box[t] \in Mailboxes
        BY <1>11 DEF OnMessageEmpty, TypeOK, InRun
    <2>2. commands' \in Seq(Commands)
        BY <1>11, <2>1, CommandFacts, AppendFacts DEF OnMessageEmpty, TypeOK
    <2> QED
        BY <1>11, <2>2 DEF OnMessageEmpty, Return, TypeOK, Labels, InRun
<1>12. CASE UNCHANGED vars
    BY <1>12 DEF vars, TypeOK
<1> QED
    BY <1>1, <1>2, <1>3, <1>4, <1>5, <1>6, <1>7, <1>8, <1>9, <1>10, <1>11, <1>12
       DEF Next, ProcessorStep, RunStep, TaskStep

\* Every variable keeps its type, and a thread in Run has a mailbox.
THEOREM TypeCorrect == Spec => []TypeOK
BY TypeInit, TypeStep, PTL DEF Spec

-----------------------------------------------------------------------------
(* What makes the properties inductive *)

\* A message waits as the i-th command, or as the i-th of a mailbox.
InCommand(m, i) == i \in DOMAIN commands /\ commands[i].message = m
InQueue(m, b, i) == i \in DOMAIN queue[b] /\ queue[b][i] = m
Waiting(m) == \E i \in Nat : InCommand(m, i) \/ \E b \in Mailboxes : InQueue(m, b, i)

\* A message waits at one place ...
OnePlace ==
    \A m \in Messages, i, j \in Nat :
        /\ InCommand(m, i) /\ InCommand(m, j) => i = j
        /\ \A b, c \in Mailboxes : InQueue(m, b, i) /\ InQueue(m, c, j) => b = c /\ i = j
        /\ \A b \in Mailboxes : ~(InCommand(m, i) /\ InQueue(m, b, j))

\* ... from the time it is posted until it is started.
Placed ==
    \A m \in Messages :
        /\ Waiting(m) => pc[m] = "idle" /\ result[m] # "none"
        /\ pc[m] = "idle" /\ result[m] # "none" => Waiting(m)
        /\ result[m] = "none" => pc[m] = "idle"

\* A thread that is not at work has no mailbox.
Resting == \A t \in Threads : pc[t] \in {"idle", "done"} => box[t] = None

PlaceInv == OnePlace /\ Placed /\ Resting

\* Somebody works for a key, or has reported its mailbox empty.
Worked(k) ==
    \/ \E t \in Threads : box[t] \in Mailboxes /\ Key[box[t]] = k
    \/ \E i \in DOMAIN commands : commands[i].type = "complete" /\ Key[commands[i].mailbox] = k

\* A mailbox in the dictionary is under its own key and will be dropped.
DictionaryInv ==
    \A k \in Keys :
        mailboxDictionary[k] # None => Key[mailboxDictionary[k]] = k /\ Worked(k)

\* OneRunner and NoLostWakeup, thread by thread.
Runs(t, b) == box[t] = b /\ pc[t] \in {"loop", "read", "write", "exit"}
Wakes(t, b) == box[t] = b /\ pc[t] \in {"schedule", "check", "register"}
FlagInv ==
    \A b \in Mailboxes :
        /\ \A t, u \in Threads : Runs(t, b) /\ Runs(u, b) => t = u
        /\ isHandling[b] <=> \E t \in Threads : Runs(t, b)
WakeInv ==
    \A b \in Mailboxes : queue[b] # <<>> => isHandling[b] \/ \E t \in Threads : Wakes(t, b)

MailboxInv == PlaceInv /\ FlagInv /\ WakeInv /\ DictionaryInv

-----------------------------------------------------------------------------
(* Where messages wait *)

\* A command is added at the end.
LEMMA CommandAdded ==
    ASSUME TypeOK, NEW c \in Commands, commands' = Append(commands, c)
    PROVE  \E n \in Nat : /\ \A m : ~InCommand(m, n)
                          /\ \A m : \A i \in Nat : InCommand(m, i)' <=> InCommand(m, i) \/ (i = n /\ c.message = m)
<1>1. commands \in Seq(Commands)
    BY DEF TypeOK
<1>2. /\ DOMAIN commands = 1..Len(commands) /\ Len(commands) \in Nat
      /\ DOMAIN commands' = 1..(Len(commands) + 1)
      /\ \A i \in 1..Len(commands) : commands'[i] = commands[i]
      /\ commands'[Len(commands) + 1] = c
    BY <1>1, AppendFacts
<1>3. \A m : ~InCommand(m, Len(commands) + 1)
    BY <1>2 DEF InCommand
<1>4. ASSUME NEW m, NEW i \in Nat
      PROVE  InCommand(m, i)' <=> InCommand(m, i) \/ (i = Len(commands) + 1 /\ c.message = m)
    BY <1>2 DEF InCommand
<1>5. Len(commands) + 1 \in Nat
    BY <1>2
<1> QED
    BY <1>3, <1>4, <1>5

\* The first command is taken.
LEMMA CommandTaken ==
    ASSUME TypeOK, NEW type, Take(type)
    PROVE  /\ InCommand(Head(commands).message, 1)
           /\ \A m : \A i \in Nat : InCommand(m, i)' <=> i # 0 /\ InCommand(m, i + 1)
           /\ \A m : \A i \in Nat : InCommand(m, i) => i # 0
<1>1. commands \in Seq(Commands) /\ commands # <<>> /\ commands' = Tail(commands)
    BY DEF TypeOK, Take
<1>2. /\ Head(commands) = commands[1]
      /\ DOMAIN commands = 1..Len(commands) /\ Len(commands) \in Nat \ {0}
      /\ DOMAIN commands' = 1..(Len(commands) - 1)
      /\ \A i \in 1..(Len(commands) - 1) : commands'[i] = commands[i + 1]
    BY <1>1, TailFacts
<1> QED
    BY <1>2 DEF InCommand

\* A message is added to a mailbox.
LEMMA MessageQueued ==
    ASSUME TypeOK, NEW b \in Mailboxes, NEW n \in Mailboxes,
           queue' = [queue EXCEPT ![b] = Append(queue[b], n)]
    PROVE  \E l \in Nat : /\ \A m : ~InQueue(m, b, l)
                          /\ \A m : \A c \in Mailboxes : \A i \in Nat :
                                InQueue(m, c, i)' <=> InQueue(m, c, i) \/ (c = b /\ i = l /\ m = n)
<1>1. queue[b] \in Seq(Mailboxes) /\ queue'[b] = Append(queue[b], n)
    BY DEF TypeOK
<1>2. /\ DOMAIN queue[b] = 1..Len(queue[b]) /\ Len(queue[b]) \in Nat
      /\ DOMAIN queue'[b] = 1..(Len(queue[b]) + 1)
      /\ \A i \in 1..Len(queue[b]) : queue'[b][i] = queue[b][i]
      /\ queue'[b][Len(queue[b]) + 1] = n
    BY <1>1, AppendFacts
<1>3. \A m : ~InQueue(m, b, Len(queue[b]) + 1)
    BY <1>2 DEF InQueue
<1>4. ASSUME NEW m, NEW c \in Mailboxes, NEW i \in Nat
      PROVE  InQueue(m, c, i)' <=> InQueue(m, c, i) \/ (c = b /\ i = Len(queue[b]) + 1 /\ m = n)
    <2>1. CASE c = b
        BY <1>2, <2>1 DEF InQueue
    <2>2. CASE c # b
        BY <2>2 DEF InQueue, TypeOK
    <2> QED
        BY <2>1, <2>2
<1>5. Len(queue[b]) + 1 \in Nat
    BY <1>2
<1> QED
    BY <1>3, <1>4, <1>5

\* The first message of a mailbox is taken out.
LEMMA MessageDequeued ==
    ASSUME TypeOK, NEW b \in Mailboxes, queue[b] # <<>>,
           queue' = [queue EXCEPT ![b] = Tail(queue[b])]
    PROVE  /\ InQueue(Head(queue[b]), b, 1)
           /\ \A m : \A i \in Nat : InQueue(m, b, i)' <=> i # 0 /\ InQueue(m, b, i + 1)
           /\ \A m : \A i \in Nat : InQueue(m, b, i) => i # 0
           /\ \A m : \A c \in Mailboxes : \A i \in Nat : c # b => (InQueue(m, c, i)' <=> InQueue(m, c, i))
<1>1. queue[b] \in Seq(Mailboxes) /\ queue'[b] = Tail(queue[b])
    BY DEF TypeOK
<1>2. /\ Head(queue[b]) = queue[b][1]
      /\ DOMAIN queue[b] = 1..Len(queue[b]) /\ Len(queue[b]) \in Nat \ {0}
      /\ DOMAIN queue'[b] = 1..(Len(queue[b]) - 1)
      /\ \A i \in 1..(Len(queue[b]) - 1) : queue'[b][i] = queue[b][i + 1]
    BY <1>1, TailFacts
<1>3. /\ InQueue(Head(queue[b]), b, 1)
      /\ \A m : \A i \in Nat : InQueue(m, b, i)' <=> i # 0 /\ InQueue(m, b, i + 1)
      /\ \A m : \A i \in Nat : InQueue(m, b, i) => i # 0
    BY <1>2 DEF InQueue
<1>4. \A m : \A c \in Mailboxes : \A i \in Nat : c # b => (InQueue(m, c, i)' <=> InQueue(m, c, i))
    BY DEF InQueue, TypeOK
<1> QED
    BY <1>3, <1>4

\* The message at the head of a mailbox has not started, and is not the thread that takes it.
LEMMA HeadIdle ==
    ASSUME TypeOK, PlaceInv, NEW t \in Threads, pc[t] = "loop", queue[box[t]] # <<>>
    PROVE  /\ pc[Head(queue[box[t]])] = "idle" /\ box[Head(queue[box[t]])] = None
           /\ Head(queue[box[t]]) # t /\ Head(queue[box[t]]) \in Messages
<1> DEFINE b == box[t]
           m == Head(queue[b])
<1>1. b \in Mailboxes /\ m \in Mailboxes
    BY DequeueFacts
<1>2. InQueue(m, b, 1)
    <2>1. queue[b] \in Seq(Mailboxes)
        BY <1>1 DEF TypeOK
    <2> QED
        BY <2>1, TailFacts DEF InQueue
<1>3. m \in Messages /\ m \in Threads /\ Waiting(m)
    BY <1>1, <1>2, KeyFacts DEF Waiting
<1> QED
    BY <1>3 DEF PlaceInv, Placed, Resting

LEMMA PlaceInit == Init => PlaceInv
<1> SUFFICES ASSUME Init PROVE PlaceInv
    OBVIOUS
<1>1. \A m, i : ~InCommand(m, i) /\ \A b \in Mailboxes : ~InQueue(m, b, i)
    BY DEF Init, InCommand, InQueue
<1>2. Placed /\ Resting
    BY <1>1 DEF Init, Placed, Resting, Waiting, Threads
<1>3. OnePlace
    BY <1>1 DEF OnePlace
<1> QED
    BY <1>2, <1>3 DEF PlaceInv

\* A step that moves no message.
LEMMA QuietPlaces ==
    ASSUME PlaceInv, UNCHANGED <<commands, queue>>, Resting',
           \A m \in Messages : (pc'[m] = "idle") = (pc[m] = "idle") /\ (result'[m] = "none") = (result[m] = "none")
    PROVE  PlaceInv'
<1>1. OnePlace'
    BY DEF PlaceInv, OnePlace, InCommand, InQueue
<1>2. \A m : Waiting(m)' = Waiting(m)
    BY DEF Waiting, InCommand, InQueue
<1>3. Placed'
    BY <1>2 DEF PlaceInv, Placed
<1> QED
    BY <1>1, <1>3 DEF PlaceInv

\* A message leaves its mailbox and is started.
LEMMA StartedPlaces ==
    ASSUME TypeOK, PlaceInv, NEW b \in Mailboxes, queue[b] # <<>>, NEW n \in Mailboxes, n = Head(queue[b]),
           queue' = [queue EXCEPT ![b] = Tail(queue[b])], commands' = commands, Resting',
           pc'[n] # "idle", result'[n] # "none",
           \A m \in Messages : m # n => (pc'[m] = "idle") = (pc[m] = "idle") /\ result'[m] = result[m]
    PROVE  PlaceInv'
<1>1. n \in Messages
    BY KeyFacts
<1>2. /\ InQueue(n, b, 1)
      /\ \A m : \A i \in Nat : InQueue(m, b, i)' <=> i # 0 /\ InQueue(m, b, i + 1)
      /\ \A m : \A i \in Nat : InQueue(m, b, i) => i # 0
      /\ \A m : \A c \in Mailboxes : \A i \in Nat : c # b => (InQueue(m, c, i)' <=> InQueue(m, c, i))
    BY MessageDequeued
<1>3. \A m, i : InCommand(m, i)' = InCommand(m, i)
    BY DEF InCommand
<1>4. ASSUME NEW m \in Messages, NEW i \in Nat, NEW j \in Nat
      PROVE  /\ InCommand(m, i)' /\ InCommand(m, j)' => i = j
             /\ \A c, d \in Mailboxes : InQueue(m, c, i)' /\ InQueue(m, d, j)' => c = d /\ i = j
             /\ \A c \in Mailboxes : ~(InCommand(m, i)' /\ InQueue(m, c, j)')
    <2>1. \A c \in Mailboxes : /\ InQueue(m, c, i)' => InQueue(m, c, IF c = b THEN i + 1 ELSE i)
                               /\ InQueue(m, c, j)' => InQueue(m, c, IF c = b THEN j + 1 ELSE j)
        BY <1>1, <1>2
    <2>2. i + 1 \in Nat /\ j + 1 \in Nat /\ (i + 1 = j + 1 => i = j)
        OBVIOUS
    <2>3. \A c, d \in Mailboxes : InQueue(m, c, i)' /\ InQueue(m, d, j)' => c = d /\ i = j
        BY <2>1, <2>2 DEF PlaceInv, OnePlace
    <2> QED
        BY <1>3, <2>1, <2>2, <2>3 DEF PlaceInv, OnePlace
<1>5. OnePlace'
    BY <1>4 DEF OnePlace
<1>6. ~Waiting(n)'
    <2> SUFFICES ASSUME Waiting(n)' PROVE FALSE
        OBVIOUS
    <2>1. PICK i \in Nat : InCommand(n, i)' \/ \E c \in Mailboxes : InQueue(n, c, i)'
        BY DEF Waiting
    <2>2. ~InCommand(n, i)'
        BY <1>1, <1>2, <1>3 DEF PlaceInv, OnePlace
    <2>3. PICK c \in Mailboxes : InQueue(n, c, i)'
        BY <2>1, <2>2
    <2>4. CASE c = b
        <3>1. InQueue(n, b, i + 1) /\ i + 1 \in Nat /\ i + 1 # 1 /\ i # 0
            BY <1>1, <1>2, <2>3, <2>4
        <3> QED
            BY <1>1, <1>2, <3>1 DEF PlaceInv, OnePlace
    <2>5. CASE c # b
        BY <1>1, <1>2, <2>3, <2>5 DEF PlaceInv, OnePlace
    <2> QED
        BY <2>4, <2>5
<1>7. ASSUME NEW m \in Messages, m # n PROVE Waiting(m)' <=> Waiting(m)
    <2>1. ASSUME Waiting(m)' PROVE Waiting(m)
        <3>1. PICK i \in Nat : InCommand(m, i)' \/ \E c \in Mailboxes : InQueue(m, c, i)'
            BY <2>1 DEF Waiting
        <3>2. i + 1 \in Nat
            OBVIOUS
        <3> QED
            BY <1>1, <1>2, <1>3, <3>1, <3>2 DEF Waiting
    <2>2. ASSUME Waiting(m) PROVE Waiting(m)'
        <3>1. PICK i \in Nat : InCommand(m, i) \/ \E c \in Mailboxes : InQueue(m, c, i)
            BY <2>2 DEF Waiting
        <3>2. CASE InCommand(m, i)
            BY <1>3, <3>2 DEF Waiting
        <3>3. CASE InQueue(m, b, i)
            <4>1. i # 0 /\ i # 1
                BY <1>2, <1>7, <3>3 DEF InQueue
            <4>2. i - 1 \in Nat /\ i - 1 # 0 /\ (i - 1) + 1 = i
                BY <4>1
            <4>3. InQueue(m, b, i - 1)'
                BY <1>2, <3>3, <4>2
            <4> QED
                BY <1>1, <4>2, <4>3 DEF Waiting
        <3>4. ASSUME NEW c \in Mailboxes, c # b, InQueue(m, c, i) PROVE Waiting(m)'
            BY <1>2, <3>4 DEF Waiting
        <3> QED
            BY <3>1, <3>2, <3>3, <3>4
    <2> QED
        BY <2>1, <2>2
<1>8. Placed'
    BY <1>6, <1>7 DEF PlaceInv, Placed
<1> QED
    BY <1>5, <1>8 DEF PlaceInv

\* A message is posted.
LEMMA PostedPlaces ==
    ASSUME TypeOK, PlaceInv, NEW n \in Messages, Process(n)
    PROVE  PlaceInv'
<1>1. ~Waiting(n) /\ pc[n] = "idle" /\ n \in Threads /\ result[n] = "none"
    BY DEF PlaceInv, Placed, Process, Threads
<1>2. /\ result'[n] = "posted" /\ \A m \in Messages : m # n => result'[m] = result[m]
      /\ queue' = queue /\ box' = box
    BY DEF Process, TypeOK
<1>3. CASE Key[n] = Blank
    <2>1. commands' = commands /\ pc' = [pc EXCEPT ![n] = "read"]
        BY <1>3 DEF Process, Goto
    <2>2. \A m : Waiting(m)' = Waiting(m)
        BY <1>2, <2>1 DEF Waiting, InCommand, InQueue
    <2>3. OnePlace'
        BY <1>2, <2>1 DEF PlaceInv, OnePlace, InCommand, InQueue
    <2>4. Placed'
        BY <1>1, <1>2, <2>1, <2>2 DEF PlaceInv, Placed, TypeOK, Threads
    <2>5. Resting'
        BY <1>1, <1>2, <2>1 DEF PlaceInv, Resting, TypeOK
    <2> QED
        BY <2>3, <2>4, <2>5 DEF PlaceInv
<1>4. CASE Key[n] # Blank
    <2>1. n \in Mailboxes
        BY <1>4 DEF Mailboxes
    <2>2. commands' = Append(commands, ProcessMessageCommand(n)) /\ pc' = pc
        BY <1>4 DEF Process
    <2>3. ProcessMessageCommand(n) \in Commands /\ ProcessMessageCommand(n).message = n
        BY <2>1, CommandFacts DEF ProcessMessageCommand
    <2>4. PICK l \in Nat : /\ \A m : ~InCommand(m, l)
                           /\ \A m : \A i \in Nat : InCommand(m, i)' <=> InCommand(m, i) \/ (i = l /\ n = m)
        BY <2>2, <2>3, CommandAdded
    <2>5. \A m, b, i : InQueue(m, b, i)' = InQueue(m, b, i)
        BY <1>2 DEF InQueue
    <2>6. \A i \in Nat : ~InCommand(n, i) /\ \A b \in Mailboxes : ~InQueue(n, b, i)
        BY <1>1 DEF Waiting
    <2>7. OnePlace'
        BY <2>4, <2>5, <2>6 DEF PlaceInv, OnePlace
    <2>8. Waiting(n)' /\ \A m \in Messages : m # n => Waiting(m)' = Waiting(m)
        BY <2>4, <2>5 DEF Waiting
    <2>9. Placed' /\ Resting'
        BY <1>1, <1>2, <2>2, <2>8 DEF PlaceInv, Placed, Resting
    <2> QED
        BY <2>7, <2>9 DEF PlaceInv
<1> QED
    BY <1>3, <1>4

\* A message goes from the commands to its mailbox.
LEMMA ExecutedPlaces ==
    ASSUME TypeOK, PlaceInv, ExecuteProcessCommand
    PROVE  PlaceInv'
<1>1. PICK n \in Mailboxes : n = Head(commands).message
    BY TakeFacts, CommandFacts DEF ExecuteProcessCommand
<1>2. PICK b \in Mailboxes : b = MailboxFor(n)
    BY MailboxForType
<1>3. /\ queue' = [queue EXCEPT ![b] = Append(queue[b], n)]
      /\ box' = [box EXCEPT ![Processor] = b]
      /\ pc' = [pc EXCEPT ![Processor] = "schedule"]
      /\ result' = result
    BY <1>1, <1>2 DEF ExecuteProcessCommand, Goto
<1>4. /\ InCommand(n, 1)
      /\ \A m : \A i \in Nat : InCommand(m, i)' <=> i # 0 /\ InCommand(m, i + 1)
      /\ \A m : \A i \in Nat : InCommand(m, i) => i # 0
    BY <1>1, CommandTaken DEF ExecuteProcessCommand
<1>5. PICK l \in Nat : /\ \A m : ~InQueue(m, b, l)
                       /\ \A m : \A c \in Mailboxes : \A i \in Nat :
                             InQueue(m, c, i)' <=> InQueue(m, c, i) \/ (c = b /\ i = l /\ m = n)
    BY <1>3, MessageQueued
<1>6. n \in Messages
    BY KeyFacts
<1>7. \A i \in Nat, c \in Mailboxes : ~InQueue(n, c, i)
    BY <1>4, <1>6 DEF PlaceInv, OnePlace
<1>8. \A i \in Nat : ~InCommand(n, i)'
    <2> SUFFICES ASSUME NEW i \in Nat, InCommand(n, i)' PROVE FALSE
        OBVIOUS
    <2>1. InCommand(n, i + 1) /\ i + 1 \in Nat /\ i + 1 # 1
        BY <1>4
    <2> QED
        BY <1>4, <1>6, <2>1 DEF PlaceInv, OnePlace
<1>9. OnePlace'
    <2> SUFFICES ASSUME NEW m \in Messages, NEW i \in Nat, NEW j \in Nat
                 PROVE  /\ InCommand(m, i)' /\ InCommand(m, j)' => i = j
                        /\ \A c, d \in Mailboxes : InQueue(m, c, i)' /\ InQueue(m, d, j)' => c = d /\ i = j
                        /\ \A c \in Mailboxes : ~(InCommand(m, i)' /\ InQueue(m, c, j)')
        BY DEF OnePlace
    <2>1. i + 1 \in Nat /\ j + 1 \in Nat /\ (i + 1 = j + 1 => i = j)
        OBVIOUS
    <2>2. InCommand(m, i)' /\ InCommand(m, j)' => i = j
        BY <1>4, <2>1 DEF PlaceInv, OnePlace
    <2>3. \A c, d \in Mailboxes : InQueue(m, c, i)' /\ InQueue(m, d, j)' => c = d /\ i = j
        BY <1>5, <1>7 DEF PlaceInv, OnePlace
    <2>4. \A c \in Mailboxes : ~(InCommand(m, i)' /\ InQueue(m, c, j)')
        BY <1>4, <1>5, <1>8, <2>1 DEF PlaceInv, OnePlace
    <2> QED
        BY <2>2, <2>3, <2>4
<1>10. Waiting(n) /\ Waiting(n)'
    BY <1>4, <1>5 DEF Waiting
<1>11. ASSUME NEW m \in Messages, m # n PROVE Waiting(m)' <=> Waiting(m)
    <2>1. ASSUME Waiting(m)' PROVE Waiting(m)
        <3>1. PICK i \in Nat : InCommand(m, i)' \/ \E c \in Mailboxes : InQueue(m, c, i)'
            BY <2>1 DEF Waiting
        <3>2. i + 1 \in Nat
            OBVIOUS
        <3> QED
            BY <1>4, <1>5, <1>11, <3>1, <3>2 DEF Waiting
    <2>2. ASSUME Waiting(m) PROVE Waiting(m)'
        <3>1. PICK i \in Nat : InCommand(m, i) \/ \E c \in Mailboxes : InQueue(m, c, i)
            BY <2>2 DEF Waiting
        <3>2. CASE InCommand(m, i)
            <4>1. i # 0 /\ i # 1
                BY <1>4, <1>11, <3>2 DEF InCommand
            <4>2. i - 1 \in Nat /\ i - 1 # 0 /\ (i - 1) + 1 = i
                BY <4>1
            <4>3. InCommand(m, i - 1)'
                BY <1>4, <3>2, <4>2
            <4> QED
                BY <4>2, <4>3 DEF Waiting
        <3>3. CASE \E c \in Mailboxes : InQueue(m, c, i)
            BY <1>5, <3>3 DEF Waiting
        <3> QED
            BY <3>1, <3>2, <3>3
    <2> QED
        BY <2>1, <2>2
<1>12. Placed'
    <2>1. \A m \in Messages : pc'[m] = pc[m]
        BY <1>3, KeyFacts DEF TypeOK, Threads
    <2> QED
        BY <1>3, <1>10, <1>11, <2>1 DEF PlaceInv, Placed
<1>13. Resting'
    BY <1>3, KeyFacts DEF PlaceInv, Resting, TypeOK
<1> QED
    BY <1>9, <1>12, <1>13 DEF PlaceInv

\* A report that a mailbox is empty is made or taken: it carries no message.
LEMMA ReportedPlaces ==
    ASSUME TypeOK, PlaceInv, CompleteProcessMessage \/ \E t \in Threads : OnMessageEmpty(t)
    PROVE  PlaceInv'
<1>1. \A m \in Messages : m # None
    BY NamesAssumption
<1>2. queue' = queue /\ result' = result /\ \A m, b, i : InQueue(m, b, i)' = InQueue(m, b, i)
    BY DEF CompleteProcessMessage, OnMessageEmpty, InQueue
<1>3. CASE CompleteProcessMessage
    <2>1. /\ InCommand(None, 1)
          /\ \A m : \A i \in Nat : InCommand(m, i)' <=> i # 0 /\ InCommand(m, i + 1)
          /\ \A m : \A i \in Nat : InCommand(m, i) => i # 0
        BY <1>3, TakeFacts, CommandFacts, CommandTaken DEF CompleteProcessMessage
    <2>2. pc' = pc /\ box' = box
        BY <1>3 DEF CompleteProcessMessage
    <2>3. OnePlace'
        <3> SUFFICES ASSUME NEW m \in Messages, NEW i \in Nat, NEW j \in Nat
                     PROVE  /\ InCommand(m, i)' /\ InCommand(m, j)' => i = j
                            /\ \A c, d \in Mailboxes : InQueue(m, c, i)' /\ InQueue(m, d, j)' => c = d /\ i = j
                            /\ \A c \in Mailboxes : ~(InCommand(m, i)' /\ InQueue(m, c, j)')
            BY DEF OnePlace
        <3>1. i + 1 \in Nat /\ j + 1 \in Nat /\ (i + 1 = j + 1 => i = j)
            OBVIOUS
        <3> QED
            BY <1>2, <2>1, <3>1 DEF PlaceInv, OnePlace
    <2>4. ASSUME NEW m \in Messages PROVE Waiting(m)' <=> Waiting(m)
        <3>1. ASSUME NEW i \in Nat, InCommand(m, i)' PROVE \E j \in Nat : InCommand(m, j)
            BY <2>1, <3>1
        <3>2. ASSUME NEW i \in Nat, InCommand(m, i) PROVE \E j \in Nat : InCommand(m, j)'
            <4>1. i # 0 /\ i # 1
                BY <1>1, <2>1, <3>2 DEF InCommand
            <4>2. i - 1 \in Nat /\ i - 1 # 0 /\ (i - 1) + 1 = i
                BY <4>1
            <4> QED
                BY <2>1, <3>2, <4>2
        <3> QED
            BY <1>2, <3>1, <3>2 DEF Waiting
    <2>5. Placed' /\ Resting'
        BY <1>2, <2>2, <2>4 DEF PlaceInv, Placed, Resting
    <2> QED
        BY <2>3, <2>5 DEF PlaceInv
<1>4. ASSUME NEW t \in Threads, OnMessageEmpty(t) PROVE PlaceInv'
    <2>1. pc[t] = "empty" /\ box[t] \in Mailboxes
        BY <1>4 DEF OnMessageEmpty, TypeOK, InRun
    <2>2. PICK b \in Mailboxes : b = box[t]
        BY <2>1
    <2>3. /\ commands' = Append(commands, CompleteMessageCommand(b))
          /\ pc' = [pc EXCEPT ![t] = IF t = Processor THEN "idle" ELSE "done"]
          /\ box' = [box EXCEPT ![t] = None]
        BY <1>4, <2>2 DEF OnMessageEmpty, Return
    <2>4. CompleteMessageCommand(b) \in Commands /\ CompleteMessageCommand(b).message = None
        BY CommandFacts DEF CompleteMessageCommand
    <2>5. PICK l \in Nat : /\ \A m : ~InCommand(m, l)
                           /\ \A m : \A i \in Nat : InCommand(m, i)' <=> InCommand(m, i) \/ (i = l /\ None = m)
        BY <2>3, <2>4, CommandAdded
    <2>6. OnePlace'
        BY <1>1, <1>2, <2>5 DEF PlaceInv, OnePlace
    <2>7. \A m \in Messages : Waiting(m)' <=> Waiting(m)
        BY <1>1, <1>2, <2>5 DEF Waiting
    <2>8. \A m \in Messages : (pc'[m] = "idle") = (pc[m] = "idle")
        BY <2>1, <2>3, KeyFacts DEF TypeOK, Threads
    <2>9. Placed'
        BY <1>2, <2>7, <2>8 DEF PlaceInv, Placed
    <2>10. Resting'
        BY <2>3 DEF PlaceInv, Resting, TypeOK
    <2> QED
        BY <2>6, <2>9, <2>10 DEF PlaceInv
<1> QED
    BY <1>3, <1>4

\* The thread that takes a message out of its mailbox.
LEMMA DequeueStep ==
    ASSUME TypeOK, PlaceInv, NEW t \in Threads, Dequeue(t)
    PROVE  \E b \in Mailboxes, n \in Mailboxes :
               /\ b = box[t] /\ n = Head(queue[b]) /\ queue[b] # <<>> /\ pc[t] = "loop"
               /\ n \in Messages /\ n \in Threads /\ n # t /\ pc[n] = "idle" /\ box[n] = None
               /\ queue' = [queue EXCEPT ![b] = Tail(queue[b])]
               /\ pc'[n] = "read" /\ box'[n] = b
               /\ pc'[t] = (IF t = Processor THEN "idle" ELSE "done") /\ box'[t] = None
               /\ \A u \in Threads : u # t /\ u # n => pc'[u] = pc[u] /\ box'[u] = box[u]
               /\ UNCHANGED <<commands, mailboxDictionary, isHandling, result>>
<1>1. pc[t] = "loop" /\ queue[box[t]] # <<>>
    BY DEF Dequeue
<1>2. PICK b \in Mailboxes : b = box[t]
    BY <1>1, DequeueFacts
<1>3. PICK n \in Mailboxes : n = Head(queue[b])
    BY <1>1, <1>2, DequeueFacts
<1>4. n \in Messages /\ n \in Threads /\ n # t /\ pc[n] = "idle" /\ box[n] = None
    BY <1>1, <1>2, <1>3, HeadIdle, KeyFacts
<1>5. /\ queue' = [queue EXCEPT ![b] = Tail(queue[b])]
      /\ pc' = [pc EXCEPT ![n] = "read", ![t] = IF t = Processor THEN "idle" ELSE "done"]
      /\ box' = [box EXCEPT ![n] = b, ![t] = None]
      /\ UNCHANGED <<commands, mailboxDictionary, isHandling, result>>
    BY <1>2, <1>3 DEF Dequeue
<1>6. /\ pc'[n] = "read" /\ box'[n] = b
      /\ pc'[t] = (IF t = Processor THEN "idle" ELSE "done") /\ box'[t] = None
      /\ \A u \in Threads : u # t /\ u # n => pc'[u] = pc[u] /\ box'[u] = box[u]
    BY <1>4, <1>5 DEF TypeOK
<1> QED
    BY <1>1, <1>2, <1>3, <1>4, <1>5, <1>6

LEMMA SynchronousStep ==
    ASSUME TypeOK, PlaceInv, NEW t \in Threads, NEW outcome \in Outcomes, RunSynchronously(t, outcome)
    PROVE  \E b \in Mailboxes, n \in Mailboxes :
               /\ b = box[t] /\ n = Head(queue[b]) /\ queue[b] # <<>> /\ pc[t] = "loop"
               /\ n \in Messages /\ n \in Threads /\ n # t /\ pc[n] = "idle" /\ box[n] = None
               /\ queue' = [queue EXCEPT ![b] = Tail(queue[b])]
               /\ pc'[n] = "done" /\ result'[n] = outcome
               /\ \A u \in Threads : u # n => pc'[u] = pc[u]
               /\ \A m \in Messages : m # n => result'[m] = result[m]
               /\ UNCHANGED <<commands, mailboxDictionary, isHandling, box>>
<1>1. pc[t] = "loop" /\ queue[box[t]] # <<>>
    BY DEF RunSynchronously
<1>2. PICK b \in Mailboxes : b = box[t]
    BY <1>1, DequeueFacts
<1>3. PICK n \in Mailboxes : n = Head(queue[b])
    BY <1>1, <1>2, DequeueFacts
<1>4. n \in Messages /\ n \in Threads /\ n # t /\ pc[n] = "idle" /\ box[n] = None
    BY <1>1, <1>2, <1>3, HeadIdle, KeyFacts
<1>5. /\ queue' = [queue EXCEPT ![b] = Tail(queue[b])]
      /\ pc' = [pc EXCEPT ![n] = "done"]
      /\ result' = [result EXCEPT ![n] = outcome]
      /\ UNCHANGED <<commands, mailboxDictionary, isHandling, box>>
    BY <1>2, <1>3 DEF RunSynchronously, Goto
<1>6. /\ pc'[n] = "done" /\ \A u \in Threads : u # n => pc'[u] = pc[u]
      /\ result'[n] = outcome /\ \A m \in Messages : m # n => result'[m] = result[m]
    BY <1>4, <1>5 DEF TypeOK
<1> QED
    BY <1>1, <1>2, <1>3, <1>4, <1>5, <1>6

LEMMA PlaceStep == TypeOK /\ PlaceInv /\ [Next]_vars => PlaceInv'
<1> SUFFICES ASSUME TypeOK, PlaceInv, [Next]_vars PROVE PlaceInv'
    OBVIOUS
<1>1. ASSUME NEW m \in Messages, Process(m) PROVE PlaceInv'
    BY <1>1, PostedPlaces
<1>2. CASE ExecuteProcessCommand
    BY <1>2, ExecutedPlaces
<1>3. CASE CompleteProcessMessage \/ \E t \in Threads : OnMessageEmpty(t)
    BY <1>3, ReportedPlaces
<1>4. ASSUME NEW t \in Threads, Dequeue(t) PROVE PlaceInv'
    <2>1. PICK b \in Mailboxes, n \in Mailboxes :
               /\ b = box[t] /\ n = Head(queue[b]) /\ queue[b] # <<>> /\ pc[t] = "loop"
               /\ n \in Messages /\ n \in Threads /\ n # t /\ pc[n] = "idle" /\ box[n] = None
               /\ queue' = [queue EXCEPT ![b] = Tail(queue[b])]
               /\ pc'[n] = "read" /\ box'[n] = b
               /\ pc'[t] = (IF t = Processor THEN "idle" ELSE "done") /\ box'[t] = None
               /\ \A u \in Threads : u # t /\ u # n => pc'[u] = pc[u] /\ box'[u] = box[u]
               /\ UNCHANGED <<commands, mailboxDictionary, isHandling, result>>
        BY <1>4, DequeueStep
    <2>2. InQueue(n, b, 1)
        BY <2>1, MessageDequeued
    <2>3. result'[n] # "none"
        BY <2>1, <2>2 DEF PlaceInv, Placed, Waiting
    <2>4. \A m \in Messages : m # n => (pc'[m] = "idle") = (pc[m] = "idle") /\ result'[m] = result[m]
        BY <2>1, KeyFacts DEF Threads
    <2>5. Resting'
        BY <2>1 DEF PlaceInv, Resting
    <2> QED
        BY <2>1, <2>3, <2>4, <2>5, StartedPlaces
<1>5. ASSUME NEW t \in Threads, NEW outcome \in Outcomes, RunSynchronously(t, outcome) PROVE PlaceInv'
    <2>1. PICK b \in Mailboxes, n \in Mailboxes :
               /\ b = box[t] /\ n = Head(queue[b]) /\ queue[b] # <<>> /\ pc[t] = "loop"
               /\ n \in Messages /\ n \in Threads /\ n # t /\ pc[n] = "idle" /\ box[n] = None
               /\ queue' = [queue EXCEPT ![b] = Tail(queue[b])]
               /\ pc'[n] = "done" /\ result'[n] = outcome
               /\ \A u \in Threads : u # n => pc'[u] = pc[u]
               /\ \A m \in Messages : m # n => result'[m] = result[m]
               /\ UNCHANGED <<commands, mailboxDictionary, isHandling, box>>
        BY <1>5, SynchronousStep
    <2>2. result'[n] # "none"
        BY <2>1 DEF Outcomes
    <2>3. \A m \in Messages : m # n => (pc'[m] = "idle") = (pc[m] = "idle") /\ result'[m] = result[m]
        BY <2>1 DEF Threads
    <2>4. Resting'
        BY <2>1 DEF PlaceInv, Resting
    <2> QED
        BY <2>1, <2>2, <2>3, <2>4, StartedPlaces
<1>6. ASSUME NEW m \in Messages, TaskStep(m) PROVE PlaceInv'
    <2>1. /\ UNCHANGED <<commands, queue, box>> /\ pc[m] \in {"read", "write"}
          /\ pc' \in {[pc EXCEPT ![m] = "write"], [pc EXCEPT ![m] = "done"], [pc EXCEPT ![m] = "loop"]}
          /\ pc' = [pc EXCEPT ![m] = "done"] => box[m] = None \/ pc'[m] # "done"
          /\ result' = result \/ \E outcome \in Outcomes : result' = [result EXCEPT ![m] = outcome]
        BY <1>6 DEF TaskStep, TaskRead, TaskEnd, Goto, TypeOK, Threads
    <2>2. m \in Threads
        BY DEF Threads
    <2>3. result[m] # "none"
        BY <2>1 DEF PlaceInv, Placed
    <2>4. \A n \in Messages : (pc'[n] = "idle") = (pc[n] = "idle") /\ (result'[n] = "none") = (result[n] = "none")
        BY <2>1, <2>2, <2>3 DEF TypeOK, Outcomes, Threads
    <2>5. Resting'
        BY <2>1, <2>2 DEF PlaceInv, Resting, TypeOK
    <2> QED
        BY <2>1, <2>4, <2>5, QuietPlaces
<1>7. ASSUME NEW t \in Threads,
             ScheduleMailbox(t) \/ Leave(t) \/ ExitHandlingMessage(t) \/ CheckQueue(t)
      PROVE  PlaceInv'
    <2>1. /\ UNCHANGED <<commands, queue, result>> /\ pc[t] \notin {"idle", "done"}
          /\ \A u \in Threads : u # t => pc'[u] = pc[u] /\ box'[u] = box[u]
          /\ t \in Messages => pc'[t] # "idle"
          /\ pc'[t] \in {"idle", "done"} => box'[t] = None
        BY <1>7, KeyFacts DEF ScheduleMailbox, Leave, ExitHandlingMessage, CheckQueue, Goto, Return, TypeOK
    <2>2. \A n \in Messages : (pc'[n] = "idle") = (pc[n] = "idle") /\ (result'[n] = "none") = (result[n] = "none")
        BY <2>1 DEF Threads
    <2>3. Resting'
        BY <2>1 DEF PlaceInv, Resting
    <2> QED
        BY <2>1, <2>2, <2>3, QuietPlaces
<1>8. CASE Stop \/ UNCHANGED vars
    <2>1. UNCHANGED <<commands, queue, result, pc, box>>
        BY <1>8 DEF Stop, vars
    <2> QED
        BY <2>1, QuietPlaces DEF PlaceInv, Resting
<1> QED
    BY <1>1, <1>2, <1>3, <1>4, <1>5, <1>6, <1>7, <1>8 DEF Next, ProcessorStep, RunStep

-----------------------------------------------------------------------------
(* Who runs a mailbox *)

\* A step that changes neither a flag nor who runs what, and no wake-up unless the
\* mailbox is empty.
LEMMA QuietRunners ==
    ASSUME FlagInv, WakeInv, isHandling' = isHandling,
           \A t \in Threads, b \in Mailboxes : Runs(t, b)' <=> Runs(t, b),
           \A b \in Mailboxes : queue'[b] # <<>> => queue[b] # <<>> \/ \E t \in Threads : Wakes(t, b)',
           \A t \in Threads, b \in Mailboxes : Wakes(t, b) => Wakes(t, b)' \/ queue'[b] = <<>> \/ isHandling[b]
    PROVE  FlagInv' /\ WakeInv'
<1>1. FlagInv'
    BY DEF FlagInv
<1>2. WakeInv'
    BY DEF WakeInv
<1> QED
    BY <1>1, <1>2

LEMMA RunnerInit == Init => FlagInv /\ WakeInv
BY DEF Init, FlagInv, WakeInv, Runs, Threads

LEMMA RunnerStep == TypeOK /\ PlaceInv /\ FlagInv /\ WakeInv /\ [Next]_vars => FlagInv' /\ WakeInv'
<1> SUFFICES ASSUME TypeOK, PlaceInv, FlagInv, WakeInv, [Next]_vars PROVE FlagInv' /\ WakeInv'
    OBVIOUS
<1>n. \A b \in Mailboxes : b # None
    BY KeyFacts
<1>1. ASSUME NEW n \in Messages, Process(n) PROVE FlagInv' /\ WakeInv'
    <2>1. n \in Threads /\ pc[n] = "idle" /\ box[n] = None
        BY <1>1 DEF Process, PlaceInv, Placed, Resting, Threads
    <2>2. /\ \A t \in Threads : t # n => pc'[t] = pc[t]
          /\ UNCHANGED <<box, queue, isHandling>>
        BY <1>1 DEF Process, Goto, TypeOK
    <2>3. \A t \in Threads, b \in Mailboxes : (Runs(t, b)' <=> Runs(t, b)) /\ (Wakes(t, b) => Wakes(t, b)')
        BY <1>n, <2>1, <2>2 DEF Runs, Wakes
    <2> QED
        BY <2>2, <2>3, QuietRunners
<1>2. CASE ExecuteProcessCommand
    <2>1. PICK n \in Mailboxes : n = Head(commands).message
        BY <1>2, TakeFacts, CommandFacts DEF ExecuteProcessCommand
    <2>2. PICK b \in Mailboxes : b = MailboxFor(n)
        BY MailboxForType
    <2>3. /\ pc[Processor] = "idle" /\ isHandling' = isHandling
          /\ pc'[Processor] = "schedule" /\ box'[Processor] = b
          /\ \A t \in Threads : t # Processor => pc'[t] = pc[t] /\ box'[t] = box[t]
          /\ \A c \in Mailboxes : c # b => queue'[c] = queue[c]
        BY <1>2, <2>1, <2>2, TakeFacts, KeyFacts DEF ExecuteProcessCommand, Goto, TypeOK
    <2>4. \A t \in Threads, c \in Mailboxes : (Runs(t, c)' <=> Runs(t, c)) /\ (Wakes(t, c) => Wakes(t, c)')
        BY <2>3 DEF Runs, Wakes
    <2>5. Wakes(Processor, b)' /\ Processor \in Threads
        BY <2>3, KeyFacts DEF Wakes
    <2> QED
        BY <2>3, <2>4, <2>5, QuietRunners
<1>3. ASSUME NEW t \in Threads, ScheduleMailbox(t) PROVE FlagInv' /\ WakeInv'
    <2>1. PICK b \in Mailboxes : b = box[t]
        BY <1>3 DEF ScheduleMailbox, TypeOK, InRun
    <2>2. pc[t] \in {"schedule", "register"} /\ queue' = queue
        BY <1>3 DEF ScheduleMailbox
    <2>3. CASE isHandling[b]
        <3>1. /\ isHandling' = isHandling /\ pc'[t] \in {"idle", "done"} /\ box'[t] = None
              /\ \A u \in Threads : u # t => pc'[u] = pc[u] /\ box'[u] = box[u]
            BY <1>3, <2>1, <2>3 DEF ScheduleMailbox, Return, TypeOK
        <3>2. \A u \in Threads, c \in Mailboxes :
                  /\ Runs(u, c)' <=> Runs(u, c)
                  /\ Wakes(u, c) => Wakes(u, c)' \/ isHandling[c]
            BY <1>n, <2>1, <2>2, <2>3, <3>1 DEF Runs, Wakes
        <3> QED
            BY <2>2, <3>1, <3>2, QuietRunners
    <2>4. CASE ~isHandling[b]
        <3>1. /\ isHandling' = [isHandling EXCEPT ![b] = TRUE] /\ box' = box /\ pc'[t] = "loop"
              /\ \A u \in Threads : u # t => pc'[u] = pc[u]
            BY <1>3, <2>1, <2>4 DEF ScheduleMailbox, Goto, TypeOK
        <3>2. \A u \in Threads : ~Runs(u, b)
            BY <2>4 DEF FlagInv
        <3>3. \A u \in Threads, c \in Mailboxes : Runs(u, c)' <=> Runs(u, c) \/ (u = t /\ c = b)
            BY <2>1, <2>2, <3>1 DEF Runs
        <3>4. \A u \in Threads, c \in Mailboxes : c # b /\ Wakes(u, c) => Wakes(u, c)'
            BY <2>1, <3>1 DEF Wakes
        <3>5. isHandling'[b] /\ \A c \in Mailboxes : c # b => isHandling'[c] = isHandling[c]
            BY <3>1 DEF TypeOK
        <3>6. FlagInv'
            BY <3>2, <3>3, <3>5 DEF FlagInv
        <3>7. WakeInv'
            BY <2>2, <3>4, <3>5 DEF WakeInv
        <3> QED
            BY <3>6, <3>7
    <2> QED
        BY <2>3, <2>4
<1>4. ASSUME NEW t \in Threads, Dequeue(t) PROVE FlagInv' /\ WakeInv'
    <2>1. PICK b \in Mailboxes, n \in Mailboxes :
               /\ b = box[t] /\ n = Head(queue[b]) /\ queue[b] # <<>> /\ pc[t] = "loop"
               /\ n \in Messages /\ n \in Threads /\ n # t /\ pc[n] = "idle" /\ box[n] = None
               /\ queue' = [queue EXCEPT ![b] = Tail(queue[b])]
               /\ pc'[n] = "read" /\ box'[n] = b
               /\ pc'[t] = (IF t = Processor THEN "idle" ELSE "done") /\ box'[t] = None
               /\ \A u \in Threads : u # t /\ u # n => pc'[u] = pc[u] /\ box'[u] = box[u]
               /\ UNCHANGED <<commands, mailboxDictionary, isHandling, result>>
        BY <1>4, DequeueStep
    <2>2. Runs(t, b) /\ isHandling[b]
        BY <2>1 DEF Runs, FlagInv
    <2>3. \A u \in Threads, c \in Mailboxes :
              Runs(u, c)' <=> (Runs(u, c) /\ u # t) \/ (u = n /\ c = b)
        BY <1>n, <2>1 DEF Runs
    <2>4. \A u \in Threads : Runs(u, b) => u = t
        BY <2>2 DEF FlagInv
    <2>5. \A c \in Mailboxes : c # b => ~Runs(t, c)
        BY <2>1 DEF Runs
    <2>6. FlagInv'
        BY <2>1, <2>2, <2>3, <2>4, <2>5 DEF FlagInv
    <2>7. \A u \in Threads, c \in Mailboxes : Wakes(u, c) => Wakes(u, c)'
        BY <2>1 DEF Wakes
    <2>8. \A c \in Mailboxes : c # b => queue'[c] = queue[c]
        BY <2>1 DEF TypeOK
    <2>9. WakeInv'
        BY <2>1, <2>2, <2>7, <2>8 DEF WakeInv
    <2> QED
        BY <2>6, <2>9
<1>5. ASSUME NEW t \in Threads, NEW outcome \in Outcomes, RunSynchronously(t, outcome)
      PROVE  FlagInv' /\ WakeInv'
    <2>1. PICK b \in Mailboxes, n \in Mailboxes :
               /\ b = box[t] /\ n = Head(queue[b]) /\ queue[b] # <<>> /\ pc[t] = "loop"
               /\ n \in Messages /\ n \in Threads /\ n # t /\ pc[n] = "idle" /\ box[n] = None
               /\ queue' = [queue EXCEPT ![b] = Tail(queue[b])]
               /\ pc'[n] = "done" /\ result'[n] = outcome
               /\ \A u \in Threads : u # n => pc'[u] = pc[u]
               /\ \A m \in Messages : m # n => result'[m] = result[m]
               /\ UNCHANGED <<commands, mailboxDictionary, isHandling, box>>
        BY <1>5, SynchronousStep
    <2>2. \A u \in Threads, c \in Mailboxes : (Runs(u, c)' <=> Runs(u, c)) /\ (Wakes(u, c) => Wakes(u, c)')
        BY <1>n, <2>1 DEF Runs, Wakes
    <2>3. \A c \in Mailboxes : queue'[c] # <<>> => queue[c] # <<>>
        BY <2>1 DEF TypeOK
    <2> QED
        BY <2>1, <2>2, <2>3, QuietRunners
<1>6. ASSUME NEW m \in Messages, TaskStep(m) PROVE FlagInv' /\ WakeInv'
    <2>1. /\ UNCHANGED <<queue, box, isHandling>> /\ pc[m] \in {"read", "write"}
          /\ \A u \in Threads : u # m => pc'[u] = pc[u]
          /\ pc'[m] \in {"write", "loop"} \/ (pc'[m] = "done" /\ box[m] = None)
        BY <1>6 DEF TaskStep, TaskRead, TaskEnd, Goto, TypeOK, Threads
    <2>2. \A u \in Threads, c \in Mailboxes : (Runs(u, c)' <=> Runs(u, c)) /\ (Wakes(u, c) => Wakes(u, c)')
        BY <1>n, <2>1 DEF Runs, Wakes
    <2> QED
        BY <2>1, <2>2, QuietRunners
<1>7. ASSUME NEW t \in Threads, Leave(t) \/ CheckQueue(t) \/ OnMessageEmpty(t) PROVE FlagInv' /\ WakeInv'
    <2>1. /\ UNCHANGED <<queue, isHandling>>
          /\ \A u \in Threads : u # t => pc'[u] = pc[u] /\ box'[u] = box[u]
          /\ \/ pc[t] = "loop" /\ pc'[t] = "exit" /\ box'[t] = box[t]
             \/ pc[t] = "check" /\ pc'[t] = "register" /\ box'[t] = box[t]
             \/ pc[t] = "check" /\ pc'[t] = "empty" /\ queue[box[t]] = <<>>
             \/ pc[t] = "empty" /\ pc'[t] \in {"idle", "done"}
        BY <1>7 DEF Leave, CheckQueue, OnMessageEmpty, Goto, Return, TypeOK
    <2>2. \A u \in Threads, c \in Mailboxes :
              (Runs(u, c)' <=> Runs(u, c)) /\ (Wakes(u, c) => Wakes(u, c)' \/ queue'[c] = <<>>)
        BY <2>1 DEF Runs, Wakes
    <2> QED
        BY <2>1, <2>2, QuietRunners
<1>8. ASSUME NEW t \in Threads, ExitHandlingMessage(t) PROVE FlagInv' /\ WakeInv'
    <2>1. PICK b \in Mailboxes : b = box[t]
        BY <1>8 DEF ExitHandlingMessage, TypeOK, InRun
    <2>2. /\ pc[t] = "exit" /\ pc'[t] = "check" /\ queue' = queue /\ box' = box
          /\ isHandling' = [isHandling EXCEPT ![b] = FALSE]
          /\ \A u \in Threads : u # t => pc'[u] = pc[u]
        BY <1>8, <2>1 DEF ExitHandlingMessage, Goto, TypeOK
    <2>3. ~isHandling'[b] /\ \A c \in Mailboxes : c # b => isHandling'[c] = isHandling[c]
        BY <2>2 DEF TypeOK
    <2>4. Runs(t, b) /\ \A u \in Threads : Runs(u, b) => u = t
        BY <2>1, <2>2 DEF Runs, FlagInv
    <2>5. \A u \in Threads, c \in Mailboxes : Runs(u, c)' <=> Runs(u, c) /\ u # t
        BY <2>2 DEF Runs
    <2>6. \A c \in Mailboxes : c # b => ~Runs(t, c)
        BY <2>1 DEF Runs
    <2>7. FlagInv'
        BY <2>3, <2>4, <2>5, <2>6 DEF FlagInv
    <2>8. Wakes(t, b)' /\ \A u \in Threads, c \in Mailboxes : Wakes(u, c) => Wakes(u, c)'
        BY <2>1, <2>2 DEF Wakes
    <2>9. WakeInv'
        BY <2>2, <2>3, <2>8 DEF WakeInv
    <2> QED
        BY <2>7, <2>9
<1>9. CASE Stop \/ CompleteProcessMessage \/ UNCHANGED vars
    <2>1. UNCHANGED <<queue, isHandling, pc, box>>
        BY <1>9 DEF Stop, CompleteProcessMessage, vars
    <2>2. \A u \in Threads, c \in Mailboxes : (Runs(u, c)' <=> Runs(u, c)) /\ (Wakes(u, c) => Wakes(u, c)')
        BY <2>1 DEF Runs, Wakes
    <2> QED
        BY <2>1, <2>2, QuietRunners
<1> QED
    BY <1>1, <1>2, <1>3, <1>4, <1>5, <1>6, <1>7, <1>8, <1>9 DEF Next, ProcessorStep, RunStep

-----------------------------------------------------------------------------
(* Who drops a mailbox *)

LEMMA DictionaryInit == Init => DictionaryInv
BY DEF Init, DictionaryInv

\* A step that adds no mailbox keeps the dictionary in order if whoever works for a key
\* goes on, hands over, or reports the mailbox empty.
LEMMA QuietDictionary ==
    ASSUME DictionaryInv,
           \A k \in Keys : mailboxDictionary'[k] \in {mailboxDictionary[k], None},
           \A k \in Keys : Worked(k) => Worked(k)' \/ mailboxDictionary'[k] = None
    PROVE  DictionaryInv'
BY DEF DictionaryInv

LEMMA DictionaryStep ==
    TypeOK /\ PlaceInv /\ FlagInv /\ WakeInv /\ DictionaryInv /\ [Next]_vars => DictionaryInv'
<1> SUFFICES ASSUME TypeOK, PlaceInv, FlagInv, WakeInv, DictionaryInv, [Next]_vars PROVE DictionaryInv'
    OBVIOUS
<1>n. \A b \in Mailboxes : b # None /\ Key[b] \in Keys
    BY KeyFacts
<1>c. commands \in Seq(Commands)
    BY DEF TypeOK
<1>1. CASE ExecuteProcessCommand
    <2>1. PICK n \in Mailboxes : n = Head(commands).message
        BY <1>1, TakeFacts, CommandFacts DEF ExecuteProcessCommand
    <2>2. PICK b \in Mailboxes : b = MailboxFor(n)
        BY MailboxForType
    <2>3. /\ pc[Processor] = "idle" /\ box[Processor] = None /\ box'[Processor] = b
          /\ \A t \in Threads : t # Processor => box'[t] = box[t]
          /\ mailboxDictionary' = [mailboxDictionary EXCEPT ![Key[n]] = b]
          /\ commands # <<>> /\ commands' = Tail(commands) /\ Head(commands).type = "process"
        BY <1>1, <2>1, <2>2, TakeFacts, KeyFacts DEF ExecuteProcessCommand, Take, TypeOK, PlaceInv, Resting
    <2>4. Key[b] = Key[n] /\ Key[n] \in Keys
        BY <1>n, <2>2 DEF MailboxFor, DictionaryInv
    <2>5. Worked(Key[n])'
        BY <2>3, <2>4, KeyFacts DEF Worked
    <2>6. ASSUME NEW k \in Keys, Worked(k) PROVE Worked(k)'
        <3>1. CASE \E t \in Threads : box[t] \in Mailboxes /\ Key[box[t]] = k
            BY <1>n, <2>3, <3>1 DEF Worked
        <3>2. ASSUME NEW i \in DOMAIN commands, commands[i].type = "complete", Key[commands[i].mailbox] = k
              PROVE  Worked(k)'
            <4>1. i \in 1..Len(commands) /\ i # 1 /\ Len(commands) \in Nat
                BY <1>c, <2>3, <3>2, TailFacts
            <4>2. i - 1 \in DOMAIN commands' /\ commands'[i - 1] = commands[i]
                BY <1>c, <2>3, <4>1, TailFacts
            <4> QED
                BY <3>2, <4>2 DEF Worked
        <3> QED
            BY <2>6, <3>1, <3>2 DEF Worked
    <2> QED
        BY <2>3, <2>4, <2>5, <2>6 DEF DictionaryInv, TypeOK
<1>2. CASE CompleteProcessMessage
    <2>1. PICK b \in Mailboxes : b = Head(commands).mailbox
        BY <1>2, TakeFacts, CommandFacts DEF CompleteProcessMessage
    <2>2. /\ commands # <<>> /\ commands' = Tail(commands) /\ box' = box
          /\ mailboxDictionary' \in {mailboxDictionary, [mailboxDictionary EXCEPT ![Key[b]] = None]}
          /\ queue[b] = <<>> => mailboxDictionary' = [mailboxDictionary EXCEPT ![Key[b]] = None]
        BY <1>2, <2>1 DEF CompleteProcessMessage, Take
    <2>3. \A k \in Keys : mailboxDictionary'[k] \in {mailboxDictionary[k], None}
        BY <2>2 DEF TypeOK
    <2>4. ASSUME NEW k \in Keys, Worked(k) PROVE Worked(k)' \/ mailboxDictionary'[k] = None
        <3>1. CASE \E t \in Threads : box[t] \in Mailboxes /\ Key[box[t]] = k
            BY <2>2, <3>1 DEF Worked
        <3>2. ASSUME NEW i \in DOMAIN commands, i # 1, commands[i].type = "complete",
                     Key[commands[i].mailbox] = k
              PROVE  Worked(k)'
            <4>1. i \in 1..Len(commands) /\ Len(commands) \in Nat
                BY <1>c, <2>2, <3>2, TailFacts
            <4>2. i - 1 \in DOMAIN commands' /\ commands'[i - 1] = commands[i]
                BY <1>c, <2>2, <3>2, <4>1, TailFacts
            <4> QED
                BY <3>2, <4>2 DEF Worked
        <3>3. CASE Key[b] = k
            <4>1. CASE queue[b] = <<>>
                BY <1>n, <2>2, <3>3, <4>1 DEF TypeOK
            <4>2. CASE queue[b] # <<>>
                <5>1. \E t \in Threads : box[t] = b
                    BY <4>2 DEF WakeInv, FlagInv, Runs, Wakes
                <5> QED
                    BY <2>2, <3>3, <5>1 DEF Worked
            <4> QED
                BY <4>1, <4>2
        <3>4. Head(commands) = commands[1]
            BY <1>c, <2>2, TailFacts
        <3> QED
            BY <2>1, <2>4, <3>1, <3>2, <3>3, <3>4 DEF Worked
    <2> QED
        BY <2>3, <2>4, QuietDictionary
<1>3. ASSUME NEW n \in Messages, Process(n) PROVE DictionaryInv'
    <2>1. UNCHANGED <<mailboxDictionary, box>>
        BY <1>3 DEF Process
    <2>2. \A i \in DOMAIN commands : i \in DOMAIN commands' /\ commands'[i] = commands[i]
        <3>1. CASE commands' = commands
            BY <3>1
        <3>2. CASE commands' = Append(commands, ProcessMessageCommand(n)) /\ Key[n] # Blank
            <4>1. ProcessMessageCommand(n) \in Commands
                BY <3>2, CommandFacts DEF Mailboxes
            <4> QED
                BY <1>c, <3>2, <4>1, AppendFacts
        <3> QED
            BY <1>3, <3>1, <3>2 DEF Process
    <2>3. \A k \in Keys : Worked(k) => Worked(k)'
        BY <2>1, <2>2 DEF Worked
    <2> QED
        BY <2>1, <2>3, QuietDictionary
<1>4. ASSUME NEW t \in Threads, ScheduleMailbox(t) PROVE DictionaryInv'
    <2>1. PICK b \in Mailboxes : b = box[t]
        BY <1>4 DEF ScheduleMailbox, TypeOK, InRun
    <2>2. /\ pc[t] \in {"schedule", "register"} /\ UNCHANGED <<commands, mailboxDictionary>>
          /\ \A u \in Threads : u # t => box'[u] = box[u]
          /\ box'[t] # box[t] => isHandling[b]
        BY <1>4, <2>1 DEF ScheduleMailbox, Return, TypeOK
    <2>3. \E u \in Threads : box'[u] = b
        <3>1. isHandling[b] => \E u \in Threads : u # t /\ box[u] = b
            BY <2>2 DEF FlagInv, Runs
        <3> QED
            BY <2>1, <2>2, <3>1
    <2>4. \A k \in Keys : Worked(k) => Worked(k)'
        BY <2>1, <2>2, <2>3 DEF Worked
    <2> QED
        BY <2>2, <2>4, QuietDictionary
<1>5. ASSUME NEW t \in Threads, Dequeue(t) PROVE DictionaryInv'
    <2>1. PICK b \in Mailboxes, n \in Mailboxes :
               /\ b = box[t] /\ n = Head(queue[b]) /\ queue[b] # <<>> /\ pc[t] = "loop"
               /\ n \in Messages /\ n \in Threads /\ n # t /\ pc[n] = "idle" /\ box[n] = None
               /\ queue' = [queue EXCEPT ![b] = Tail(queue[b])]
               /\ pc'[n] = "read" /\ box'[n] = b
               /\ pc'[t] = (IF t = Processor THEN "idle" ELSE "done") /\ box'[t] = None
               /\ \A u \in Threads : u # t /\ u # n => pc'[u] = pc[u] /\ box'[u] = box[u]
               /\ UNCHANGED <<commands, mailboxDictionary, isHandling, result>>
        BY <1>5, DequeueStep
    <2>2. \A k \in Keys : Worked(k) => Worked(k)'
        BY <1>n, <2>1 DEF Worked
    <2> QED
        BY <2>1, <2>2, QuietDictionary
<1>6. ASSUME NEW t \in Threads, OnMessageEmpty(t) PROVE DictionaryInv'
    <2>1. PICK b \in Mailboxes : b = box[t]
        BY <1>6 DEF OnMessageEmpty, TypeOK, InRun
    <2>2. /\ commands' = Append(commands, CompleteMessageCommand(b)) /\ UNCHANGED mailboxDictionary
          /\ \A u \in Threads : u # t => box'[u] = box[u]
        BY <1>6, <2>1 DEF OnMessageEmpty, Return, TypeOK
    <2>3. CompleteMessageCommand(b) \in Commands
        BY CommandFacts
    <2>4. /\ \A i \in DOMAIN commands : i \in DOMAIN commands' /\ commands'[i] = commands[i]
          /\ Len(commands) + 1 \in DOMAIN commands' /\ commands'[Len(commands) + 1] = CompleteMessageCommand(b)
        BY <1>c, <2>2, <2>3, AppendFacts
    <2>5. Worked(Key[b])'
        BY <2>4 DEF Worked, CompleteMessageCommand
    <2>6. \A k \in Keys : Worked(k) => Worked(k)'
        BY <2>1, <2>2, <2>4, <2>5 DEF Worked
    <2> QED
        BY <2>2, <2>6, QuietDictionary
<1>7. CASE UNCHANGED <<commands, mailboxDictionary, box>>
    <2>1. \A k \in Keys : Worked(k) => Worked(k)'
        BY <1>7 DEF Worked
    <2> QED
        BY <1>7, <2>1, QuietDictionary
<1> QED
    BY <1>1, <1>2, <1>3, <1>4, <1>5, <1>6, <1>7
       DEF Next, ProcessorStep, RunStep, TaskStep, TaskRead, TaskEnd, Stop, Leave, RunSynchronously,
           ExitHandlingMessage, CheckQueue, vars

-----------------------------------------------------------------------------

LEMMA MailboxInvariant == Spec => [](TypeOK /\ MailboxInv)
<1>1. Init => TypeOK /\ MailboxInv
    BY TypeInit, PlaceInit, RunnerInit, DictionaryInit DEF MailboxInv
<1>2. TypeOK /\ MailboxInv /\ [Next]_vars => (TypeOK /\ MailboxInv)'
    BY TypeStep, PlaceStep, RunnerStep, DictionaryStep DEF MailboxInv
<1> QED
    BY <1>1, <1>2, PTL DEF Spec

\* The compare-and-swap on the flag admits one runner, for any number of messages, keys
\* and threads and any batch size, and the flag is up exactly while it runs.
THEOREM OneRunnerTheorem == Spec => []OneRunner
<1>1. MailboxInv => OneRunner
    <2>1. \A b : Running(b) = {t \in Threads : Runs(t, b)}
        BY DEF Running, Runs
    <2> QED
        BY <2>1, Zenon DEF MailboxInv, FlagInv, OneRunner
<1> QED
    BY MailboxInvariant, <1>1, PTL

\* A mailbox with waiting messages is run or about to be.
THEOREM NoLostWakeupTheorem == Spec => []NoLostWakeup
<1>1. MailboxInv => NoLostWakeup
    BY DEF MailboxInv, WakeInv, Wakes, NoLostWakeup
<1> QED
    BY MailboxInvariant, <1>1, PTL

\* A message posted is in exactly one place until it is started, and is started once.
THEOREM ExactlyOnceTheorem == Spec => []ExactlyOnce
<1>1. TypeOK /\ MailboxInv => ExactlyOnce
    <2> SUFFICES ASSUME TypeOK, MailboxInv, NEW m \in Messages
                 PROVE  /\ Places(m) # {} <=> result[m] # "none"
                        /\ \A p, q \in Places(m) : p = q
        BY DEF ExactlyOnce
    <2>1. /\ DOMAIN commands \subseteq Nat
          /\ \A b \in Mailboxes : DOMAIN queue[b] \subseteq Nat
        <3>1. commands \in Seq(Commands) /\ \A b \in Mailboxes : queue[b] \in Seq(Mailboxes)
            BY DEF TypeOK
        <3> QED
            BY <3>1
    <2>2. ASSUME NEW p
          PROVE  p \in Places(m) <=>
                     \/ \E i \in Nat : InCommand(m, i) /\ p = <<"command", i>>
                     \/ \E b \in Mailboxes, i \in Nat : InQueue(m, b, i) /\ p = <<b, i>>
                     \/ pc[m] # "idle" /\ p = <<"started", 0>>
        <3> DEFINE A == {<<"command", i>> : i \in {j \in DOMAIN commands : commands[j].message = m}}
                   B == UNION {{<<b, i>> : i \in {j \in DOMAIN queue[b] : queue[b][j] = m}} : b \in Mailboxes}
                   C == IF pc[m] # "idle" THEN {<<"started", 0>>} ELSE {}
        <3>1. p \in A <=> \E i \in Nat : InCommand(m, i) /\ p = <<"command", i>>
            BY <2>1 DEF InCommand
        <3>2. p \in B <=> \E b \in Mailboxes, i \in Nat : InQueue(m, b, i) /\ p = <<b, i>>
            BY <2>1 DEF InQueue
        <3>3. p \in C <=> pc[m] # "idle" /\ p = <<"started", 0>>
            OBVIOUS
        <3>4. Places(m) = A \cup B \cup C
            BY DEF Places
        <3> HIDE DEF A, B, C
        <3> QED
            BY <3>1, <3>2, <3>3, <3>4
    <2>3. Places(m) # {} <=> Waiting(m) \/ pc[m] # "idle"
        BY <2>2 DEF Waiting
    <2>4. Places(m) # {} <=> result[m] # "none"
        BY <2>3 DEF MailboxInv, PlaceInv, Placed
    <2>5. ASSUME NEW p \in Places(m), NEW q \in Places(m) PROVE p = q
        BY <2>2 DEF MailboxInv, PlaceInv, OnePlace, Placed, Waiting
    <2> QED
        BY <2>4, <2>5
<1> QED
    BY MailboxInvariant, <1>1, PTL

\* Once everything posted has been run and every command executed, no mailbox is left in
\* the dictionary.
THEOREM NoMailboxLeakTheorem == Spec => []NoMailboxLeak
<1>1. TypeOK /\ MailboxInv => NoMailboxLeak
    <2> SUFFICES ASSUME TypeOK, MailboxInv, Quiescent, NEW k \in Keys PROVE mailboxDictionary[k] = None
        BY DEF NoMailboxLeak
    <2>1. \A t \in Threads : box[t] = None
        BY DEF MailboxInv, PlaceInv, Resting, Quiescent, Threads
    <2>2. DOMAIN commands = {}
        BY DEF Quiescent
    <2>3. ~Worked(k)
        BY <2>1, <2>2, KeyFacts DEF Worked
    <2> QED
        BY <2>3 DEF MailboxInv, DictionaryInv
<1> QED
    BY MailboxInvariant, <1>1, PTL
=============================================================================
