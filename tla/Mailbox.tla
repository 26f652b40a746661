------------------------------ MODULE Mailbox ------------------------------
(***************************************************************************)
(* The mailbox processor (iFramework/Infrastructure/Mailboxes/Impl): work  *)
(* posted under one key is run one piece at a time, in order.              *)
(*                                                                         *)
(* Clients add commands to a blocking collection.  One processor thread    *)
(* takes them: it finds or makes the mailbox of the key, enqueues the      *)
(* message and schedules the mailbox.  Whoever wins the mailbox's flag     *)
(* runs it: takes messages and awaits their tasks, up to a batch; then it  *)
(* gives the flag back and either schedules the mailbox again or reports   *)
(* it empty, upon which the processor drops it from the dictionary.        *)
(*                                                                         *)
(* Threads.  Most tasks posted in this code base yield at once             *)
(* (ConsumeMessage starts with Task.Yield, the sample service with         *)
(* Task.Delay): a thread in Run is released by the first such task it      *)
(* starts and the rest of Run is the continuation of that task.  The       *)
(* continuation is named by the message, so the threads are the processor  *)
(* and the messages.  A task that does not yield (ConsumeReply of the      *)
(* command bus) runs on the thread that dequeued it.  A mailbox is named   *)
(* by the message it was made for.                                         *)
(***************************************************************************)
EXTENDS Naturals, Sequences, FiniteSets

CONSTANTS Messages,    \* units of work posted
          Key,         \* Key[m]: the key a message is posted under
          Blank,       \* the blank key
          Synchronous, \* messages whose task does not yield
          BatchCount,  \* MailboxOption.BatchCount
          None,        \* no mailbox
          Processor,   \* the processor thread
          MayStop      \* whether Stop may be called

Mailboxes == {m \in Messages : Key[m] # Blank}
Keys == {Key[m] : m \in Mailboxes}
Threads == Messages \cup {Processor}

ASSUME BatchAssumption == BatchCount \in Nat \ {0}
ASSUME NamesAssumption == None \notin Messages /\ Processor \notin Messages
ASSUME KeyAssumption == Key = [m \in Messages |-> Key[m]]
ASSUME SynchronousAssumption == Synchronous \subseteq Mailboxes
ASSUME StopAssumption == MayStop \in BOOLEAN

VARIABLES
    commands,           \* _mailboxProcessorCommands
    stopped,            \* _cancellationSource is cancelled
    mailboxDictionary,  \* _mailboxDictionary: key to mailbox or None
    queue,              \* MessageQueue of each mailbox
    isHandling,         \* _isHandlingMessage of each mailbox
    pc,                 \* where each thread is
    box,                \* the mailbox a thread works for, or None
    processedCount,     \* local of Run
    value,              \* the data the tasks of a key update (MailboxValues)
    local,              \* the value a task has read
    result              \* TaskCompletionSource of each message

vars == <<commands, stopped, mailboxDictionary, queue, isHandling, pc, box,
          processedCount, value, local, result>>

ProcessMessageCommand(m) == [type |-> "process", message |-> m, mailbox |-> None]
CompleteMessageCommand(b) == [type |-> "complete", message |-> None, mailbox |-> b]
Commands == {ProcessMessageCommand(m) : m \in Mailboxes}
            \cup {CompleteMessageCommand(b) : b \in Mailboxes}

\* "idle": a message not posted, or posted and not started; the processor
\* waiting in Take.  "read", "write": in the task.  "loop" .. "empty": in Run.
Labels == {"idle", "schedule", "read", "write", "loop", "exit", "check",
           "register", "empty", "done"}
InRun == {"schedule", "loop", "exit", "check", "register", "empty"}

TypeOK ==
    /\ commands \in Seq(Commands)
    /\ stopped \in BOOLEAN
    /\ mailboxDictionary \in [Keys -> Mailboxes \cup {None}]
    /\ queue \in [Mailboxes -> Seq(Mailboxes)]
    /\ isHandling \in [Mailboxes -> BOOLEAN]
    /\ pc \in [Threads -> Labels]
    /\ box \in [Threads -> Mailboxes \cup {None}]
    /\ \A t \in Threads : pc[t] \in InRun => box[t] \in Mailboxes
    /\ processedCount \in [Threads -> 0..BatchCount]
    /\ value \in [Keys \cup {Blank} -> Nat]
    /\ local \in [Messages -> Nat]
    /\ result \in [Messages -> {"none", "posted", "value", "exception"}]

Init ==
    /\ commands = <<>>
    /\ stopped = FALSE
    /\ mailboxDictionary = [k \in Keys |-> None]
    /\ queue = [b \in Mailboxes |-> <<>>]
    /\ isHandling = [b \in Mailboxes |-> FALSE]
    /\ pc = [t \in Threads |-> "idle"]
    /\ box = [t \in Threads |-> None]
    /\ processedCount = [t \in Threads |-> 0]
    /\ value = [k \in Keys \cup {Blank} |-> 0]
    /\ local = [m \in Messages |-> 0]
    /\ result = [m \in Messages |-> "none"]

Goto(t, label) == pc' = [pc EXCEPT ![t] = label]

\* The thread comes to its end: the processor takes the next command.
Return(t) ==
    /\ pc' = [pc EXCEPT ![t] = IF t = Processor THEN "idle" ELSE "done"]
    /\ box' = [box EXCEPT ![t] = None]

-----------------------------------------------------------------------------
(* Clients *)

\* Process: work under a blank key runs at once, on its own.
Process(m) ==
    /\ result[m] = "none"
    /\ result' = [result EXCEPT ![m] = "posted"]
    /\ IF Key[m] = Blank
       THEN Goto(m, "read") /\ UNCHANGED commands
       ELSE commands' = Append(commands, ProcessMessageCommand(m)) /\ UNCHANGED pc
    /\ UNCHANGED <<stopped, mailboxDictionary, queue, isHandling, box,
                   processedCount, value, local>>

\* Stop cancels the token; the processor thread ends when it is back in Take.
\* The token source is never renewed, so there is no Start after a Stop.
Stop ==
    /\ MayStop /\ ~stopped
    /\ stopped' = TRUE
    /\ UNCHANGED <<commands, mailboxDictionary, queue, isHandling, pc, box,
                   processedCount, value, local, result>>

-----------------------------------------------------------------------------
(* The processor thread *)

Take(type) ==
    /\ pc[Processor] = "idle"
    /\ ~stopped
    /\ commands # <<>>
    /\ Head(commands).type = type
    /\ commands' = Tail(commands)

\* The mailbox GetOrAdd returns for the key of m.
MailboxFor(m) ==
    IF mailboxDictionary[Key[m]] = None THEN m ELSE mailboxDictionary[Key[m]]

ExecuteProcessCommand ==
    /\ Take("process")
    /\ LET m == Head(commands).message
           b == MailboxFor(m)
       IN  /\ mailboxDictionary' = [mailboxDictionary EXCEPT ![Key[m]] = b]
           /\ queue' = [queue EXCEPT ![b] = Append(@, m)]
           /\ box' = [box EXCEPT ![Processor] = b]
    /\ Goto(Processor, "schedule")
    /\ UNCHANGED <<stopped, isHandling, processedCount, value, local, result>>

\* An empty mailbox is dropped: whatever mailbox the dictionary holds under the
\* key by then, and also when the last message dequeued is still running.
CompleteProcessMessage ==
    /\ Take("complete")
    /\ LET b == Head(commands).mailbox
       IN  mailboxDictionary' = IF queue[b] = <<>>
                                THEN [mailboxDictionary EXCEPT ![Key[b]] = None]
                                ELSE mailboxDictionary
    /\ UNCHANGED <<stopped, queue, isHandling, pc, box, processedCount,
                   value, local, result>>

-----------------------------------------------------------------------------
(* Running a mailbox, on any thread *)

\* Mutant: the flag is not looked at.
ScheduleUnguarded(t) ==
    /\ pc[t] \in {"schedule", "register"}
    /\ isHandling' = [isHandling EXCEPT ![box[t]] = TRUE]
    /\ processedCount' = [processedCount EXCEPT ![t] = 0]
    /\ Goto(t, "loop")
    /\ UNCHANGED <<box, commands, stopped, mailboxDictionary, queue, value, local, result>>

\* ScheduleMailbox: the compare-and-swap on the flag admits one runner.
ScheduleMailbox(t) ==
    /\ pc[t] \in {"schedule", "register"}
    /\ IF isHandling[box[t]]
       THEN Return(t) /\ UNCHANGED <<isHandling, processedCount>>
       ELSE /\ isHandling' = [isHandling EXCEPT ![box[t]] = TRUE]
            /\ processedCount' = [processedCount EXCEPT ![t] = 0]
            /\ Goto(t, "loop") /\ UNCHANGED box
    /\ UNCHANGED <<commands, stopped, mailboxDictionary, queue, value, local, result>>

\* Mutant: the message is looked at and not taken out of the queue.
DequeuePeeks(t) ==
    /\ pc[t] = "loop"
    /\ processedCount[t] < BatchCount
    /\ queue[box[t]] # <<>>
    /\ Head(queue[box[t]]) \notin Synchronous
    /\ LET m == Head(queue[box[t]])
       IN  /\ processedCount' = [processedCount EXCEPT ![m] = processedCount[t] + 1]
           /\ pc' = [pc EXCEPT ![t] = IF t = Processor THEN "idle" ELSE "done",
                               ![m] = "read"]
           /\ box' = [box EXCEPT ![t] = None, ![m] = box[t]]
    /\ UNCHANGED <<commands, stopped, mailboxDictionary, queue, isHandling, value, local, result>>

\* Run takes the next message and starts its task.  The task yields, its
\* continuation goes on with Run, and the thread is free.
Dequeue(t) ==
    /\ pc[t] = "loop"
    /\ processedCount[t] < BatchCount
    /\ queue[box[t]] # <<>>
    /\ Head(queue[box[t]]) \notin Synchronous
    /\ LET m == Head(queue[box[t]])
       IN  /\ queue' = [queue EXCEPT ![box[t]] = Tail(@)]
           /\ processedCount' = [processedCount EXCEPT ![m] = processedCount[t] + 1]
           /\ pc' = [pc EXCEPT ![m] = "read",
                               ![t] = IF t = Processor THEN "idle" ELSE "done"]
           /\ box' = [box EXCEPT ![m] = box[t], ![t] = None]
    /\ UNCHANGED <<commands, stopped, mailboxDictionary, isHandling, value, local, result>>

\* A task that does not yield is over before the thread goes on in Run.
RunSynchronously(t, outcome) ==
    /\ pc[t] = "loop"
    /\ processedCount[t] < BatchCount
    /\ queue[box[t]] # <<>>
    /\ LET m == Head(queue[box[t]])
       IN  /\ m \in Synchronous
           /\ queue' = [queue EXCEPT ![box[t]] = Tail(@)]
           /\ processedCount' = [processedCount EXCEPT ![t] = @ + 1]
           /\ Goto(m, "done")
           /\ value' = IF outcome = "value" THEN [value EXCEPT ![Key[m]] = @ + 1] ELSE value
           /\ result' = [result EXCEPT ![m] = outcome]
    /\ UNCHANGED <<commands, stopped, mailboxDictionary, isHandling, box, local>>

\* The task reads the data of its key ...
TaskRead(m) ==
    /\ pc[m] = "read"
    /\ local' = [local EXCEPT ![m] = value[Key[m]]]
    /\ Goto(m, "write")
    /\ UNCHANGED <<commands, stopped, mailboxDictionary, queue, isHandling, box,
                   processedCount, value, result>>

\* ... and writes it back, or throws.  Either way the completion source is set
\* and Run goes on (work under a blank key has no Run around it).
TaskEnd(m, outcome) ==
    /\ pc[m] = "write"
    /\ value' = IF outcome = "value"
                THEN [value EXCEPT ![Key[m]] = local[m] + 1]
                ELSE value
    /\ result' = [result EXCEPT ![m] = outcome]
    /\ Goto(m, IF box[m] = None THEN "done" ELSE "loop")
    /\ UNCHANGED <<commands, stopped, mailboxDictionary, queue, isHandling, box,
                   processedCount, local>>

\* The batch is full or the queue is empty.
Leave(t) ==
    /\ pc[t] = "loop"
    /\ processedCount[t] = BatchCount \/ queue[box[t]] = <<>>
    /\ Goto(t, "exit")
    /\ UNCHANGED <<commands, stopped, mailboxDictionary, queue, isHandling, box,
                   processedCount, value, local, result>>

\* ExitHandlingMessage gives the flag back first ...
ExitHandlingMessage(t) ==
    /\ pc[t] = "exit"
    /\ isHandling' = [isHandling EXCEPT ![box[t]] = FALSE]
    /\ Goto(t, "check")
    /\ UNCHANGED <<commands, stopped, mailboxDictionary, queue, box,
                   processedCount, value, local, result>>

\* Mutant: the queue is not looked at again.
CheckNothing(t) ==
    /\ pc[t] = "check"
    /\ Goto(t, "empty")
    /\ UNCHANGED <<commands, stopped, mailboxDictionary, queue, isHandling, box,
                   processedCount, value, local, result>>

\* ... and looks at the queue afterwards.
CheckQueue(t) ==
    /\ pc[t] = "check"
    /\ Goto(t, IF queue[box[t]] # <<>> THEN "register" ELSE "empty")
    /\ UNCHANGED <<commands, stopped, mailboxDictionary, queue, isHandling, box,
                   processedCount, value, local, result>>

\* Mutant: nobody is told that the mailbox is empty.
EmptyUnreported(t) ==
    /\ pc[t] = "empty"
    /\ Return(t)
    /\ UNCHANGED <<commands, stopped, mailboxDictionary, queue, isHandling, processedCount,
                   value, local, result>>

OnMessageEmpty(t) ==
    /\ pc[t] = "empty"
    /\ commands' = Append(commands, CompleteMessageCommand(box[t]))
    /\ Return(t)
    /\ UNCHANGED <<stopped, mailboxDictionary, queue, isHandling, processedCount,
                   value, local, result>>

-----------------------------------------------------------------------------

ProcessorStep == ExecuteProcessCommand \/ CompleteProcessMessage

Outcomes == {"value", "exception"}

RunStep(t) ==
    \/ ScheduleMailbox(t) \/ Dequeue(t) \/ Leave(t)
    \/ \E outcome \in Outcomes : RunSynchronously(t, outcome)
    \/ ExitHandlingMessage(t) \/ CheckQueue(t) \/ OnMessageEmpty(t)

TaskStep(m) == TaskRead(m) \/ \E outcome \in Outcomes : TaskEnd(m, outcome)

\* Everything posted has been run and every command executed.
Quiescent ==
    /\ commands = <<>>
    /\ \A m \in Messages : result[m] # "none" /\ pc[m] = "done"
    /\ pc[Processor] = "idle"

Next ==
    \/ \E m \in Messages : Process(m) \/ TaskStep(m)
    \/ Stop
    \/ ProcessorStep
    \/ \E t \in Threads : RunStep(t)

Spec == Init /\ [][Next]_vars

\* Threads are scheduled and tasks come to an end; nobody has to post or stop.
Fairness ==
    /\ WF_vars(ProcessorStep)
    /\ \A t \in Threads : WF_vars(RunStep(t))
    /\ \A m \in Messages : WF_vars(TaskStep(m))

FairSpec == Spec /\ Fairness

-----------------------------------------------------------------------------
(* Properties *)

Running(b) == {t \in Threads : box[t] = b /\ pc[t] \in {"loop", "read", "write", "exit"}}

\* The flag is a lock: at most one thread runs a mailbox, and exactly when the
\* flag is up, although the exit of one run overlaps the start of the next.
OneRunner ==
    \A b \in Mailboxes :
        /\ \A t, u \in Running(b) : t = u
        /\ isHandling[b] <=> Running(b) # {}

\* No lost wake-up: a mailbox with waiting messages has a thread that will take
\* them or try to, although the flag goes down before the queue is looked at.
NoLostWakeup ==
    \A b \in Mailboxes :
        queue[b] # <<>> =>
            \/ isHandling[b]
            \/ \E t \in Threads : box[t] = b /\ pc[t] \in {"schedule", "check", "register"}

Places(m) ==
    {<<"command", i>> : i \in {j \in DOMAIN commands : commands[j].message = m}}
    \cup (UNION {{<<b, i>> : i \in {j \in DOMAIN queue[b] : queue[b][j] = m}} : b \in Mailboxes})
    \cup (IF pc[m] # "idle" THEN {<<"started", 0>>} ELSE {})

\* Each message posted is in exactly one place (a command not yet executed, the
\* queue of one mailbox, or started), so it runs once and is never forgotten,
\* although its mailbox may be dropped from the dictionary meanwhile.
ExactlyOnce ==
    \A m \in Messages :
        /\ Places(m) # {} <=> result[m] # "none"
        /\ \A p, q \in Places(m) : p = q

\* No leak: once everything is done the dictionary holds no mailbox.
NoMailboxLeak == Quiescent => \A k \in Keys : mailboxDictionary[k] = None

\* Work posted under one key never loses an update: with the tasks of a key run
\* one at a time, the data shows every one of them that succeeded.
NoLostUpdate ==
    Quiescent => \A k \in Keys :
        value[k] = Cardinality({m \in Messages : Key[m] = k /\ result[m] = "value"})

\* Whatever is posted is run, unless the processor is stopped.
EventuallyRun ==
    \A m \in Messages :
        result[m] = "posted" ~> (result[m] \in {"value", "exception"} \/ stopped)
=============================================================================
