--------------------------- MODULE CommandReplies ---------------------------
(***************************************************************************)
(* How a caller of the command bus gets the reply to its command:          *)
(*                                                                         *)
(*   iFramework/Command/Impl/CommandBus.cs   _commandStateQueues           *)
(*   iFramework/Message/Impl/MessageSender.cs, iFramework/Message/MessageState.cs *)
(*                                                                         *)
(* A call that wants a reply has two tasks: one for the sending, which     *)
(* SendAsync waits for, and one for the reply, which the caller takes from *)
(* the response.  Its state is found by the id of the command, or by the   *)
(* id of the saga it starts, when a reply comes.  Callers, timers,         *)
(* cancellations, the sending thread and the handlers of replies run       *)
(* concurrently: every reply has a key of its own, hence a mailbox of its  *)
(* own.                                                                    *)
(*                                                                         *)
(* The bus lives as long as the process, and so do the tasks: there is no  *)
(* restart here.  What the processor of the command does                   *)
(* (iFramework/Command/Impl/CommandProcessor.cs, modelled in               *)
(* CommandPipeline) appears as its reply: several when the command is      *)
(* delivered more than once, none when the reply is lost with a crash, or  *)
(* when no handler finishes the saga.                                      *)
(***************************************************************************)
EXTENDS Naturals

CONSTANTS Calls,       \* calls of SendAsync and StartSaga
          Command,     \* the id of the command each call sends
          Saga,        \* the id of the saga it starts, or NoSaga
          NoSaga,
          NeedReply,   \* calls of SendAsync with needReply
          MaxReplies   \* bound: replies to the command of each call

Ids == {Command[c] : c \in Calls} \cup ({Saga[c] : c \in Calls} \ {NoSaga})
NoCall == "no call"

ASSUME CallsAssumption == NoCall \notin Calls /\ NeedReply \subseteq Calls
ASSUME MaxRepliesAssumption == MaxReplies \in [Calls -> Nat]
ASSUME IdsAssumption ==
    /\ DOMAIN Command = Calls /\ DOMAIN Saga = Calls
    /\ \A c \in Calls : Command[c] # NoSaga

VARIABLES
    pc,            \* each call's way to the broker
    sendTask,      \* SendTaskCompletionSource
    replyTask,     \* ReplyTaskCompletionSource
    sendCanceled,  \* calls whose sendCancellationToken is cancelled
    replyCancel,   \* how far OnReplyCancel is
    table,         \* _commandStateQueues
    stage,         \* each reply: how far ConsumeReply is
    found          \* and the state it has found

tasks == <<sendTask, replyTask>>
replies == <<stage, found>>
vars == <<pc, tasks, sendCanceled, replyCancel, table, replies>>

Replies == UNION {{c} \X (1..MaxReplies[c]) : c \in Calls}
Answers == {"result", "exception"}
Waits(c) == c \in NeedReply \/ Saga[c] # NoSaga

\* The key under which SendAsync and StartSaga keep the state.
Key(c) == IF Saga[c] # NoSaga THEN Saga[c] ELSE Command[c]

\* A saga's reply carries the saga, any other reply the id of the command.
CorrelationId(r) == IF Saga[r[1]] # NoSaga THEN Saga[r[1]] ELSE Command[r[1]]

TypeOK ==
    /\ pc \in [Calls -> {"new", "register", "enqueue", "thrown", "queued", "accepted", "sent"}]
    /\ sendTask \in [Calls -> {"none", "pending", "response", "timeout", "canceled"}]
    /\ replyTask \in [Calls -> {"none", "pending", "canceled"} \cup Answers]
    /\ sendCanceled \subseteq Calls
    /\ replyCancel \in [Calls -> {"no", "remove", "done"}]
    /\ table \in [Ids -> Calls \cup {NoCall}]
    /\ stage \in [Replies -> {"none", "arrived", "found", "removed", "done"}]
    /\ found \in [Replies -> Calls \cup {NoCall}]
    /\ \A r \in Replies : stage[r] \in {"found", "removed"} => found[r] # NoCall

Init ==
    /\ pc = [c \in Calls |-> "new"]
    /\ sendTask = [c \in Calls |-> "none"]
    /\ replyTask = [c \in Calls |-> "none"]
    /\ sendCanceled = {}
    /\ replyCancel = [c \in Calls |-> "no"]
    /\ table = [id \in Ids |-> NoCall]
    /\ stage = [r \in Replies |-> "none"]
    /\ found = [r \in Replies |-> NoCall]

-----------------------------------------------------------------------------
(* The caller *)

\* TrySetResult, TrySetException and TrySetCanceled: the first one wins.
TrySet(task, c, outcome) == IF task[c] = "pending" THEN [task EXCEPT ![c] = outcome] ELSE task

BuildCommandState(c) ==
    /\ pc[c] = "new"
    /\ pc' = [pc EXCEPT ![c] = IF Waits(c) THEN "register" ELSE "enqueue"]
    /\ sendTask' = [sendTask EXCEPT ![c] = "pending"]
    /\ replyTask' = IF Waits(c) THEN [replyTask EXCEPT ![c] = "pending"] ELSE replyTask
    /\ UNCHANGED <<sendCanceled, replyCancel, table, replies>>

\* Mutant: a saga is registered under the id of its first command.
RegisterCommand(c) ==
    /\ pc[c] = "register"
    /\ pc' = [pc EXCEPT ![c] = "enqueue"]
    /\ table' = IF table[Command[c]] = NoCall THEN [table EXCEPT ![Command[c]] = c] ELSE table
    /\ UNCHANGED <<tasks, sendCanceled, replyCancel, replies>>

\* GetOrAdd: the state that is there stays.
Register(c) ==
    /\ pc[c] = "register"
    /\ pc' = [pc EXCEPT ![c] = "enqueue"]
    /\ table' = IF table[Key(c)] = NoCall THEN [table EXCEPT ![Key(c)] = c] ELSE table
    /\ UNCHANGED <<tasks, sendCanceled, replyCancel, replies>>

\* MessageStateQueue.Add throws if the token is cancelled; the state stays registered.
Enqueue(c) ==
    /\ pc[c] = "enqueue"
    /\ pc' = [pc EXCEPT ![c] = IF c \in sendCanceled THEN "thrown" ELSE "queued"]
    /\ UNCHANGED <<tasks, sendCanceled, replyCancel, table, replies>>

-----------------------------------------------------------------------------
(* The sending thread: a message that is queued is sent, whatever became of the task *)

SendMessageState(c) ==
    /\ pc[c] = "queued"
    /\ pc' = [pc EXCEPT ![c] = "accepted"]
    /\ UNCHANGED <<tasks, sendCanceled, replyCancel, table, replies>>

\* Mutant: the response of a call that waits is left to its reply.
CompleteUnlessWaiting(c) ==
    /\ pc[c] = "accepted"
    /\ pc' = [pc EXCEPT ![c] = "sent"]
    /\ sendTask' = IF Waits(c) THEN sendTask ELSE TrySet(sendTask, c, "response")
    /\ UNCHANGED <<replyTask, sendCanceled, replyCancel, table, replies>>

CompleteSendingMessage(c) ==
    /\ pc[c] = "accepted"
    /\ pc' = [pc EXCEPT ![c] = "sent"]
    /\ sendTask' = TrySet(sendTask, c, "response")
    /\ UNCHANGED <<replyTask, sendCanceled, replyCancel, table, replies>>

-----------------------------------------------------------------------------
(* Timer and cancellation *)

\* The state stays in the table, the message in the queue.
OnSendTimeout(c) ==
    /\ sendTask[c] = "pending"
    /\ sendTask' = [sendTask EXCEPT ![c] = "timeout"]
    /\ UNCHANGED <<pc, replyTask, sendCanceled, replyCancel, table, replies>>

OnSendCancel(c) ==
    /\ pc[c] # "new" /\ c \notin sendCanceled
    /\ sendCanceled' = sendCanceled \cup {c}
    /\ sendTask' = TrySet(sendTask, c, "canceled")
    /\ UNCHANGED <<pc, replyTask, replyCancel, table, replies>>

OnReplyCancel(c) ==
    /\ pc[c] # "new" /\ Waits(c) /\ replyCancel[c] = "no"
    /\ replyCancel' = [replyCancel EXCEPT ![c] = "remove"]
    /\ replyTask' = TrySet(replyTask, c, "canceled")
    /\ UNCHANGED <<pc, sendTask, sendCanceled, table, replies>>

\* The state is looked for under the id of the command, also that of a saga.
RemoveCanceled(c) ==
    /\ replyCancel[c] = "remove"
    /\ replyCancel' = [replyCancel EXCEPT ![c] = "done"]
    /\ table' = [table EXCEPT ![Command[c]] = NoCall]
    /\ UNCHANGED <<pc, tasks, sendCanceled, replies>>

-----------------------------------------------------------------------------
(* Replies *)

\* The processor of the command replies: to a call that needs a reply with the result,
\* the stored result or the exception, to a saga when a handler finishes it.  It may do
\* so before the sender knows that the command is sent, and it need not do so at all.
Reply(r) ==
    /\ pc[r[1]] \in {"accepted", "sent"} /\ Waits(r[1])
    /\ stage[r] = "none"
    /\ stage' = [stage EXCEPT ![r] = "arrived"]
    /\ UNCHANGED <<pc, tasks, sendCanceled, replyCancel, table, found>>

\* Mutant: a reply to a command that is still being sent is passed over.
LookUpSent(r) ==
    /\ stage[r] = "arrived"
    /\ LET state == IF pc[r[1]] = "sent" THEN table[CorrelationId(r)] ELSE NoCall
       IN /\ found' = [found EXCEPT ![r] = state]
          /\ stage' = [stage EXCEPT ![r] = IF state = NoCall THEN "done" ELSE "found"]
    /\ UNCHANGED <<pc, tasks, sendCanceled, replyCancel, table>>

\* ConsumeReply looks for the state, removes what is there now, and completes the task
\* of the state it has found, with a result or, if that is the reply, an exception.
LookUp(r) ==
    /\ stage[r] = "arrived"
    /\ LET state == table[CorrelationId(r)]
       IN /\ found' = [found EXCEPT ![r] = state]
          /\ stage' = [stage EXCEPT ![r] = IF state = NoCall THEN "done" ELSE "found"]
    /\ UNCHANGED <<pc, tasks, sendCanceled, replyCancel, table>>

\* Mutant: the state is left in the table.
RemoveNothing(r) ==
    /\ stage[r] = "found"
    /\ stage' = [stage EXCEPT ![r] = "removed"]
    /\ UNCHANGED <<pc, tasks, sendCanceled, replyCancel, table, found>>

Remove(r) ==
    /\ stage[r] = "found"
    /\ stage' = [stage EXCEPT ![r] = "removed"]
    /\ table' = [table EXCEPT ![CorrelationId(r)] = NoCall]
    /\ UNCHANGED <<pc, tasks, sendCanceled, replyCancel, found>>

\* Mutant: an exception is not passed on.
CompleteResult(r) ==
    /\ stage[r] = "removed"
    /\ stage' = [stage EXCEPT ![r] = "done"]
    /\ replyTask' \in {replyTask, TrySet(replyTask, found[r], "result")}
    /\ UNCHANGED <<pc, sendTask, sendCanceled, replyCancel, table, found>>

CompleteReply(r) ==
    /\ stage[r] = "removed"
    /\ stage' = [stage EXCEPT ![r] = "done"]
    /\ \E answer \in Answers : replyTask' = TrySet(replyTask, found[r], answer)
    /\ UNCHANGED <<pc, sendTask, sendCanceled, replyCancel, table, found>>

ConsumeReply(r) == LookUp(r) \/ Remove(r) \/ CompleteReply(r)

-----------------------------------------------------------------------------

Send(c) ==
    \/ BuildCommandState(c) \/ Register(c) \/ Enqueue(c)
    \/ SendMessageState(c) \/ CompleteSendingMessage(c)

Interrupt(c) ==
    \/ OnSendTimeout(c) \/ OnSendCancel(c)
    \/ OnReplyCancel(c) \/ RemoveCanceled(c)

Next ==
    \/ \E c \in Calls : Send(c) \/ Interrupt(c)
    \/ \E r \in Replies : Reply(r) \/ ConsumeReply(r)

Spec == Init /\ [][Next]_vars

\* The threads run, and the producer retries until the broker has the message.  Nothing
\* is assumed of the processor: it loses the replies of a crashed process.
FairSpec ==
    /\ Spec
    /\ \A c \in Calls : WF_vars(Send(c))
    /\ \A r \in Replies : WF_vars(ConsumeReply(r))

-----------------------------------------------------------------------------
(* Properties *)

\* No two calls share an id: nobody sends a command again, as one may well do after
\* a timeout, or starts a saga under an id that is in use.
DistinctIds ==
    \A c, d \in Calls : c # d => Key(c) # Key(d) /\ Key(c) # Command[d]

Holds(r, c) == stage[r] \in {"found", "removed"} /\ found[r] = c

\* "When reply comes, make replyTaskCompletionSouce completed": once ConsumeReply is
\* through with a reply, the task of the call it answers is completed, or another
\* handler is about to complete it.
AnswerDelivered ==
    \A r \in Replies :
        stage[r] = "done" =>
            replyTask[r[1]] # "pending" \/ \E s \in Replies : Holds(s, r[1])

\* A call that waits can be found by its reply, or has been found already, although
\* timers, cancellations and duplicated replies remove states at any moment.
WaitersFound ==
    \A c \in Calls :
        replyTask[c] = "pending" /\ pc[c] # "register" =>
            table[Key(c)] = c \/ \E r \in Replies : Holds(r, c)

\* No call that has its reply stays in the table, however many replies race for it and
\* whoever shares its id.  One that was cancelled may: a saga is not found by
\* OnReplyCancel, and a call that is cancelled before it registers is registered all the
\* same.
NoStaleState ==
    \A id \in Ids : table[id] # NoCall => replyTask[table[id]] \in {"pending", "canceled"}

\* A reply that reaches the bus completes the task of its call, unless that is
\* cancelled, also when the sending has timed out or was cancelled, when the reply is
\* faster than the sender, and when two replies take the state from each other.
Answered ==
    \A r \in Replies : stage[r] = "arrived" ~> replyTask[r[1]] # "pending"

\* SendAsync returns, with a response or an exception.
CallsReturn ==
    \A c \in Calls : sendTask[c] = "pending" ~> sendTask[c] # "pending"
=============================================================================
