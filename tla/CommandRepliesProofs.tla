------------------------ MODULE CommandRepliesProofs ------------------------
(***************************************************************************)
(* Proofs about CommandReplies: replies find their callers, for every set  *)
(* of calls that share no id and any number of replies.                    *)
(***************************************************************************)
EXTENDS CommandReplies, TLAPS

\* The ids of calls are keys of the table, and a reply correlates to the key its call
\* is kept under.
LEMMA KeyFacts ==
    /\ \A c \in Calls : Command[c] \in Ids /\ Key(c) \in Ids
    /\ \A r \in Replies : r[1] \in Calls /\ CorrelationId(r) = Key(r[1]) /\ CorrelationId(r) \in Ids
<1>1. \A c \in Calls : Command[c] \in Ids /\ Key(c) \in Ids
    BY DEF Ids, Key
<1>2. \A r \in Replies : r[1] \in Calls
    BY DEF Replies
<1> QED
    BY <1>1, <1>2 DEF Key, CorrelationId

LEMMA TypeInit == Init => TypeOK
BY DEF Init, TypeOK

LEMMA TypeStep == TypeOK /\ [Next]_vars => TypeOK'
<1> SUFFICES ASSUME TypeOK, [Next]_vars PROVE TypeOK'
    OBVIOUS
<1> USE KeyFacts
<1>1. ASSUME NEW c \in Calls, Send(c) PROVE TypeOK'
    <2>1. CASE BuildCommandState(c) BY <2>1 DEF TypeOK, BuildCommandState, replies
    <2>2. CASE Register(c) BY <2>2 DEF TypeOK, Register, tasks, replies
    <2>3. CASE Enqueue(c) BY <2>3 DEF TypeOK, Enqueue, tasks, replies
    <2>4. CASE SendMessageState(c) BY <2>4 DEF TypeOK, SendMessageState, tasks, replies
    <2>5. CASE CompleteSendingMessage(c) BY <2>5 DEF TypeOK, CompleteSendingMessage, TrySet, replies
    <2> QED BY <1>1, <2>1, <2>2, <2>3, <2>4, <2>5 DEF Send
<1>2. ASSUME NEW c \in Calls, Interrupt(c) PROVE TypeOK'
    <2>1. CASE OnSendTimeout(c) BY <2>1 DEF TypeOK, OnSendTimeout, replies
    <2>2. CASE OnSendCancel(c) BY <2>2 DEF TypeOK, OnSendCancel, TrySet, replies
    <2>3. CASE OnReplyCancel(c) BY <2>3 DEF TypeOK, OnReplyCancel, TrySet, replies
    <2>4. CASE RemoveCanceled(c) BY <2>4 DEF TypeOK, RemoveCanceled, tasks, replies
    <2> QED BY <1>2, <2>1, <2>2, <2>3, <2>4 DEF Interrupt
<1>3. ASSUME NEW r \in Replies, Reply(r) PROVE TypeOK'
    BY <1>3 DEF TypeOK, Reply, tasks
<1>4. ASSUME NEW r \in Replies, ConsumeReply(r) PROVE TypeOK'
    <2>1. CASE LookUp(r) BY <2>1 DEF TypeOK, LookUp, tasks
    <2>2. CASE Remove(r) BY <2>2 DEF TypeOK, Remove, tasks
    <2>3. CASE CompleteReply(r) BY <2>3 DEF TypeOK, CompleteReply, TrySet, Answers
    <2> QED BY <1>4, <2>1, <2>2, <2>3 DEF ConsumeReply
<1>5. CASE UNCHANGED vars
    BY <1>5 DEF TypeOK, vars, tasks, replies
<1> QED
    BY <1>1, <1>2, <1>3, <1>4, <1>5 DEF Next

\* Every variable keeps its type, and no handler of a reply goes on without a state.
THEOREM TypeCorrect == Spec => []TypeOK
BY TypeInit, TypeStep, PTL DEF Spec

-----------------------------------------------------------------------------

\* What makes the properties inductive: a call is kept under its own key, a handler
\* holds the call its reply answers, and a reply comes after its call registered.
Registered(c) == pc[c] \notin {"new", "register"}
RepliesInv ==
    /\ \A id \in Ids : table[id] # NoCall => Key(table[id]) = id
    /\ \A r \in Replies : found[r] # NoCall => found[r] = r[1]
    /\ \A r \in Replies : stage[r] # "none" => Registered(r[1])
    /\ \A c \in Calls : pc[c] = "new" => replyTask[c] = "none" /\ replyCancel[c] = "no"
    /\ \A c \in Calls : replyTask[c] # "none" => Waits(c)
    /\ \A c \in Calls : replyCancel[c] # "no" => replyTask[c] # "pending"
    /\ WaitersFound
    /\ AnswerDelivered

LEMMA RepliesInit == Init => RepliesInv
BY CallsAssumption, KeyFacts DEF Init, RepliesInv, WaitersFound, AnswerDelivered

LEMMA RepliesStep ==
    ASSUME DistinctIds, TypeOK, RepliesInv, [Next]_vars PROVE RepliesInv'
<1> USE KeyFacts, CallsAssumption
<1>k. ASSUME NEW c \in Calls, NEW d \in Calls, c # d PROVE Key(c) # Key(d) /\ Key(c) # Command[d]
    BY <1>k DEF DistinctIds
<1>1. ASSUME NEW c \in Calls, Send(c) PROVE RepliesInv'
    <2>1. CASE BuildCommandState(c)
        BY <2>1 DEF TypeOK, RepliesInv, BuildCommandState, Registered, WaitersFound, AnswerDelivered, Holds, replies
    <2>2. CASE Register(c)
        <3>a. table[Key(c)] \in {NoCall, c}
            BY <1>k DEF RepliesInv, TypeOK
        <3>1. table' = [table EXCEPT ![Key(c)] = c]
            <4>1. CASE table[Key(c)] = NoCall
                BY <2>2, <4>1 DEF Register
            <4>2. CASE table[Key(c)] = c
                <5>1. table' = table
                    BY <2>2, <4>2 DEF Register
                <5> QED
                    BY <5>1, <4>2 DEF TypeOK
            <4> QED
                BY <3>a, <4>1, <4>2
        <3>2. \A id \in Ids : table'[id] # NoCall => Key(table'[id]) = id
            BY <3>1 DEF RepliesInv, TypeOK
        <3>3. WaitersFound'
            BY <2>2, <3>1, <1>k DEF RepliesInv, TypeOK, Register, WaitersFound, Holds, tasks, replies
        <3> QED
            BY <2>2, <3>2, <3>3 DEF TypeOK, RepliesInv, Register, Registered, AnswerDelivered, Holds, tasks, replies
    <2>3. CASE Enqueue(c)
        BY <2>3 DEF TypeOK, RepliesInv, Enqueue, Registered, WaitersFound, AnswerDelivered, Holds, tasks, replies
    <2>4. CASE SendMessageState(c)
        BY <2>4 DEF TypeOK, RepliesInv, SendMessageState, Registered, WaitersFound, AnswerDelivered, Holds, tasks, replies
    <2>5. CASE CompleteSendingMessage(c)
        BY <2>5 DEF TypeOK, RepliesInv, CompleteSendingMessage, Registered, WaitersFound, AnswerDelivered, Holds, replies
    <2> QED BY <1>1, <2>1, <2>2, <2>3, <2>4, <2>5 DEF Send
<1>2. ASSUME NEW c \in Calls, Interrupt(c) PROVE RepliesInv'
    <2>1. CASE OnSendTimeout(c)
        BY <2>1 DEF RepliesInv, OnSendTimeout, Registered, WaitersFound, AnswerDelivered, Holds, replies
    <2>2. CASE OnSendCancel(c)
        BY <2>2 DEF RepliesInv, OnSendCancel, Registered, WaitersFound, AnswerDelivered, Holds, replies
    <2>3. CASE OnReplyCancel(c)
        BY <2>3 DEF TypeOK, RepliesInv, OnReplyCancel, TrySet, Registered, WaitersFound, AnswerDelivered, Holds, replies
    <2>4. CASE RemoveCanceled(c)
        <3>1. WaitersFound'
            BY <2>4, <1>k DEF RepliesInv, TypeOK, RemoveCanceled, WaitersFound, Holds, tasks, replies
        <3> QED
            BY <2>4, <3>1 DEF TypeOK, RepliesInv, RemoveCanceled, Registered, AnswerDelivered, Holds, tasks, replies
    <2> QED BY <1>2, <2>1, <2>2, <2>3, <2>4 DEF Interrupt
<1>3. ASSUME NEW r \in Replies, Reply(r) PROVE RepliesInv'
    BY <1>3 DEF TypeOK, RepliesInv, Reply, Registered, WaitersFound, AnswerDelivered, Holds, tasks
<1>4. ASSUME NEW r \in Replies, ConsumeReply(r) PROVE RepliesInv'
    <2>1. CASE LookUp(r)
        <3>1. \A s \in Replies : found'[s] # NoCall => found'[s] = s[1]
            BY <2>1, <1>k DEF RepliesInv, TypeOK, LookUp
        <3>2. WaitersFound'
            BY <2>1 DEF RepliesInv, TypeOK, LookUp, WaitersFound, Holds, tasks
        <3>3. AnswerDelivered'
            BY <2>1 DEF RepliesInv, TypeOK, LookUp, WaitersFound, AnswerDelivered, Holds, Registered, tasks
        <3> QED
            BY <2>1, <3>1, <3>2, <3>3 DEF TypeOK, RepliesInv, LookUp, Registered, tasks
    <2>2. CASE Remove(r)
        <3>1. found[r] = r[1]
            BY <2>2 DEF RepliesInv, TypeOK, Remove
        <3>2. WaitersFound'
            BY <2>2, <3>1, <1>k DEF RepliesInv, TypeOK, Remove, WaitersFound, Holds, tasks
        <3>3. AnswerDelivered'
            BY <2>2 DEF RepliesInv, TypeOK, Remove, AnswerDelivered, Holds, tasks
        <3> QED
            BY <2>2, <3>2, <3>3 DEF TypeOK, RepliesInv, Remove, Registered, tasks
    <2>3. CASE CompleteReply(r)
        <3>1. found[r] = r[1] /\ replyTask'[r[1]] # "pending"
            BY <2>3 DEF RepliesInv, TypeOK, CompleteReply, TrySet, Answers
        <3>2. /\ \A c \in Calls : replyTask'[c] = "pending" => replyTask[c] = "pending" /\ c # r[1]
              /\ \A c \in Calls : replyTask[c] \in {"none", "canceled"} => replyTask'[c] = replyTask[c]
              /\ \A c \in Calls : replyTask[c] = "none" <=> replyTask'[c] = "none"
            BY <2>3, <3>1 DEF TypeOK, CompleteReply, TrySet, Answers
        <3>3. WaitersFound'
            BY <2>3, <3>1, <3>2 DEF RepliesInv, TypeOK, CompleteReply, WaitersFound, Holds
        <3>4. AnswerDelivered'
            BY <2>3, <3>1, <3>2 DEF RepliesInv, TypeOK, CompleteReply, AnswerDelivered, Holds
        <3> QED
            BY <2>3, <3>2, <3>3, <3>4 DEF TypeOK, RepliesInv, CompleteReply, Registered
    <2> QED BY <1>4, <2>1, <2>2, <2>3 DEF ConsumeReply
<1>5. CASE UNCHANGED vars
    BY <1>5 DEF RepliesInv, Registered, WaitersFound, AnswerDelivered, Holds, vars, tasks, replies
<1> QED
    BY <1>1, <1>2, <1>3, <1>4, <1>5 DEF Next

\* A call that waits is found by its reply as long as no two calls share an id, for
\* any number of calls and replies and whatever times out or is cancelled when.
THEOREM WaitersFoundTheorem == ASSUME DistinctIds PROVE Spec => []WaitersFound
<1>1. TypeOK /\ RepliesInv /\ [Next]_vars => TypeOK' /\ RepliesInv'
    BY TypeStep, RepliesStep
<1>2. RepliesInv => WaitersFound
    BY DEF RepliesInv
<1> QED
    BY TypeInit, RepliesInit, <1>1, <1>2, PTL DEF Spec

\* When a reply comes, the task of its caller is completed, under the same condition.
THEOREM AnswerDeliveredTheorem == ASSUME DistinctIds PROVE Spec => []AnswerDelivered
<1>1. TypeOK /\ RepliesInv /\ [Next]_vars => TypeOK' /\ RepliesInv'
    BY TypeStep, RepliesStep
<1>2. RepliesInv => AnswerDelivered
    BY DEF RepliesInv
<1> QED
    BY TypeInit, RepliesInit, <1>1, <1>2, PTL DEF Spec

-----------------------------------------------------------------------------

\* Why no entry outlives its reply, for which calls may share ids: an entry is a call
\* that has registered, under its own key, a handler finds a state under the key of
\* that state, and what a handler has removed or answered never comes back.
StaleInv ==
    /\ \A id \in Ids : table[id] # NoCall => Key(table[id]) = id /\ Registered(table[id])
    /\ \A r \in Replies : found[r] # NoCall =>
          /\ Key(found[r]) = CorrelationId(r) /\ Registered(found[r])
          /\ stage[r] \in {"removed", "done"} => table[CorrelationId(r)] # found[r]
    /\ \A c \in Calls :
          /\ pc[c] = "new" <=> sendTask[c] = "none"
          /\ pc[c] = "register" => Waits(c) /\ replyTask[c] \in {"pending", "canceled"}
          /\ replyTask[c] \in Answers => Registered(c) /\ table[Key(c)] # c
    /\ NoStaleState

LEMMA StaleInit == Init => StaleInv
BY CallsAssumption, KeyFacts DEF Init, StaleInv, NoStaleState, Answers

LEMMA StaleStep == ASSUME TypeOK, StaleInv, [Next]_vars PROVE StaleInv'
<1> USE KeyFacts, CallsAssumption
<1>1. ASSUME NEW c \in Calls, Send(c) PROVE StaleInv'
    <2>1. CASE BuildCommandState(c)
        BY <2>1 DEF TypeOK, StaleInv, BuildCommandState, Registered, NoStaleState, Answers, replies
    <2>2. CASE Register(c)
        BY <2>2 DEF TypeOK, StaleInv, Register, Registered, NoStaleState, Answers, tasks, replies
    <2>3. CASE Enqueue(c)
        BY <2>3 DEF TypeOK, StaleInv, Enqueue, Registered, NoStaleState, Answers, tasks, replies
    <2>4. CASE SendMessageState(c)
        BY <2>4 DEF TypeOK, StaleInv, SendMessageState, Registered, NoStaleState, Answers, tasks, replies
    <2>5. CASE CompleteSendingMessage(c)
        BY <2>5 DEF TypeOK, StaleInv, CompleteSendingMessage, TrySet, Registered, NoStaleState, Answers, replies
    <2> QED BY <1>1, <2>1, <2>2, <2>3, <2>4, <2>5 DEF Send
<1>2. ASSUME NEW c \in Calls, Interrupt(c) PROVE StaleInv'
    <2>1. CASE OnSendTimeout(c)
        BY <2>1 DEF TypeOK, StaleInv, OnSendTimeout, Registered, NoStaleState, Answers, replies
    <2>2. CASE OnSendCancel(c)
        BY <2>2 DEF TypeOK, StaleInv, OnSendCancel, TrySet, Registered, NoStaleState, Answers, replies
    <2>3. CASE OnReplyCancel(c)
        BY <2>3 DEF TypeOK, StaleInv, OnReplyCancel, TrySet, Registered, NoStaleState, Answers, replies
    <2>4. CASE RemoveCanceled(c)
        BY <2>4 DEF TypeOK, StaleInv, RemoveCanceled, Registered, NoStaleState, Answers, tasks, replies
    <2> QED BY <1>2, <2>1, <2>2, <2>3, <2>4 DEF Interrupt
<1>3. ASSUME NEW r \in Replies, Reply(r) PROVE StaleInv'
    BY <1>3 DEF TypeOK, StaleInv, Reply, Registered, NoStaleState, Answers, tasks
<1>4. ASSUME NEW r \in Replies, ConsumeReply(r) PROVE StaleInv'
    <2>1. CASE LookUp(r)
        BY <2>1 DEF TypeOK, StaleInv, LookUp, Registered, NoStaleState, Answers, tasks
    <2>2. CASE Remove(r)
        BY <2>2 DEF TypeOK, StaleInv, Remove, Registered, NoStaleState, Answers, tasks
    <2>3. CASE CompleteReply(r)
        <3>1. found[r] \in Calls /\ table[Key(found[r])] # found[r] /\ Registered(found[r])
            BY <2>3 DEF TypeOK, StaleInv, CompleteReply
        <3>2. \A id \in Ids : table[id] # NoCall => table[id] # found[r]
            BY <3>1 DEF StaleInv
        <3>3. \A c \in Calls : c # found[r] => replyTask'[c] = replyTask[c]
            BY <2>3, <3>1 DEF TypeOK, CompleteReply, TrySet
        <3>4. NoStaleState'
            BY <2>3, <3>2, <3>3 DEF TypeOK, StaleInv, NoStaleState, CompleteReply
        <3> QED
            BY <2>3, <3>1, <3>3, <3>4 DEF TypeOK, StaleInv, CompleteReply, Registered
    <2> QED BY <1>4, <2>1, <2>2, <2>3 DEF ConsumeReply
<1>5. CASE UNCHANGED vars
    BY <1>5 DEF StaleInv, Registered, NoStaleState, vars, tasks, replies
<1> QED
    BY <1>1, <1>2, <1>3, <1>4, <1>5 DEF Next

\* No call that has its reply stays in the table of states, for any number of calls,
\* whether or not they share ids, and of replies.
THEOREM NoStaleStateTheorem == Spec => []NoStaleState
<1>1. TypeOK /\ StaleInv /\ [Next]_vars => TypeOK' /\ StaleInv'
    BY TypeStep, StaleStep
<1>2. StaleInv => NoStaleState
    BY DEF StaleInv
<1> QED
    BY TypeInit, StaleInit, <1>1, <1>2, PTL DEF Spec
=============================================================================
