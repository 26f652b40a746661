----------------------- MODULE CommandPipelineProofs -----------------------
(***************************************************************************)
(* Proofs about CommandPipeline, for any commands, processes, deliveries,  *)
(* crashes and database failures.                                          *)
(***************************************************************************)
EXTENDS CommandPipeline, TLAPS

LEMMA MessageFields ==
    /\ \A k \in Kinds, a \in Attempts : Msg(k, a) \in Messages
    /\ \A k \in Kinds, a \in Attempts : Msg(k, a).kind = k /\ Msg(k, a).attempt = a
    /\ \A m \in Messages : m.kind \in Kinds /\ m.attempt \in Attempts
  BY DEF Msg, Messages

LEMMA AttemptFields ==
    ASSUME NEW a \in Attempts
    PROVE  a[1] \in Commands /\ a[2] \in Nat /\ Cmd(a) \in Commands
  BY LimitsAssumption DEF Attempts, Cmd

(* The messages of an attempt are messages, made by that attempt. *)
LEMMA SuccessMessages ==
    ASSUME NEW a \in Attempts, NEW s \in BOOLEAN
    PROVE  /\ MessagesOfSuccess(a, s) \subseteq Messages
           /\ \A m \in MessagesOfSuccess(a, s) : m.attempt = a /\ m.kind # "exceptionEvent"
           /\ Msg("event", a) \in MessagesOfSuccess(a, s)
           /\ Msg("anywayEvent", a) \in MessagesOfSuccess(a, s)
  <1>1. MessagesOfSuccess(a, s) \subseteq {Msg("event", a), Msg("anywayEvent", a),
                                           Msg("reply", a), Msg("sagaReply", a)}
    BY DEF MessagesOfSuccess, GetSagaReplyMessageState, If
  <1>2. {Msg("event", a), Msg("anywayEvent", a)} \subseteq MessagesOfSuccess(a, s)
    BY DEF MessagesOfSuccess
  <1>3. \A k \in {"event", "anywayEvent", "reply", "sagaReply"} :
            k \in Kinds /\ k # "exceptionEvent"
    BY DEF Kinds
  <1> QED
    BY <1>1, <1>2, <1>3, MessageFields

LEMMA FailureMessages ==
    ASSUME NEW a \in Attempts, NEW s \in BOOLEAN
    PROVE  /\ MessagesOfFailure(a, s) \subseteq Messages
           /\ \A m \in MessagesOfFailure(a, s) : m.attempt = a /\ m.kind # "event"
  <1>1. MessagesOfFailure(a, s) \subseteq {Msg("anywayEvent", a), Msg("failReply", a),
                                        Msg("exceptionEvent", a), Msg("failSagaReply", a)}
    BY DEF MessagesOfFailure, GetSagaReplyMessageState, If
  <1>2. \A k \in {"anywayEvent", "failReply", "exceptionEvent", "failSagaReply"} :
            k \in Kinds /\ k # "event"
    BY DEF Kinds
  <1> QED
    BY <1>1, <1>2, MessageFields

LEMMA RepeatMessages ==
    ASSUME NEW a \in Attempts
    PROVE  /\ RepeatedReply(a) \subseteq Messages
           /\ \A m \in RepeatedReply(a) : m.attempt = a /\ m.kind = "repeatReply"
  <1>1. RepeatedReply(a) \subseteq {Msg("repeatReply", a)}
    BY DEF RepeatedReply, If
  <1>2. "repeatReply" \in Kinds
    BY DEF Kinds
  <1> QED
    BY <1>1, <1>2, MessageFields

-----------------------------------------------------------------------------

LEMMA TypeInit == Init => TypeOK
  <1> SUFFICES ASSUME Init PROVE TypeOK
    OBVIOUS
  <1>1. alive \in [Processes -> BOOLEAN]
    BY DEF Init
  <1>2. deliveries \in [Commands -> 0..MaxDeliveries]
    BY LimitsAssumption DEF Init
  <1> QED
    BY <1>1, <1>2 DEF Init, TypeOK

LEMMA AttemptType ==
    ASSUME TypeOK, NEW a \in Attempts, AttemptStep(a)
    PROVE  TypeOK'
  <1>0. Cmd(a) \in Commands
    BY AttemptFields
  <1>1. CASE GetCommandHandledInfo(a)
    BY <1>1, RepeatMessages
       DEF GetCommandHandledInfo, Goto, DatabaseFails, TypeOK, database, memory
  <1>2. CASE HandleCommand(a)
    <2>1. PICK s \in BOOLEAN : Save(a, "handled", MessagesOfSuccess(a, s))
      BY <1>2 DEF HandleCommand
    <2> QED
      BY <1>0, <1>2, <2>1, SuccessMessages DEF HandleCommand, Save, Goto, TypeOK, memory
  <1>3. ASSUME NEW e \in Exceptions, HandleFails(a, e)
        PROVE  TypeOK'
    BY <1>3 DEF HandleFails, Goto, TypeOK, database, memory
  <1>4. CASE SaveFailedCommand(a)
    <2>1. PICK s \in BOOLEAN : Save(a, "failed", MessagesOfFailure(a, s))
      BY <1>4 DEF SaveFailedCommand
    <2> QED
      BY <1>0, <1>4, <2>1, FailureMessages DEF SaveFailedCommand, Save, Goto, TypeOK, memory
  <1>5. CASE SaveFailedThrows(a)
    BY <1>5 DEF SaveFailedThrows, DatabaseFails, Goto, TypeOK, database, memory
  <1>6. CASE SendAsync(a)
    BY <1>6 DEF SendAsync, Goto, TypeOK, database
  <1>7. CASE CommitOffset(a)
    BY <1>7 DEF CommitOffset, Goto, TypeOK, database, memory
  <1>8. CASE AcknowledgeOffset(a)
    BY <1>0, <1>8 DEF AcknowledgeOffset, Goto, TypeOK, database, memory
  <1> QED
    BY <1>1, <1>2, <1>3, <1>4, <1>5, <1>6, <1>7, <1>8 DEF AttemptStep

LEMMA NextAttempt ==
    ASSUME TypeOK, NEW c \in Commands, deliveries[c] < MaxDeliveries
    PROVE  /\ <<c, deliveries[c] + 1>> \in Attempts
           /\ deliveries[c] + 1 \in 0..MaxDeliveries
  BY LimitsAssumption DEF TypeOK, Attempts

LEMMA ProcessType ==
    ASSUME TypeOK, NEW p \in Processes,
           \/ Start(p) \/ Crash(p)
           \/ \E batch \in SUBSET toRemove[p] : RemoveMessages(p, batch)
           \/ \E c \in Commands : Receive(p, c)
           \/ \E m \in sendQueue[p] : SendMessageState(p, m)
    PROVE  TypeOK'
  <1>1. CASE Start(p)
    BY <1>1 DEF Start, GetAllUnSentMessages, TypeOK, attempts
  <1>2. CASE Crash(p)
    BY <1>2 DEF Crash, TypeOK, database
  <1>3. ASSUME NEW batch \in SUBSET toRemove[p], RemoveMessages(p, batch)
        PROVE  TypeOK'
    BY <1>3 DEF RemoveMessages, DatabaseFails, TypeOK, attempts
  <1>4. ASSUME NEW c \in Commands, Receive(p, c)
        PROVE  TypeOK'
    <2>1. <<c, deliveries[c] + 1>> \in Attempts /\ deliveries[c] + 1 \in 0..MaxDeliveries
      BY <1>4, NextAttempt DEF Receive
    <2> QED
      BY <1>4, <2>1 DEF Receive, Goto, TypeOK, database, memory
  <1>5. ASSUME NEW m \in sendQueue[p], SendMessageState(p, m)
        PROVE  TypeOK'
    BY <1>5 DEF SendMessageState, TypeOK, database, attempts
  <1> QED
    BY <1>1, <1>2, <1>3, <1>4, <1>5

LEMMA TypeStep == TypeOK /\ [Next]_vars => TypeOK'
  <1> SUFFICES ASSUME TypeOK, [Next]_vars PROVE TypeOK'
    OBVIOUS
  <1>1. CASE UNCHANGED vars
    BY <1>1 DEF vars, database, attempts, memory, TypeOK
  <1> QED
    BY <1>1, AttemptType, ProcessType DEF Next

(* Type correctness of the pipeline. *)
THEOREM TypeCorrect == Spec => []TypeOK
  BY TypeInit, TypeStep, PTL DEF Spec

-----------------------------------------------------------------------------
(* The inductive invariant *)

LEMMA PipelineInit == Init => PipelineInv
  <1> SUFFICES ASSUME Init PROVE PipelineInv
    OBVIOUS
  <1>1. EffectOnce /\ EffectsConcluded /\ EventsKept
    BY DEF Init, EffectOnce, EffectsConcluded, EventsKept
  <1>2. FutureIdle
    BY DEF Init, FutureIdle
  <1>3. MessagesAgree
    BY DEF Init, MessagesAgree, InSystem
  <1>4. RemovedPublished
    BY DEF Init, RemovedPublished
  <1> QED
    BY <1>1, <1>2, <1>3, <1>4 DEF PipelineInv

(* An attempt that is under way was delivered, and until it is past its        *)
(* transaction it has neither effects nor messages.                            *)
LEMMA Unconcluded ==
    ASSUME TypeOK, PipelineInv, NEW a \in Attempts, ~Concluded(a)
    PROVE  /\ a \notin effects
           /\ \A m \in Messages : InSystem(m) => m.attempt # a
  BY DEF PipelineInv, EffectsConcluded, MessagesAgree

(* A step of one attempt that adds no messages of another, adds no effects, and *)
(* does not undo the end of its transaction.                                    *)
LEMMA QuietStep ==
    ASSUME TypeOK, PipelineInv, NEW a \in Attempts, NEW label,
           pc[a] # "idle",
           pc' = [pc EXCEPT ![a] = label],
           Concluded(a) => label \in {"send", "finish", "done", "over"},
           \A b \in Attempts : owner'[b] \in {owner[b], NoOwner},
           UNCHANGED <<effects, published, deliveries, toRemove>>,
           UNCHANGED record \/ EffectOnce',
           unPublished \subseteq unPublished',
           \A m \in Messages : InSystem(m)' =>
               \/ InSystem(m)
               \/ /\ m.attempt = a /\ a \notin effects
                  /\ label \in {"send", "finish", "done", "over"}
                  /\ m.kind # "event"
    PROVE  PipelineInv'
  <1>1. \A b \in Attempts : b # a => pc'[b] = pc[b]
    BY DEF TypeOK
  <1>2. pc'[a] = label
    BY DEF TypeOK
  <1>3. \A b \in Attempts : Concluded(b) => Concluded(b)'
    BY <1>1, <1>2 DEF Concluded
  <1>4. EffectOnce'
    BY DEF PipelineInv, EffectOnce
  <1>5. FutureIdle'
    BY <1>1 DEF PipelineInv, FutureIdle
  <1>6. EffectsConcluded'
    BY <1>3 DEF PipelineInv, EffectsConcluded, TypeOK
  <1>7. MessagesAgree'
    <2> SUFFICES ASSUME NEW m \in Messages, InSystem(m)'
                 PROVE  /\ Concluded(m.attempt)'
                        /\ m.kind = "event" => m.attempt \in effects'
                        /\ m.kind = "exceptionEvent" => m.attempt \notin effects'
      BY DEF MessagesAgree
    <2>1. m.attempt \in Attempts
      BY MessageFields
    <2>2. CASE InSystem(m)
      BY <1>3, <2>1, <2>2 DEF PipelineInv, MessagesAgree
    <2>3. CASE ~InSystem(m)
      BY <1>2, <2>1, <2>3 DEF Concluded
    <2> QED
      BY <2>2, <2>3
  <1>8. RemovedPublished'
    BY DEF PipelineInv, RemovedPublished
  <1>9. EventsKept'
    BY DEF PipelineInv, EventsKept
  <1> QED
    BY <1>4, <1>5, <1>6, <1>7, <1>8, <1>9 DEF PipelineInv

LEMMA HandleInv ==
    ASSUME TypeOK, PipelineInv, NEW a \in Attempts, HandleCommand(a)
    PROVE  PipelineInv'
  <1>1. PICK s \in BOOLEAN : Save(a, "handled", MessagesOfSuccess(a, s))
    BY DEF HandleCommand
  <1> DEFINE M == MessagesOfSuccess(a, s)
  <1>2. /\ M \subseteq Messages
        /\ \A m \in M : m.attempt = a /\ m.kind # "exceptionEvent"
        /\ Msg("event", a) \in M /\ Msg("anywayEvent", a) \in M
    BY SuccessMessages
  <1> HIDE DEF M
  <1>3. /\ pc[a] = "handle" /\ ~IsHandled(Cmd(a))
        /\ record' = IF EnsureIdempotent THEN [record EXCEPT ![Cmd(a)] = "handled"] ELSE record
        /\ unPublished' = IF EnsureArrival THEN unPublished \cup M ELSE unPublished
        /\ toSend' = [toSend EXCEPT ![a] = M]
        /\ pc' = [pc EXCEPT ![a] = "send"]
        /\ effects' = effects \cup {a}
        /\ UNCHANGED <<deliveries, published, owner, toRemove, sendQueue>>
    BY <1>1 DEF HandleCommand, Save, Goto, memory, M
  <1>4. /\ \A b \in Attempts : b # a => pc'[b] = pc[b]
        /\ pc'[a] = "send"
    BY <1>3 DEF TypeOK
  <1>5. \A b \in Attempts : Concluded(b) \/ b = a => Concluded(b)'
    BY <1>3, <1>4 DEF Concluded
  <1>6. a \notin effects /\ \A m \in Messages : InSystem(m) => m.attempt # a
    <2>1. ~Concluded(a)
      BY <1>3 DEF Concluded
    <2> QED
      BY <2>1, Unconcluded
  <1>7. EffectOnce'
    <2> SUFFICES ASSUME EnsureIdempotent
                 PROVE  /\ \A b, c \in effects' : Cmd(b) = Cmd(c) => b = c
                        /\ \A b \in effects' : record'[Cmd(b)] = "handled"
      BY DEF EffectOnce
    <2>1. \A b \in effects : Cmd(b) # Cmd(a)
      BY <1>3 DEF IsHandled, PipelineInv, EffectOnce
    <2>2. \A b \in effects : Cmd(b) \in Commands
      BY AttemptFields DEF TypeOK
    <2>3. Cmd(a) \in Commands
      BY AttemptFields
    <2>4. \A b \in effects : record[Cmd(b)] = "handled" /\ (\A c \in effects : Cmd(b) = Cmd(c) => b = c)
      BY DEF PipelineInv, EffectOnce
    <2> QED
      BY <1>3, <2>1, <2>2, <2>3, <2>4 DEF TypeOK
  <1>8. FutureIdle'
    BY <1>3, <1>4 DEF PipelineInv, FutureIdle
  <1>9. EffectsConcluded'
    BY <1>3, <1>5 DEF PipelineInv, EffectsConcluded, TypeOK
  <1>10. MessagesAgree'
    <2> SUFFICES ASSUME NEW m \in Messages, InSystem(m)'
                 PROVE  /\ Concluded(m.attempt)'
                        /\ m.kind = "event" => m.attempt \in effects'
                        /\ m.kind = "exceptionEvent" => m.attempt \notin effects'
      BY DEF MessagesAgree
    <2>1. m.attempt \in Attempts
      BY MessageFields
    <2>2. InSystem(m) \/ m \in M
      BY <1>3 DEF InSystem, TypeOK
    <2>3. CASE InSystem(m)
      BY <1>3, <1>5, <1>6, <2>1, <2>3 DEF PipelineInv, MessagesAgree
    <2>4. CASE m \in M
      BY <1>2, <1>3, <1>5, <2>4
    <2> QED
      BY <2>2, <2>3, <2>4
  <1>11. RemovedPublished'
    BY <1>3 DEF PipelineInv, RemovedPublished
  <1>12. EventsKept'
    BY <1>2, <1>3 DEF PipelineInv, EventsKept
  <1> QED
    BY <1>7, <1>8, <1>9, <1>10, <1>11, <1>12 DEF PipelineInv

(* Recording a failure, too, finds no record of the command. *)
LEMMA FailedInv ==
    ASSUME TypeOK, PipelineInv, NEW a \in Attempts, SaveFailedCommand(a)
    PROVE  PipelineInv'
  <1>1. PICK s \in BOOLEAN : Save(a, "failed", MessagesOfFailure(a, s))
    BY DEF SaveFailedCommand
  <1> DEFINE M == MessagesOfFailure(a, s)
  <1>2. \A m \in M : m.attempt = a /\ m.kind # "event"
    BY FailureMessages
  <1> HIDE DEF M
  <1>3. /\ pc[a] = "fail" /\ ~IsHandled(Cmd(a))
        /\ record' = IF EnsureIdempotent THEN [record EXCEPT ![Cmd(a)] = "failed"] ELSE record
        /\ unPublished' = IF EnsureArrival THEN unPublished \cup M ELSE unPublished
        /\ toSend' = [toSend EXCEPT ![a] = M]
        /\ pc' = [pc EXCEPT ![a] = "send"]
        /\ UNCHANGED <<effects, deliveries, published, owner, toRemove, sendQueue>>
    BY <1>1 DEF SaveFailedCommand, Save, Goto, memory, M
  <1>4. a \notin effects
    BY <1>3, Unconcluded DEF Concluded
  <1>5. EffectOnce'
    <2>1. EnsureIdempotent => \A b \in effects : Cmd(b) # Cmd(a)
      BY <1>3 DEF IsHandled, PipelineInv, EffectOnce
    <2>2. \A b \in effects : Cmd(b) \in Commands
      BY AttemptFields DEF TypeOK
    <2> QED
      BY <1>3, <2>1, <2>2 DEF PipelineInv, EffectOnce, TypeOK
  <1>6. \A m \in Messages : InSystem(m)' => InSystem(m) \/ m \in M
    BY <1>3 DEF InSystem, TypeOK
  <1> QED
    BY <1>2, <1>3, <1>4, <1>5, <1>6, QuietStep

LEMMA AttemptInv ==
    ASSUME TypeOK, PipelineInv, NEW a \in Attempts, AttemptStep(a)
    PROVE  PipelineInv'
  <1> USE DEF Goto, database, memory
  <1>1. CASE GetCommandHandledInfo(a)
    <2>1. /\ pc[a] = "check" /\ ~Concluded(a)
          /\ UNCHANGED <<record, effects, published, deliveries, toRemove, unPublished, owner, sendQueue>>
      BY <1>1 DEF GetCommandHandledInfo, Concluded
    <2>2. a \notin effects
      BY <2>1, Unconcluded
    <2>3. CASE pc' = [pc EXCEPT ![a] = "send"] /\ toSend' = [toSend EXCEPT ![a] = RepeatedReply(a)]
      <3>1. \A m \in Messages : InSystem(m)' => InSystem(m) \/ m \in RepeatedReply(a)
        BY <2>1, <2>3 DEF InSystem, TypeOK
      <3>2. \A m \in RepeatedReply(a) : m.attempt = a /\ m.kind # "event"
        BY RepeatMessages
      <3> QED
        BY <2>1, <2>2, <2>3, <3>1, <3>2, QuietStep
    <2>4. ASSUME NEW label \in {"handle", "finish"}, pc' = [pc EXCEPT ![a] = label], toSend' = toSend
          PROVE  PipelineInv'
      <3>1. \A m \in Messages : InSystem(m)' => InSystem(m)
        BY <2>1, <2>4 DEF InSystem
      <3> QED
        BY <2>1, <2>4, <3>1, QuietStep
    <2> QED
      BY <1>1, <2>3, <2>4 DEF GetCommandHandledInfo
  <1>2. CASE HandleCommand(a)
    BY <1>2, HandleInv
  <1>3. ASSUME NEW e \in Exceptions, HandleFails(a, e)
        PROVE  PipelineInv'
    <2>1. pc[a] = "handle" /\ ~Concluded(a) /\ \A m \in Messages : InSystem(m)' => InSystem(m)
      BY <1>3 DEF HandleFails, Concluded, InSystem
    <2> QED
      BY <1>3, <2>1, QuietStep DEF HandleFails
  <1>4. CASE SaveFailedCommand(a)
    BY <1>4, FailedInv
  <1>5. CASE SaveFailedThrows(a)
    <2>1. pc[a] = "fail" /\ \A m \in Messages : InSystem(m)' => InSystem(m)
      BY <1>5 DEF SaveFailedThrows, InSystem
    <2> QED
      BY <1>5, <2>1, QuietStep DEF SaveFailedThrows
  <1>6. CASE SendAsync(a)
    <2>1. pc[a] = "send" /\ \A m \in Messages : InSystem(m)' => InSystem(m)
      BY <1>6 DEF SendAsync, InSystem, TypeOK
    <2> QED
      BY <1>6, <2>1, QuietStep DEF SendAsync
  <1>7. CASE CommitOffset(a)
    <2>1. pc[a] = "finish" /\ \A m \in Messages : InSystem(m)' => InSystem(m)
      BY <1>7 DEF CommitOffset, InSystem, TypeOK
    <2> QED
      BY <1>7, <2>1, QuietStep DEF CommitOffset
  <1>8. CASE AcknowledgeOffset(a)
    <2>1. pc[a] = "done" /\ \A m \in Messages : InSystem(m)' => InSystem(m)
      BY <1>8 DEF AcknowledgeOffset, InSystem
    <2>2. \A b \in Attempts : owner'[b] \in {owner[b], NoOwner}
      BY <1>8 DEF AcknowledgeOffset, TypeOK
    <2> QED
      BY <1>8, <2>1, <2>2, QuietStep DEF AcknowledgeOffset
  <1> QED
    BY <1>1, <1>2, <1>3, <1>4, <1>5, <1>6, <1>7, <1>8 DEF AttemptStep

LEMMA ReceiveInv ==
    ASSUME TypeOK, PipelineInv, NEW p \in Processes, NEW c \in Commands, Receive(p, c)
    PROVE  PipelineInv'
  <1> DEFINE a == <<c, deliveries[c] + 1>>
  <1>1. a \in Attempts /\ a[1] = c /\ a[2] = deliveries[c] + 1
    BY NextAttempt DEF Receive
  <1> HIDE DEF a
  <1>2. /\ deliveries' = [deliveries EXCEPT ![c] = deliveries[c] + 1]
        /\ pc' = [pc EXCEPT ![a] = "check"]
        /\ owner' = [owner EXCEPT ![a] = p]
        /\ UNCHANGED <<record, effects, unPublished, published, toSend, sendQueue, toRemove>>
    BY DEF Receive, Goto, a, database, memory
  <1>3. deliveries[c] \in Nat /\ \A b \in Commands : deliveries[b] \in Nat
    BY LimitsAssumption DEF TypeOK
  <1>4. pc[a] = "idle"
    BY <1>1, <1>3 DEF PipelineInv, FutureIdle
  <1>5. \A b \in Attempts : Concluded(b) => b # a /\ Concluded(b)'
    BY <1>2, <1>4 DEF Concluded, TypeOK
  <1>6. FutureIdle'
    <2> SUFFICES ASSUME NEW b \in Attempts, b[2] > deliveries'[b[1]]
                 PROVE  pc'[b] = "idle" /\ owner'[b] = NoOwner
      BY DEF FutureIdle
    <2>1. b[1] \in Commands /\ b[2] \in Nat
      BY AttemptFields
    <2>2. b # a
      BY <1>1, <1>2, <1>3 DEF TypeOK
    <2>3. b[2] > deliveries[b[1]]
      BY <1>2, <1>3, <2>1 DEF TypeOK
    <2> QED
      BY <1>2, <2>2, <2>3 DEF PipelineInv, FutureIdle, TypeOK
  <1>7. MessagesAgree'
    BY <1>2, <1>5, MessageFields DEF PipelineInv, MessagesAgree, InSystem
  <1>8. EffectsConcluded'
    BY <1>2, <1>5 DEF PipelineInv, EffectsConcluded, TypeOK
  <1>9. EffectOnce' /\ RemovedPublished' /\ EventsKept'
    BY <1>2 DEF PipelineInv, EffectOnce, RemovedPublished, EventsKept
  <1> QED
    BY <1>6, <1>7, <1>8, <1>9 DEF PipelineInv

(* Steps of the publisher and the daemon: no message is new, and the events    *)
(* that are not published keep their rows.                                     *)
LEMMA MoveStep ==
    ASSUME TypeOK, PipelineInv,
           UNCHANGED <<record, effects, deliveries, pc, owner>>,
           published \subseteq published',
           \A m \in unPublished \ unPublished' : m \in published' \/ ~IsIMessage(m),
           RemovedPublished',
           \A m \in Messages : InSystem(m)' => InSystem(m)
    PROVE  PipelineInv'
  <1>1. EffectOnce' /\ FutureIdle'
    BY DEF PipelineInv, EffectOnce, FutureIdle
  <1>2. EffectsConcluded' /\ MessagesAgree'
    BY DEF PipelineInv, EffectsConcluded, MessagesAgree, Concluded
  <1>3. EventsKept'
    <2>1. \A b \in effects, k \in {"event", "anywayEvent"} : IsIMessage(Msg(k, b))
      BY MessageFields DEF TypeOK, IsIMessage, Events, Kinds
    <2> QED
      BY <2>1 DEF PipelineInv, EventsKept
  <1> QED
    BY <1>1, <1>2, <1>3 DEF PipelineInv

LEMMA CrashInv ==
    ASSUME TypeOK, PipelineInv, NEW p \in Processes, Crash(p)
    PROVE  PipelineInv'
  <1>1. /\ UNCHANGED <<record, effects, unPublished, published, deliveries>>
        /\ \A q \in Processes : sendQueue'[q] \subseteq sendQueue[q] /\ toRemove'[q] \subseteq toRemove[q]
        /\ \A a \in Attempts : toSend'[a] \subseteq toSend[a]
    BY DEF Crash, TypeOK, database
  <1>2. \A a \in Attempts : Concluded(a) => Concluded(a)'
    BY DEF Crash, Concluded
  <1>3. FutureIdle'
    BY OwnerAssumption, <1>1 DEF Crash, PipelineInv, FutureIdle
  <1>4. MessagesAgree'
    <2>1. \A m \in Messages : InSystem(m)' => InSystem(m)
      BY <1>1 DEF InSystem
    <2> QED
      BY <1>1, <1>2, <2>1, MessageFields DEF PipelineInv, MessagesAgree
  <1>5. EffectsConcluded'
    BY <1>1, <1>2 DEF PipelineInv, EffectsConcluded, TypeOK
  <1>6. EffectOnce' /\ RemovedPublished' /\ EventsKept'
    BY <1>1 DEF PipelineInv, EffectOnce, RemovedPublished, EventsKept
  <1> QED
    BY <1>3, <1>4, <1>5, <1>6 DEF PipelineInv

LEMMA PipelineStep == TypeOK /\ PipelineInv /\ [Next]_vars => PipelineInv'
  <1> SUFFICES ASSUME TypeOK, PipelineInv, [Next]_vars PROVE PipelineInv'
    OBVIOUS
  <1>1. ASSUME NEW p \in Processes, Start(p)
        PROVE  PipelineInv'
    <2>1. RemovedPublished'
      BY <1>1 DEF Start, PipelineInv, RemovedPublished
    <2>2. \A m \in Messages : InSystem(m)' => InSystem(m)
      BY <1>1 DEF Start, GetAllUnSentMessages, InSystem, TypeOK, attempts
    <2> QED
      BY <1>1, <2>1, <2>2, MoveStep DEF Start, GetAllUnSentMessages, attempts
  <1>2. ASSUME NEW p \in Processes, NEW batch \in SUBSET toRemove[p], RemoveMessages(p, batch)
        PROVE  PipelineInv'
    <2>1. RemovedPublished'
      BY <1>2 DEF RemoveMessages, PipelineInv, RemovedPublished, TypeOK
    <2>2. \A m \in Messages : InSystem(m)' => InSystem(m)
      BY <1>2 DEF RemoveMessages, InSystem, attempts
    <2>3. \A m \in unPublished \ unPublished' : m \in published'
      BY <1>2 DEF RemoveMessages, PipelineInv, RemovedPublished
    <2> QED
      BY <1>2, <2>1, <2>2, <2>3, MoveStep DEF RemoveMessages, attempts
  <1>3. ASSUME NEW p \in Processes, NEW m \in sendQueue[p], SendMessageState(p, m)
        PROVE  PipelineInv'
    <2>1. RemovedPublished'
      BY <1>3 DEF SendMessageState, PipelineInv, RemovedPublished, TypeOK
    <2>2. \A n \in Messages : InSystem(n)' => InSystem(n)
      BY <1>3 DEF SendMessageState, InSystem, TypeOK, attempts, database
    <2> QED
      BY <1>3, <2>1, <2>2, MoveStep DEF SendMessageState, attempts, database
  <1>4. CASE UNCHANGED vars
    BY <1>4 DEF vars, database, attempts, memory, PipelineInv, EffectOnce, FutureIdle, EffectsConcluded,
                MessagesAgree, RemovedPublished, EventsKept, Concluded, InSystem
  <1> QED
    BY <1>1, <1>2, <1>3, <1>4, ReceiveInv, CrashInv, AttemptInv DEF Next

(* The inductive invariant holds throughout. *)
THEOREM PipelineInvariant == Spec => []PipelineInv
  <1>1. Init => TypeOK /\ PipelineInv
    BY TypeInit, PipelineInit
  <1>2. (TypeOK /\ PipelineInv) /\ [Next]_vars => (TypeOK /\ PipelineInv)'
    BY TypeStep, PipelineStep
  <1> QED
    BY <1>1, <1>2, PTL DEF Spec

(* With EnsureIdempotent a command takes effect at most once, however often the *)
(* broker delivers it and to however many processes at a time.                  *)
THEOREM CommandTakesEffectOnce == Spec => []EffectOnce
  <1>1. PipelineInv => EffectOnce
    BY DEF PipelineInv
  <1> QED
    BY <1>1, PipelineInvariant, PTL

(* Only events of committed attempts are ever published, and failure events    *)
(* only of attempts that were rolled back.                                     *)
THEOREM NoEventOfARollback == Spec => []NoPhantomEvent
  <1>1. TypeOK /\ PipelineInv => NoPhantomEvent
    BY DEF PipelineInv, MessagesAgree, InSystem, NoPhantomEvent, TypeOK
  <1> QED
    BY <1>1, TypeCorrect, PipelineInvariant, PTL

(* With EnsureArrival no crash, restart or clean-up loses an event of a command *)
(* that took effect.                                                            *)
THEOREM EventsAreKept == Spec => []EventsKept
  <1>1. PipelineInv => EventsKept
    BY DEF PipelineInv
  <1> QED
    BY <1>1, PipelineInvariant, PTL

-----------------------------------------------------------------------------
(* Nothing is dropped *)

LEMMA DealtReady ==
    ASSUME TypeOK, DealtWith, NothingDropped, EnsureIdempotent, dbFailures = 0
    PROVE  /\ \A b \in Attempts : Cmd(b) \in WithHandler /\ pc[b] \in {"send", "finish", "done"}
                                  => record[Cmd(b)] # "none"
           /\ \A c \in consumed \cap WithHandler : record[c] # "none"
  BY DEF DealtWith, NothingDropped

\* A step that moves one attempt and takes no row away keeps both, if it moves the
\* attempt past its transaction only when there is a row.
LEMMA DealtMove ==
    ASSUME TypeOK, DealtWith, NothingDropped,
           NEW a \in Attempts, NEW label, pc' = [pc EXCEPT ![a] = label],
           \A c \in Commands : record'[c] = "none" => record[c] = "none",
           dbFailures' = 0 => dbFailures = 0,
           (EnsureIdempotent /\ dbFailures' = 0) =>
               \A c \in consumed' : c \in WithHandler => c \in consumed \/ record'[c] # "none",
           (EnsureIdempotent /\ dbFailures' = 0) =>
               (Cmd(a) \in WithHandler /\ label \in {"send", "finish", "done"} => record'[Cmd(a)] # "none")
    PROVE  DealtWith' /\ NothingDropped'
  <1> SUFFICES ASSUME EnsureIdempotent, dbFailures' = 0
               PROVE  /\ \A b \in Attempts :
                            Cmd(b) \in WithHandler /\ pc'[b] \in {"send", "finish", "done"}
                            => record'[Cmd(b)] # "none"
                      /\ \A c \in consumed' \cap WithHandler : record'[c] # "none"
    BY DEF DealtWith, NothingDropped, Cmd
  <1>1. \A b \in Attempts : Cmd(b) \in Commands
    BY AttemptFields
  <1>2. ASSUME NEW b \in Attempts, Cmd(b) \in WithHandler, pc'[b] \in {"send", "finish", "done"}
        PROVE  record'[Cmd(b)] # "none"
    <2>1. CASE b = a
      BY <1>2, <2>1 DEF TypeOK
    <2>2. CASE b # a
      <3>1. pc'[b] = pc[b]
        BY <2>2 DEF TypeOK
      <3> QED
        BY <1>1, <1>2, <3>1, DealtReady
    <2> QED
      BY <2>1, <2>2
  <1>3. \A c \in consumed' \cap WithHandler : record'[c] # "none"
    BY DealtReady, CommandsAssumption
  <1> QED
    BY <1>2, <1>3

LEMMA DealtAttempt ==
    ASSUME TypeOK, DealtWith, NothingDropped, NEW a \in Attempts, AttemptStep(a)
    PROVE  DealtWith' /\ NothingDropped'
  <1>0. Cmd(a) \in Commands /\ dbFailures \in Nat
    BY AttemptFields DEF TypeOK
  <1>1. CASE GetCommandHandledInfo(a)
    <2>1. record' = record /\ consumed' = consumed /\ (dbFailures' = 0 => dbFailures = 0)
      BY <1>0, <1>1 DEF GetCommandHandledInfo, DatabaseFails, database
    <2>2. PICK label \in {"send", "handle", "finish"} : pc' = [pc EXCEPT ![a] = label]
      BY <1>1 DEF GetCommandHandledInfo, Goto
    <2>3. CASE pc' = [pc EXCEPT ![a] = "handle"]
      BY <2>1, <2>3, DealtMove
    <2>4. CASE \/ dbFailures' # 0
               \/ Cmd(a) \notin WithHandler
               \/ record[Cmd(a)] # "none"
      BY <2>1, <2>2, <2>4, DealtMove
    <2> QED
      BY <1>0, <1>1, <2>3, <2>4, CommandsAssumption
         DEF GetCommandHandledInfo, IsHandled, DatabaseFails, Goto
  <1>2. ASSUME NEW status \in {"handled", "failed"}, NEW messages, Save(a, status, messages),
               consumed' = consumed, dbFailures' = dbFailures
        PROVE  DealtWith' /\ NothingDropped'
    <2>1. /\ pc' = [pc EXCEPT ![a] = "send"]
          /\ record' = IF EnsureIdempotent THEN [record EXCEPT ![Cmd(a)] = status] ELSE record
      BY <1>2 DEF Save, Goto
    <2>2. EnsureIdempotent => record'[Cmd(a)] = status
      BY <1>0, <2>1 DEF TypeOK
    <2>3. \A c \in Commands : record'[c] = "none" => record[c] = "none"
      BY <1>0, <2>1 DEF TypeOK
    <2> QED
      BY <1>2, <2>1, <2>2, <2>3, DealtMove
  <1>3. CASE HandleCommand(a)
    BY <1>2, <1>3 DEF HandleCommand
  <1>4. CASE SaveFailedCommand(a)
    BY <1>2, <1>4 DEF SaveFailedCommand
  <1>5. ASSUME NEW e \in Exceptions, HandleFails(a, e)
        PROVE  DealtWith' /\ NothingDropped'
    BY <1>5, DealtMove DEF HandleFails, Goto, database
  <1>6. CASE SaveFailedThrows(a)
    <2>1. record' = record /\ consumed' = consumed /\ pc' = [pc EXCEPT ![a] = "finish"]
      BY <1>6 DEF SaveFailedThrows, Goto, database
    <2>2. dbFailures' # 0 \/ (dbFailures' = dbFailures /\ record[Cmd(a)] # "none")
      BY <1>0, <1>6 DEF SaveFailedThrows, DatabaseFails, IsHandled
    <2> QED
      BY <1>0, <2>1, <2>2, DealtMove
  <1>7. CASE SendAsync(a)
    <2>1. EnsureIdempotent /\ dbFailures = 0 /\ Cmd(a) \in WithHandler => record[Cmd(a)] # "none"
      BY <1>7, DealtReady DEF SendAsync
    <2> QED
      BY <1>7, <2>1, DealtMove DEF SendAsync, Goto, database
  <1>8. CASE CommitOffset(a)
    <2>1. EnsureIdempotent /\ dbFailures = 0 /\ Cmd(a) \in WithHandler => record[Cmd(a)] # "none"
      BY <1>8, DealtReady DEF CommitOffset
    <2> QED
      BY <1>8, <2>1, DealtMove DEF CommitOffset, Goto, database
  <1>9. CASE AcknowledgeOffset(a)
    <2>1. EnsureIdempotent /\ dbFailures = 0 /\ Cmd(a) \in WithHandler => record[Cmd(a)] # "none"
      BY <1>9, DealtReady DEF AcknowledgeOffset
    <2> QED
      BY <1>9, <2>1, DealtMove DEF AcknowledgeOffset, Goto, database
  <1> QED
    BY <1>1, <1>3, <1>4, <1>5, <1>6, <1>7, <1>8, <1>9 DEF AttemptStep

LEMMA DealtCrash ==
    ASSUME TypeOK, DealtWith, NothingDropped, NEW p \in Processes, Crash(p)
    PROVE  DealtWith' /\ NothingDropped'
  <1>1. \A b \in Attempts : pc'[b] = pc[b] \/ pc'[b] = "over"
    BY DEF Crash
  <1>2. record' = record /\ consumed' = consumed /\ dbFailures' = dbFailures
    BY DEF Crash, database
  <1> QED
    BY <1>1, <1>2 DEF DealtWith, NothingDropped, Cmd

LEMMA DealtStep == TypeOK /\ DealtWith /\ NothingDropped /\ [Next]_vars => DealtWith' /\ NothingDropped'
  <1> SUFFICES ASSUME TypeOK, DealtWith, NothingDropped, [Next]_vars
               PROVE  DealtWith' /\ NothingDropped'
    OBVIOUS
  <1>1. ASSUME UNCHANGED <<pc, record, consumed>>, dbFailures' = 0 => dbFailures = 0
        PROVE  DealtWith' /\ NothingDropped'
    BY <1>1 DEF DealtWith, NothingDropped, Cmd
  <1>2. CASE UNCHANGED vars
    BY <1>1, <1>2 DEF vars, database, attempts
  <1>3. ASSUME NEW p \in Processes, Start(p) PROVE DealtWith' /\ NothingDropped'
    BY <1>1, <1>3 DEF Start, attempts
  <1>4. ASSUME NEW p \in Processes, NEW batch \in SUBSET toRemove[p], RemoveMessages(p, batch)
        PROVE  DealtWith' /\ NothingDropped'
    <2>1. dbFailures' = 0 => dbFailures = 0
      BY <1>4 DEF RemoveMessages, DatabaseFails, TypeOK
    <2> QED
      BY <1>1, <1>4, <2>1 DEF RemoveMessages, attempts
  <1>5. ASSUME NEW p \in Processes, NEW m \in sendQueue[p], SendMessageState(p, m)
        PROVE  DealtWith' /\ NothingDropped'
    BY <1>1, <1>5 DEF SendMessageState, database, attempts
  <1>6. ASSUME NEW p \in Processes, NEW c \in Commands, Receive(p, c)
        PROVE  DealtWith' /\ NothingDropped'
    <2>1. <<c, deliveries[c] + 1>> \in Attempts
      BY <1>6, NextAttempt DEF Receive
    <2> QED
      BY <1>6, <2>1, DealtMove DEF Receive, Goto, database
  <1> QED
    BY <1>2, <1>3, <1>4, <1>5, <1>6, DealtCrash, DealtAttempt DEF Next

(* With EnsureIdempotent, and as long as the database does not fail, a command  *)
(* that has a handler and whose offset is committed is on record: neither the   *)
(* catch blocks of ConsumeMessage nor a crash lets it pass without a row.       *)
THEOREM NothingIsDropped == Spec => []NothingDropped
  <1>1. Init => TypeOK /\ DealtWith /\ NothingDropped
    BY TypeInit DEF Init, DealtWith, NothingDropped
  <1>2. (TypeOK /\ DealtWith /\ NothingDropped) /\ [Next]_vars => (TypeOK /\ DealtWith /\ NothingDropped)'
    BY TypeStep, DealtStep
  <1> QED
    BY <1>1, <1>2, PTL DEF Spec

-----------------------------------------------------------------------------
(* The pipeline is an outbox *)

(* Committing a handler's transaction takes the turn: the key of the Commands  *)
(* table has kept every other turn of the command out.                         *)
LEMMA HandleTakes ==
    ASSUME TypeOK, PipelineInv, NEW a \in Attempts, HandleCommand(a)
    PROVE  Out!Take(a)
  <1>1. ~IsHandled(Cmd(a)) /\ effects' = effects \cup {a} /\ published' = published
    BY DEF HandleCommand, Save
  <1>2. a \notin effects
    <2>1. ~Concluded(a)
      BY DEF HandleCommand, Concluded
    <2> QED
      BY <2>1, Unconcluded
  <1>3. \A b \in effects : b \in Attempts
    BY DEF TypeOK
  <1>4. CASE EnsureIdempotent
    <2>1. \A b \in effects : Cmd(b) # Cmd(a)
      BY <1>1, <1>4 DEF IsHandled, PipelineInv, EffectOnce
    <2> QED
      BY <1>1, <1>3, <1>4, <2>1 DEF Out!Take, Announced
  <1>5. CASE ~EnsureIdempotent
    BY <1>1, <1>2, <1>3, <1>5 DEF Out!Take, Announced
  <1> QED
    BY <1>4, <1>5

(* The publisher only ever holds events of turns that took effect.             *)
LEMMA SendTells ==
    ASSUME TypeOK, PipelineInv, NEW p \in Processes, NEW m \in sendQueue[p], SendMessageState(p, m)
    PROVE  (\E a \in Attempts : Out!Tell(a)) \/ UNCHANGED Out!outbox
  <1>1. published' = published \cup {m} /\ effects' = effects
    BY DEF SendMessageState, database
  <1>2. m \in Messages /\ InSystem(m)
    BY DEF TypeOK, InSystem
  <1>3. m.attempt \in Attempts /\ (m.kind = "event" => m.attempt \in effects)
    BY <1>2, MessageFields DEF PipelineInv, MessagesAgree
  <1>4. "event" \in Kinds
    BY DEF Kinds
  <1>5. CASE m.kind = "event"
    <2>1. Msg("event", m.attempt) = m
      BY <1>2, <1>5 DEF Msg, Messages
    <2>2. \A a \in Attempts : Msg("event", a) = m => a = m.attempt
      BY <1>4, MessageFields
    <2>3. Announced' = Announced \cup {m.attempt}
      BY <1>1, <1>3, <2>1, <2>2 DEF Announced
    <2> QED
      BY <1>1, <1>3, <1>5, <2>3 DEF Out!Tell
  <1>6. CASE m.kind # "event"
    <2>1. \A a \in Attempts : Msg("event", a) # m
      BY <1>4, <1>6, MessageFields
    <2>2. Announced' = Announced
      BY <1>1, <2>1 DEF Announced
    <2> QED
      BY <1>1, <2>2 DEF Out!outbox
  <1> QED
    BY <1>5, <1>6

LEMMA OutboxStep == TypeOK /\ PipelineInv /\ [Next]_vars => [Out!Next]_(Out!outbox)
  <1> SUFFICES ASSUME TypeOK, PipelineInv, [Next]_vars
               PROVE  Out!Next \/ UNCHANGED Out!outbox
    OBVIOUS
  <1>1. ASSUME UNCHANGED <<effects, published>>
        PROVE  UNCHANGED Out!outbox
    BY <1>1 DEF Out!outbox, Announced
  <1>2. ASSUME NEW a \in Attempts, AttemptStep(a), ~HandleCommand(a)
        PROVE  UNCHANGED <<effects, published>>
    BY <1>2 DEF AttemptStep, GetCommandHandledInfo, HandleFails, SaveFailedCommand, Save, SaveFailedThrows,
                SendAsync, CommitOffset, AcknowledgeOffset, database
  <1>3. ASSUME NEW p \in Processes,
               \/ Start(p) \/ Crash(p)
               \/ \E batch \in SUBSET toRemove[p] : RemoveMessages(p, batch)
               \/ \E c \in Commands : Receive(p, c)
        PROVE  UNCHANGED <<effects, published>>
    BY <1>3 DEF Start, Crash, RemoveMessages, Receive, database
  <1>4. CASE UNCHANGED vars
    BY <1>1, <1>4 DEF vars, database
  <1> QED
    BY <1>1, <1>2, <1>3, <1>4, HandleTakes, SendTells DEF Next, Out!Next

(* For any number of commands, processes, deliveries, crashes and failures of  *)
(* the database, the command processor with its store, publisher and daemon    *)
(* takes each command at most once and tells only what it has done.            *)
THEOREM OutboxRefinement == Spec => ImplementsOutbox
  <1>1. Init => Out!Init
    BY DEF Init, Out!Init, Announced
  <1> QED
    BY <1>1, OutboxStep, TypeCorrect, PipelineInvariant, PTL DEF Spec, ImplementsOutbox, Out!Spec
=============================================================================
