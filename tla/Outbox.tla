------------------------------- MODULE Outbox -------------------------------
(***************************************************************************)
(* What the command processor, the event subscriber and the unit of work   *)
(* promise alike, whatever crashes and however often a message is          *)
(* delivered: a task takes effect in at most one turn, only a turn that    *)
(* took effect tells the world so, and it does so in the end.              *)
(*                                                                         *)
(* A turn is one attempt at a task.  What a turn has to tell are the       *)
(* messages it has raised.                                                 *)
(***************************************************************************)

CONSTANTS Turns,
          TaskOf   \* the task of each turn

VARIABLES done,    \* turns that took effect
          told     \* turns of which the world has heard

outbox == <<done, told>>

Init == done = {} /\ told = {}

Take(t) ==
    /\ \A u \in done : TaskOf[u] # TaskOf[t]
    /\ done' = done \cup {t}
    /\ UNCHANGED told

Tell(t) ==
    /\ t \in done
    /\ told' = told \cup {t}
    /\ UNCHANGED done

Next == \E t \in Turns : Take(t) \/ Tell(t)

Spec == Init /\ [][Next]_outbox

\* Stated as what it achieves, not as fairness of Tell, because the implementations
\* get there by several steps of several threads.
Delivery == \A t \in Turns : t \in done ~> t \in told

FairSpec == Spec /\ Delivery
=============================================================================
