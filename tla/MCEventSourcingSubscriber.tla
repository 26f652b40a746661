--------------------- MODULE MCEventSourcingSubscriber ---------------------
EXTENDS EventSourcingSubscriber, TLC

CONSTANTS e1, p1, p2

\* One event with two handlers.
TwoHandlers == [e \in {e1} |-> 2]

\* Processes are interchangeable.
SameProcess == Permutations(Processes)
=============================================================================
