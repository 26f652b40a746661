------------------------- MODULE MCEventSubscriber -------------------------
EXTENDS EventSubscriber, TLC

CONSTANTS e1, p1

\* Every event has two handlers.
TwoHandlers == [e \in Events |-> 2]
=============================================================================
