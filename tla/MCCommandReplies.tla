-------------------------- MODULE MCCommandReplies --------------------------
EXTENDS CommandReplies, TLC

CONSTANTS c1, c2

\* A command that needs a reply, and a saga.
OwnCommands == [c \in Calls |-> IF c = c1 THEN "m1" ELSE "m2"]
OneSaga == [c \in Calls |-> IF c = c2 THEN "s2" ELSE NoSaga]

\* The command is replied to twice.
RepliesOf == [c \in Calls |-> IF c = c1 THEN 2 ELSE 1]
=============================================================================
