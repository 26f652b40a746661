----------------------------- MODULE MCMailbox -----------------------------
EXTENDS Mailbox, TLC

CONSTANTS m1, m2, m3, m4, k1

\* Three messages of one key, and one without.
OneKeyAndBlank == [m \in Messages |-> IF m = m4 THEN Blank ELSE k1]

\* The messages of k1 whose tasks yield are interchangeable, for safety.
SameKey == Permutations({m1, m2, m3} \ Synchronous)
=============================================================================
