--------------------------- MODULE MCSlidingDoor ---------------------------
EXTENDS SlidingDoor

\* A log with a gap after the first and after the third message.
GapLog == {0, 2, 3, 5, 6}
=============================================================================
