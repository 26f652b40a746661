--------------------------- MODULE CommandLedger ---------------------------
(***************************************************************************)
(* What an event-sourced command service promises for one aggregate: the   *)
(* commands take effect one at a time, each at most once and on the state  *)
(* the previous one left; the outcome of a command is fixed when it takes  *)
(* effect; and only what is fixed is ever told to anybody.                 *)
(***************************************************************************)
EXTENDS Naturals

CONSTANTS Commands

VARIABLES log,      \* the aggregate's events: [cmd, version] records
          head,     \* the version of the last one
          outcome,  \* what each command came to, NoOutcome until it is known
          told      \* messages that have been sent

ledger == <<log, head, outcome, told>>

NoOutcome == [outcome |-> "none", version |-> 0, app |-> FALSE, event |-> 0]

Init ==
    /\ log = {}
    /\ head = 0
    /\ outcome = [c \in Commands |-> NoOutcome]
    /\ told = {}

\* A command appends an event to the log.  The version its reply names is that of
\* the event: the command was handled on the state at the head.
Append(c) ==
    /\ outcome[c] = NoOutcome
    /\ log' = log \cup {[cmd |-> c, version |-> head + 1]}
    /\ head' = head + 1
    /\ \E result \in {"ok", "null", "domain", "unknown"}, app \in BOOLEAN :
          outcome' = [outcome EXCEPT ![c] =
            [outcome |-> result, version |-> IF result = "null" THEN 0 ELSE head + 1,
             app |-> app, event |-> head + 1]]
    /\ UNCHANGED told

\* A command that changes nothing may have been handled on an older state.
Observe(c) ==
    /\ outcome[c] = NoOutcome
    /\ UNCHANGED <<log, head, told>>
    /\ \E result \in {"ok", "null", "domain", "unknown"}, version \in 0..head, app \in BOOLEAN :
          outcome' = [outcome EXCEPT ![c] =
            [outcome |-> result, version |-> version, app |-> app, event |-> 0]]

\* A message says what happened, or refuses to create the aggregate twice.  A
\* command that was answered with nothing may later be answered with anything.
Justified(m) ==
    \/ m.outcome = "event" /\ [cmd |-> m.cmd, version |-> m.version] \in log
    \/ m.outcome = "app" /\ outcome[m.cmd].app
    \/ m.outcome = "duplicate" /\ head > 0
    \/ /\ outcome[m.cmd] # NoOutcome
       /\ \/ outcome[m.cmd].outcome = m.outcome /\ outcome[m.cmd].version = m.version
          \/ outcome[m.cmd].outcome = "null"

Tell(m) ==
    /\ told' = told \cup {m}
    /\ Justified(m)
    /\ UNCHANGED <<log, head, outcome>>

Next ==
    \/ \E c \in Commands : Append(c) \/ Observe(c)
    \/ \E m \in told' \ told : Tell(m)

Spec == Init /\ [][Next]_ledger
=============================================================================
