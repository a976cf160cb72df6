------------------------------ MODULE ReplayLog ------------------------------
(***************************************************************************)
(* What a detached run promises its clients, and nothing else: logs that   *)
(* only grow until they are closed, and readers that may attach and leave  *)
(* at any time, each receiving the log it reads from its beginning, event  *)
(* by event, and told that the stream is over only when the log is closed  *)
(* and was received whole.  AgentRuns implements it.                       *)
(***************************************************************************)
EXTENDS Naturals, Sequences

CONSTANTS Logs, Readers, None

VARIABLES
  log,     \* the events of each log
  closed,  \* the log will not grow any more
  source,  \* the log a reader is attached to
  got,     \* what the reader has received from it
  over     \* the reader was told that the stream is over

lvars == <<log, closed, source, got, over>>

Prefix(s, t) == Len(s) <= Len(t) /\ \A i \in 1..Len(s) : s[i] = t[i]

Init ==
  /\ log = [l \in Logs |-> <<>>] /\ closed = [l \in Logs |-> FALSE]
  /\ source = [c \in Readers |-> None] /\ got = [c \in Readers |-> <<>>]
  /\ over = [c \in Readers |-> FALSE]

\* A log grows, or is closed, or both at once.
Extend(l) ==
  /\ ~closed[l]
  /\ Prefix(log[l], log'[l]) /\ log' = [log EXCEPT ![l] = log'[l]]
  /\ closed' \in {closed, [closed EXCEPT ![l] = TRUE]}
  /\ UNCHANGED <<source, got, over>>

\* A reader attaches, and may receive some of the log in the same step.
Attach(c, l) ==
  /\ source[c] = None /\ source' = [source EXCEPT ![c] = l]
  /\ Prefix(got'[c], log[l]) /\ got' = [got EXCEPT ![c] = got'[c]]
  /\ \/ over' = over
     \/ closed[l] /\ got'[c] = log[l] /\ over' = [over EXCEPT ![c] = TRUE]
  /\ UNCHANGED <<log, closed>>

Receive(c) ==
  /\ source[c] # None /\ ~over[c] /\ Len(got[c]) < Len(log[source[c]])
  /\ got' = [got EXCEPT ![c] = Append(@, log[source[c]][Len(got[c]) + 1])]
  /\ UNCHANGED <<log, closed, source, over>>

EndOfStream(c) ==
  /\ source[c] # None /\ closed[source[c]] /\ got[c] = log[source[c]]
  /\ over' = [over EXCEPT ![c] = TRUE]
  /\ UNCHANGED <<log, closed, source, got>>

Detach(c) ==
  /\ source' = [source EXCEPT ![c] = None] /\ got' = [got EXCEPT ![c] = <<>>]
  /\ over' = [over EXCEPT ![c] = FALSE]
  /\ UNCHANGED <<log, closed>>

Next ==
  \/ \E l \in Logs : Extend(l)
  \/ \E c \in Readers : Receive(c) \/ EndOfStream(c) \/ Detach(c) \/ \E l \in Logs : Attach(c, l)

Spec == Init /\ [][Next]_lvars
=============================================================================
