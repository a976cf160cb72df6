--------------------------- MODULE MCTaskScheduler ---------------------------
(***************************************************************************)
(* Small instances of TaskScheduler for TLC: two tasks, v and r; the kind  *)
(* of each, whether v's success chains to r, and how often the environment *)
(* does each of its deeds.                                                 *)
(***************************************************************************)
EXTENDS TaskScheduler, TLC

CONSTANTS v, r

MCKind == v :> "event" @@ r :> "repeat"
MCThen == v :> r @@ r :> None
EndKind == v :> "event" @@ r :> "once"
NoThen == v :> None @@ r :> None

Nothing == [d \in Deeds |-> 0]
Busy    == [Nothing EXCEPT !["event"] = 1, !["run"] = 1, !["request"] = 1, !["crash"] = 1]
Paused  == [Nothing EXCEPT !["event"] = 1, !["pause"] = 1, !["request"] = 1, !["crash"] = 1]
Rough   == [Nothing EXCEPT !["force"] = 1, !["stop"] = 1]
Calm    == [Nothing EXCEPT !["event"] = 1, !["stream"] = 1, !["crash"] = 1]

BusyOrRough == {Busy, Paused, Rough}
JustCalm    == {Calm}

\* The names of executions are interchangeable.
ExecSymmetry == Permutations(Execs)
=============================================================================
