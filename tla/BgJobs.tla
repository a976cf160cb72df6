------------------------------- MODULE BgJobs -------------------------------
(***************************************************************************)
(* Background jobs of the agent's bash tool: the store and its operations  *)
(* (src/src/bg_jobs.py), the monitor that continues the agent when a job   *)
(* ends (src/src/bg_monitor.py), the tools that launch and kill jobs, and  *)
(* the operating system's processes they run in.                           *)
(*                                                                         *)
(* The store's functions are synchronous, so on the event loop they do not *)
(* interleave with one another; the processes run beside them, and the     *)
(* server may crash between any two of their steps.  `thread' is the       *)
(* function that is running.  Jobs are examined and followed up in any     *)
(* order (the code's is that of a dict).                                   *)
(***************************************************************************)
EXTENDS Naturals, FiniteSets

CONSTANTS
  Jobs,         \* job ids
  Pids,         \* process ids, which the system uses again
  Sessions,     \* chat sessions
  None,         \* Python's None
  Outcomes,     \* bound: how commands end, of "ok" (status 0) and "bad"
  MaxTurns,     \* bound: live turns in all sessions
  MaxFailures,  \* bound: follow-up runs that raise or whose model call fails
  MaxCrashes    \* bound: crashes of the server

Records == [session : Sessions, pid : Pids, status : {"running", "done", "failed"},
            why : {"none", "exit", "timed_out", "died", "killed"}, followed : BOOLEAN]

ASSUME ConstantsAssumption ==
  /\ None \notin Jobs \cup Pids \cup Sessions \cup Records
  /\ Outcomes \subseteq {"ok", "bad"}
  /\ MaxTurns \in Nat /\ MaxFailures \in Nat /\ MaxCrashes \in Nat

VARIABLES
  disk,       \* the store file: a record or None per job
  proc,       \* the job's wrapper process
  command,    \* the command it started: None, "runs", or how it ended
  exitFile,   \* its exit-code file
  holder,     \* the job whose wrapper has the pid (a zombie keeps it)
  term,       \* SIGTERM was sent to its process group
  overdue,    \* more than max_runtime_s have passed since started_at
  old,        \* _RETENTION_S have passed since ended_at
  up,         \* the server runs
  thread,     \* the synchronous function in progress, and its job
  mem,        \* the jobs dict it works on
  todo,       \* the records refresh() has still to examine
  probe,      \* how far it got with one of them
  monitor,    \* where the monitor's loop is, and the job it follows up
  pend,       \* the rest of the list pending_followups() returned to it
  turn,       \* agent_runs.is_active(session): a live turn is streaming
  exists,     \* the session has not been deleted
  answers,    \* messages that follow-ups have added to the session, per job
  continued,  \* the jobs after which the model really went on
  turns, failures, crashes   \* what the bounds count

jobVars     == <<proc, command, exitFile, holder, term>>
clockVars   == <<overdue, old>>
threadVars  == <<thread, mem, todo, probe>>
monitorVars == <<monitor, pend, answers, continued, failures>>
chatVars    == <<turn, exists, turns>>
vars == <<disk, jobVars, clockVars, up, threadVars, monitorVars, chatVars, crashes>>

Free     == [op |-> "free", job |-> None]
Sleeping == [at |-> "sleep", job |-> None]
Dropped  == [j \in Jobs |-> None]
NoProbe  == [job |-> None, saw |-> "nothing"]

Init ==
  /\ disk = [j \in Jobs |-> None]
  /\ proc = [j \in Jobs |-> "none"] /\ command = [j \in Jobs |-> None]
  /\ exitFile = [j \in Jobs |-> "absent"] /\ holder = [p \in Pids |-> None]
  /\ term = [j \in Jobs |-> FALSE]
  /\ overdue = [j \in Jobs |-> FALSE] /\ old = [j \in Jobs |-> FALSE]
  /\ up = TRUE /\ thread = Free /\ mem = Dropped /\ todo = {} /\ probe = NoProbe
  /\ monitor = Sleeping /\ pend = {} /\ answers = [j \in Jobs |-> 0]
  /\ continued = {}
  /\ turn = [s \in Sessions |-> FALSE] /\ exists = [s \in Sessions |-> TRUE]
  /\ turns = 0 /\ failures = 0 /\ crashes = 0

Recorded(d)  == {j \in Jobs : d[j] # None}
Running(d)   == {j \in Recorded(d) : d[j].status = "running"}
Finished(d)  == Recorded(d) \ Running(d)
Pending(d)   == {j \in Finished(d) : ~d[j].followed}
Alive(j)     == proc[j] \in {"running", "writing"}

\* An agent works in session s: in a live turn or in the monitor's follow-up.
AgentIn(s) == turn[s] \/ (monitor.at = "agent" /\ disk[monitor.job].session = s)

\* kill_process_tree: one SIGTERM to the process group of whatever wrapper has
\* the pid now, a zombie's too.  Errors are swallowed, nothing waits for the
\* processes or looks at them again: whether they stop is their own affair.
KillPid(p) == term' = [j \in Jobs |-> term[j] \/ holder[p] = j]

-----------------------------------------------------------------------------
(* Processes and time.                                                      *)

\* The command ends and, if the wrapper is still there, its `echo $? > file' has
\* opened the file.
CommandEnds(j, c) ==
  /\ command[j] = "runs"
  /\ command' = [command EXCEPT ![j] = c]
  /\ \/ /\ proc[j] = "running"
        /\ proc' = [proc EXCEPT ![j] = "writing"]
        /\ exitFile' = [exitFile EXCEPT ![j] = "empty"]
     \/ proc[j] = "gone" /\ UNCHANGED <<proc, exitFile>>
  /\ UNCHANGED <<disk, holder, term, clockVars, up, threadVars, monitorVars, chatVars, crashes>>

ExitWritten(j) ==
  /\ proc[j] = "writing"
  /\ proc' = [proc EXCEPT ![j] = "gone"]
  /\ exitFile' = [exitFile EXCEPT ![j] = command[j]]
  /\ UNCHANGED <<disk, command, holder, term, clockVars, up, threadVars, monitorVars, chatVars,
                 crashes>>

\* The wrapper is killed: by the SIGTERM, from outside, out of memory.  Its
\* command may die with it (CommandEnds) or run on, as one that traps the signal.
Vanish(j) ==
  /\ Alive(j)
  /\ proc' = [proc EXCEPT ![j] = "gone"]
  /\ UNCHANGED <<disk, command, exitFile, holder, term, clockVars, up, threadVars, monitorVars,
                 chatVars, crashes>>

\* The parent collects the wrapper; its pid is free.  (While its command runs on
\* the system would keep the number from others, as the group's.)
Reap(p) ==
  /\ holder[p] # None /\ ~Alive(holder[p])
  /\ holder' = [holder EXCEPT ![p] = None]
  /\ UNCHANGED <<disk, proc, command, exitFile, term, clockVars, up, threadVars, monitorVars,
                 chatVars, crashes>>

Overdue(j) ==
  /\ proc[j] # "none" /\ ~overdue[j]
  /\ overdue' = [overdue EXCEPT ![j] = TRUE]
  /\ UNCHANGED <<disk, jobVars, old, up, threadVars, monitorVars, chatVars, crashes>>

Age(j) ==
  /\ j \in Finished(disk) /\ ~old[j]
  /\ old' = [old EXCEPT ![j] = TRUE]
  /\ UNCHANGED <<disk, jobVars, overdue, up, threadVars, monitorVars, chatVars, crashes>>

-----------------------------------------------------------------------------
(* bg_jobs.launch, refresh, kill.                                           *)

\* launch(): the process is started ...
Launch(j, s, p) ==
  /\ up /\ thread = Free /\ AgentIn(s)
  /\ proc[j] = "none" /\ holder[p] = None
  /\ thread' = [op |-> "launch", job |-> j]
  /\ proc' = [proc EXCEPT ![j] = "running"]
  /\ command' = [command EXCEPT ![j] = "runs"]
  /\ holder' = [holder EXCEPT ![p] = j]
  /\ mem' = [disk EXCEPT ![j] = [session |-> s, pid |-> p, status |-> "running",
                                 why |-> "none", followed |-> FALSE]]
  /\ UNCHANGED <<disk, exitFile, term, clockVars, up, todo, probe, monitorVars, chatVars, crashes>>

\* ... and then its record is saved.
LaunchSave ==
  /\ thread.op = "launch"
  /\ disk' = mem /\ mem' = Dropped /\ thread' = Free
  /\ UNCHANGED <<jobVars, clockVars, up, todo, probe, monitorVars, chatVars, crashes>>

\* refresh() is called: by the monitor ("poll"), by the list and output tools
\* ("list"), or by get() before the kill tool kills job j ("kill").
Refresh(op, j) ==
  /\ up /\ thread = Free
  /\ thread' = [op |-> op, job |-> j]
  /\ mem' = disk /\ todo' = Running(disk)
  /\ UNCHANGED <<disk, jobVars, clockVars, up, probe, chatVars, crashes>>

Tick ==
  /\ monitor = Sleeping /\ Refresh("poll", None)
  /\ monitor' = [monitor EXCEPT !.at = "refresh"]
  /\ UNCHANGED <<pend, answers, continued, failures>>

ToolLists == (\E s \in Sessions : AgentIn(s)) /\ Refresh("list", None) /\ UNCHANGED monitorVars

ToolKills(j) ==
  /\ j \in Recorded(disk) /\ AgentIn(disk[j].session)
  /\ Refresh("kill", j) /\ UNCHANGED monitorVars

Refreshing == thread.op \in {"poll", "list", "kill"}

\* The outcome refresh() writes into its copy of a record.
Settle(j, status, why) ==
  /\ mem' = [mem EXCEPT ![j] = [@ EXCEPT !.status = status, !.why = why]]
  /\ todo' = todo \ {j} /\ probe' = NoProbe

Keep(j) == todo' = todo \ {j} /\ probe' = NoProbe /\ UNCHANGED mem

\* First test of the chain: the exit file.  An empty one reads as status 1.
ProbeExit(j) ==
  /\ Refreshing /\ j \in todo /\ probe = NoProbe
  /\ \/ /\ exitFile[j] # "absent"
        /\ Settle(j, IF exitFile[j] = "ok" THEN "done" ELSE "failed", "exit")
     \/ /\ exitFile[j] = "absent"
        /\ probe' = [job |-> j, saw |-> "no exit"]
        /\ UNCHANGED <<mem, todo>>
  /\ UNCHANGED <<disk, jobVars, clockVars, up, thread, monitorVars, chatVars, crashes>>

\* Mutant of ProbeProcess: the time limit does not kill.
ProbeNoKill(j) ==
  /\ probe = [job |-> j, saw |-> "no exit"]
  /\ \/ overdue[j] /\ Settle(j, "failed", "timed_out")
     \/ ~overdue[j] /\ holder[mem[j].pid] # None /\ Keep(j)
     \/ /\ ~overdue[j] /\ holder[mem[j].pid] = None
        /\ probe' = [job |-> j, saw |-> "no process"]
        /\ UNCHANGED <<mem, todo>>
  /\ UNCHANGED <<disk, jobVars, clockVars, up, thread, monitorVars, chatVars, crashes>>

\* Mutant of ProbeProcess: no time limit.
ProbeNoLimit(j) ==
  /\ probe = [job |-> j, saw |-> "no exit"]
  /\ \/ holder[mem[j].pid] # None /\ Keep(j)
     \/ /\ holder[mem[j].pid] = None
        /\ probe' = [job |-> j, saw |-> "no process"]
        /\ UNCHANGED <<mem, todo>>
  /\ UNCHANGED <<disk, jobVars, clockVars, up, thread, monitorVars, chatVars, crashes>>

\* Then the time limit, which sends the signal, and the process id.
ProbeProcess(j) ==
  LET p == mem[j].pid IN
  /\ probe = [job |-> j, saw |-> "no exit"]
  /\ \/ overdue[j] /\ KillPid(p) /\ Settle(j, "failed", "timed_out")
     \/ ~overdue[j] /\ holder[p] # None /\ Keep(j) /\ UNCHANGED term
     \/ /\ ~overdue[j] /\ holder[p] = None
        /\ probe' = [job |-> j, saw |-> "no process"]
        /\ UNCHANGED <<mem, todo, term>>
  /\ UNCHANGED <<disk, proc, command, exitFile, holder, clockVars, up, thread, monitorVars,
                 chatVars, crashes>>

\* No process: died, unless the exit file has appeared meanwhile.
ProbeAgain(j) ==
  /\ probe = [job |-> j, saw |-> "no process"]
  /\ IF exitFile[j] = "absent" THEN Settle(j, "failed", "died") ELSE Keep(j)
  /\ UNCHANGED <<disk, jobVars, clockVars, up, thread, monitorVars, chatVars, crashes>>

\* _prune: drop the records that were followed up and ended long ago.
Prune(d) ==
  [j \in Jobs |-> IF j \in Finished(d) /\ d[j].followed /\ old[j] THEN None ELSE d[j]]

\* Mutant of RefreshEnd: the kill tool does not look at the status.
RefreshEndAny ==
  LET d == Prune(mem)
      j == thread.job
  IN
  /\ Refreshing /\ todo = {} /\ probe = NoProbe
  /\ disk' = d /\ mem' = Dropped
  /\ thread' = IF thread.op = "kill" /\ j \in Recorded(d)
               THEN [op |-> "signal", job |-> j] ELSE Free
  /\ IF thread.op = "poll"
     THEN pend' = Pending(d) /\ monitor' = [monitor EXCEPT !.at = "tick"]
     ELSE UNCHANGED <<pend, monitor>>
  /\ UNCHANGED <<jobVars, clockVars, up, todo, probe, answers, continued, failures, chatVars,
                 crashes>>

\* refresh() saves the store and returns to its caller: pending_followups()
\* selects from it, the kill tool goes on when the job still runs.
RefreshEnd ==
  LET d == Prune(mem)
      j == thread.job
  IN
  /\ Refreshing /\ todo = {} /\ probe = NoProbe
  /\ disk' = d /\ mem' = Dropped
  /\ thread' = IF thread.op = "kill" /\ j \in Running(d)
               THEN [op |-> "signal", job |-> j] ELSE Free
  /\ IF thread.op = "poll"
     THEN pend' = Pending(d) /\ monitor' = [monitor EXCEPT !.at = "tick"]
     ELSE UNCHANGED <<pend, monitor>>
  /\ UNCHANGED <<jobVars, clockVars, up, todo, probe, answers, continued, failures, chatVars,
                 crashes>>

\* kill(): signal the process tree, then save the outcome.
KillSignal ==
  /\ thread.op = "signal"
  /\ KillPid(disk[thread.job].pid)
  /\ thread' = [thread EXCEPT !.op = "killed"]
  /\ UNCHANGED <<disk, proc, command, exitFile, holder, clockVars, up, mem, todo, probe,
                 monitorVars, chatVars, crashes>>

KillSave ==
  /\ thread.op = "killed"
  /\ disk' = [disk EXCEPT ![thread.job] =
                [@ EXCEPT !.status = "failed", !.why = "killed", !.followed = TRUE]]
  /\ thread' = Free
  /\ UNCHANGED <<jobVars, clockVars, up, mem, todo, probe, monitorVars, chatVars, crashes>>

-----------------------------------------------------------------------------
(* The monitor: _loop and _run_followup.                                    *)

\* Mutant of Follow: a busy session is not deferred but counted as handled.
FollowDropsBusy(j) ==
  LET s == disk[j].session IN
  /\ up /\ thread = Free /\ monitor.at = "tick" /\ j \in pend
  /\ pend' = pend \ {j}
  /\ monitor' = IF exists[s] /\ ~turn[s] THEN [at |-> "agent", job |-> j] ELSE monitor
  /\ disk' = IF exists[s] /\ turn[s] THEN [disk EXCEPT ![j].followed = TRUE] ELSE disk
  /\ UNCHANGED <<jobVars, clockVars, up, threadVars, answers, continued, failures, chatVars,
                 crashes>>

\* One record of the list.  A deleted session makes get_session raise, a live
\* turn defers: the record stays as it is for the next tick.  Otherwise the
\* agent runs.
Follow(j) ==
  LET s == disk[j].session IN
  /\ up /\ thread = Free /\ monitor.at = "tick" /\ j \in pend
  /\ pend' = pend \ {j}
  /\ monitor' = IF exists[s] /\ ~turn[s] THEN [at |-> "agent", job |-> j] ELSE monitor
  /\ UNCHANGED <<disk, jobVars, clockVars, up, threadVars, answers, continued, failures, chatVars,
                 crashes>>

\* The agent run raises, or its session is gone when the answer is added.
FollowFails ==
  /\ monitor.at = "agent" /\ thread = Free
  /\ \/ failures < MaxFailures /\ failures' = failures + 1
     \/ ~exists[disk[monitor.job].session] /\ UNCHANGED failures
  /\ monitor' = [at |-> "tick", job |-> None]
  /\ UNCHANGED <<disk, jobVars, clockVars, up, threadVars, pend, answers, continued, chatVars,
                 crashes>>

\* The agent run is over and a message is added to the session: what the model
\* said, or the fallback's "returned an empty response" when the call to the model
\* failed, which stream_agent_loop reports in an error event that _drain_agent
\* skips ...
FollowEnds ==
  /\ monitor.at = "agent" /\ thread = Free /\ exists[disk[monitor.job].session]
  /\ \/ continued' = continued \cup {monitor.job} /\ UNCHANGED failures
     \/ failures < MaxFailures /\ failures' = failures + 1 /\ UNCHANGED continued
  /\ answers' = [answers EXCEPT ![monitor.job] = @ + 1]
  /\ thread' = [op |-> "mark", job |-> monitor.job]
  /\ monitor' = [at |-> "tick", job |-> None]
  /\ UNCHANGED <<disk, jobVars, clockVars, up, mem, todo, probe, pend, chatVars, crashes>>

\* Mutant of Mark: the flag is set in memory and never saved.
MarkUnsaved ==
  /\ thread.op = "mark" /\ thread' = Free
  /\ UNCHANGED <<disk, jobVars, clockVars, up, mem, todo, probe, monitorVars, chatVars, crashes>>

\* ... and mark_followed_up() saves the flag.
Mark ==
  /\ thread.op = "mark"
  /\ disk' = IF disk[thread.job] = None THEN disk
             ELSE [disk EXCEPT ![thread.job] = [@ EXCEPT !.followed = TRUE]]
  /\ thread' = Free
  /\ UNCHANGED <<jobVars, clockVars, up, mem, todo, probe, monitorVars, chatVars, crashes>>

EndTick ==
  /\ monitor.at = "tick" /\ thread = Free /\ pend = {}
  /\ monitor' = Sleeping
  /\ UNCHANGED <<disk, jobVars, clockVars, up, threadVars, pend, answers, continued, failures,
                 chatVars, crashes>>

-----------------------------------------------------------------------------
(* Sessions, and the server itself.                                         *)

TurnStarts(s) ==
  /\ up /\ thread = Free /\ exists[s] /\ ~turn[s] /\ turns < MaxTurns
  /\ turn' = [turn EXCEPT ![s] = TRUE] /\ turns' = turns + 1
  /\ UNCHANGED <<disk, jobVars, clockVars, up, threadVars, monitorVars, exists, crashes>>

TurnEnds(s) ==
  /\ up /\ thread = Free /\ turn[s]
  /\ turn' = [turn EXCEPT ![s] = FALSE]
  /\ UNCHANGED <<disk, jobVars, clockVars, up, threadVars, monitorVars, exists, turns, crashes>>

Delete(s) ==
  /\ up /\ thread = Free /\ exists[s]
  /\ exists' = [exists EXCEPT ![s] = FALSE]
  /\ UNCHANGED <<disk, jobVars, clockVars, up, threadVars, monitorVars, turn, turns, crashes>>

\* The server dies at any point; its jobs run on, in sessions of their own.
Crash ==
  /\ up /\ crashes < MaxCrashes
  /\ crashes' = crashes + 1 /\ up' = FALSE
  /\ thread' = Free /\ todo' = {} /\ probe' = NoProbe
  /\ monitor' = Sleeping /\ pend' = {}
  /\ turn' = [s \in Sessions |-> FALSE]
  /\ mem' = Dropped
  /\ UNCHANGED <<disk, jobVars, clockVars, answers, continued, failures, exists, turns>>

Restart ==
  /\ ~up /\ up' = TRUE
  /\ UNCHANGED <<disk, jobVars, clockVars, threadVars, monitorVars, chatVars, crashes>>

-----------------------------------------------------------------------------
ThreadStep ==
  \/ LaunchSave \/ RefreshEnd \/ KillSignal \/ KillSave \/ Mark
  \/ \E j \in Jobs : ProbeExit(j) \/ ProbeProcess(j) \/ ProbeAgain(j)

MonitorStep ==
  Tick \/ FollowFails \/ FollowEnds \/ EndTick \/ \E j \in Jobs : Follow(j)

ToolStep ==
  \/ ToolLists
  \/ \E j \in Jobs : ToolKills(j) \/ \E s \in Sessions, p \in Pids : Launch(j, s, p)

ProcessStep ==
  \/ \E j \in Jobs : ExitWritten(j) \/ Vanish(j) \/ \E c \in Outcomes : CommandEnds(j, c)
  \/ \E p \in Pids : Reap(p)

ClockStep == \E j \in Jobs : Overdue(j) \/ Age(j)

SessionStep == \E s \in Sessions : TurnStarts(s) \/ TurnEnds(s) \/ Delete(s)

Next ==
  \/ ThreadStep \/ MonitorStep \/ ToolStep \/ ProcessStep \/ ClockStep \/ SessionStep
  \/ Crash \/ Restart

Spec == Init /\ [][Next]_vars

(* A synchronous function runs to its end, time passes, a server is started *)
(* again and a turn ends.  The event loop is first-in first-out, so the     *)
(* monitor gets its turn although others run between its steps.             *)
Fairness ==
  /\ WF_vars(ThreadStep) /\ SF_vars(MonitorStep) /\ WF_vars(Restart)
  /\ \A j \in Jobs : WF_vars(Overdue(j))
  /\ \A s \in Sessions : SF_vars(TurnEnds(s))

FairSpec == Spec /\ Fairness

-----------------------------------------------------------------------------
(* Properties.                                                              *)

Stores == [Jobs -> Records \cup {None}]

StoreTypes == disk \in Stores /\ mem \in Stores

ProcTypes ==
  /\ proc \in [Jobs -> {"none", "running", "writing", "gone"}]
  /\ command \in [Jobs -> {None, "runs", "ok", "bad"}]
  /\ exitFile \in [Jobs -> {"absent", "empty", "ok", "bad"}]
  /\ holder \in [Pids -> Jobs \cup {None}]
  /\ term \in [Jobs -> BOOLEAN]
  /\ overdue \in [Jobs -> BOOLEAN] /\ old \in [Jobs -> BOOLEAN]
  /\ up \in BOOLEAN

ThreadTypes ==
  /\ thread \in [op : {"free", "launch", "poll", "list", "kill", "signal", "killed", "mark"},
                 job : Jobs \cup {None}]
  /\ todo \in SUBSET Jobs
  /\ probe \in [job : Jobs \cup {None}, saw : {"nothing", "no exit", "no process"}]

MonitorTypes ==
  /\ monitor \in [at : {"sleep", "refresh", "tick", "agent"}, job : Jobs \cup {None}]
  /\ pend \in SUBSET Jobs
  /\ turn \in [Sessions -> BOOLEAN] /\ exists \in [Sessions -> BOOLEAN]
  /\ answers \in [Jobs -> Nat] /\ continued \in SUBSET Jobs
  /\ turns \in 0..MaxTurns /\ failures \in 0..MaxFailures /\ crashes \in 0..MaxCrashes

TypeOK == StoreTypes /\ ProcTypes /\ ThreadTypes /\ MonitorTypes

\* "The user always hears back": a job counts as followed up only when the monitor
\* has added a message about it to its session, or the agent had killed it itself.
\* (A message is not yet an answer of the model: TransientFailureIsRetried below.)
FollowedMeansHeard ==
  \A j \in Recorded(disk) : disk[j].followed => answers[j] > 0 \/ disk[j].why = "killed"

\* A follow-up adds a second message about a job only if the server crashed between
\* the first and the saved flag.
AnsweredOncePerLife == \A j \in Jobs : answers[j] <= 1 + crashes

\* A job that wrote its exit file is never reported as having died without one.
DiedMeansNoExit ==
  \A j \in Finished(disk) : disk[j].why = "died" => exitFile[j] = "absent" /\ proc[j] = "gone"

\* An exit status is recorded only of a command that has ended, and never success
\* of one that failed.
ExitMeansEnded ==
  \A j \in Finished(disk) :
    disk[j].why = "exit" =>
      /\ command[j] \in {"ok", "bad"}
      /\ disk[j].status = "done" => command[j] = "ok"

\* A job is called killed or timed out only if the signal went to its own process
\* group (whose pid may have been another's since) or its wrapper was gone already.
KilledMeansSignalled ==
  \A j \in Finished(disk) : disk[j].why \in {"killed", "timed_out"} => term[j] \/ ~Alive(j)

\* What the store says of a finished job is true of its processes, though
\* refresh() looks at the exit file, the clock and the pid one after another.
OutcomeIsTrue == DiedMeansNoExit /\ ExitMeansEnded /\ KilledMeansSignalled

\* What the monitor took from the store before it awaited the agent still holds
\* when it comes back: the jobs on its list are finished and not followed up.
ListStaysValid ==
  \A j \in pend \cup (IF monitor.at = "agent" THEN {monitor.job} ELSE {}) : j \in Pending(disk)

\* The outcome of a finished job never changes, and its record leaves the store
\* only after the follow-up.
OutcomeIsFinal ==
  [][\A j \in Finished(disk) :
       IF disk'[j] = None THEN disk[j].followed
       ELSE /\ disk'[j].status = disk[j].status /\ disk'[j].why = disk[j].why
            /\ disk[j].followed => disk'[j].followed]_vars

\* Whoever launched a job always hears back, as long as the session is there: a
\* message about it is added.
HearsBack ==
  \A j \in Jobs :
    (j \in Recorded(disk))
      ~> (j \in Recorded(disk) =>
            answers[j] > 0 \/ disk[j].why = "killed" \/ ~exists[disk[j].session])

-----------------------------------------------------------------------------
(* What the code's own comments say, and TLC refutes.                       *)

\* bg_jobs.py:9-10: a restart "never loses a job or its result".
RunningIsRecorded ==
  \A j \in Jobs : Alive(j) /\ thread.op # "launch" => j \in Recorded(disk)

\* bg_jobs.py:97-99: the recorded exit code is the command's real exit status.
ExitCodeIsReal ==
  \A j \in Finished(disk) : disk[j].why = "exit" => (disk[j].status = "done" <=> command[j] = "ok")

\* bg_jobs.py:267, platform_compat.py:113: kill() and the time limit terminate the
\* job's process tree, so what is over in the store has stopped.
OverMeansStopped == \A j \in Finished(disk) : command[j] # "runs"

\* ... and it is the job's own tree: no other job's processes are signalled.
KillsItsOwn ==
  [][\A j \in Jobs : term'[j] /\ ~term[j] =>
       /\ thread.op = "signal" => thread.job = j
       /\ probe.saw = "no exit" => probe.job = j]_vars

\* bg_monitor.py:4-8: the flag is set only after the agent run succeeds, "so a
\* transient failure is simply retried on the next tick".
TransientFailureIsRetried ==
  \A j \in Recorded(disk) : disk[j].followed => j \in continued \/ disk[j].why = "killed"

\* bg_monitor.py:92-95: a follow-up does not write into a session that is
\* mid-stream.
NoWriteMidStream ==
  [][\A j \in Jobs : answers'[j] # answers[j] => ~turn[disk[j].session]]_vars

\* bg_monitor.py:85-88: a job whose session was deleted is considered handled,
\* so the monitor does not retry it for ever.
DeletedIsHandled ==
  \A j \in Jobs : (j \in Finished(disk) /\ ~exists[disk[j].session]) ~> (j \notin Pending(disk))
=============================================================================
