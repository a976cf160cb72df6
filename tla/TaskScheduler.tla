---------------------------- MODULE TaskScheduler ----------------------------
(***************************************************************************)
(* The scheduler of background tasks (class TaskScheduler of               *)
(* src/src/task_scheduler.py), the events that trigger tasks               *)
(* (src/src/event_bus.py) and the foreground gate tasks give way to        *)
(* (src/src/interactive_gate.py).                                          *)
(*                                                                         *)
(* Everything runs on one event loop, so code between two awaits is one    *)
(* step; `async with _executing_lock' never suspends, because nothing      *)
(* inside it does.  An execution is the asyncio task that runs             *)
(* _execute_task; it suspends before its first step, in the semaphore, in  *)
(* the quiet gate, in the task's own work, and while it waits for the      *)
(* foreground monitor it has cancelled.  A cancellation is delivered at    *)
(* its next step.                                                          *)
(***************************************************************************)
EXTENDS Naturals, Sequences, FiniteSets, SequencesExt, FiniteSetsExt

CONSTANTS
  Tasks,         \* scheduled tasks
  Kind,          \* each one's trigger: "event", "once" or "repeat"
  ModelBacked,   \* the tasks _task_needs_model_slot holds of
  AdminOnly,     \* tasks whose action only an admin may run
  Then,          \* each task's then_task_id, or None
  Execs,         \* names for executions, used again
  None,          \* Python's None
  Budgets        \* bounds: how often the environment does each thing, one at a time

Deeds == {"event", "run", "force", "stop", "request", "stream", "pause", "crash"}

Active == {"queued", "running"}      \* a run that is not over

ASSUME ConstantsAssumption ==
  /\ None \notin Tasks \cup Execs \cup Active
  /\ Kind \in [Tasks -> {"event", "once", "repeat"}]
  /\ ModelBacked \subseteq Tasks /\ AdminOnly \subseteq Tasks
  /\ Then \in [Tasks -> Tasks \cup {None}]
  /\ Budgets \subseteq [Deeds -> Nat] /\ Budgets # {}

VARIABLES
  tasks,      \* the scheduled_tasks rows: status and next_run (unset, past, future)
  owed,       \* a trigger of the task is to be answered: no run has begun since
              \* ("waiting"), or one has and is not over ("running")
  rows,       \* the status of each execution's task_runs row, or None
  recent,     \* executions with a row, in the order of started_at
  exec,       \* the executions
  handles,    \* _task_handles
  executing,  \* _executing
  slot,       \* the execution that holds _run_semaphore, or None
  waiters,    \* its waiters, first come first served
  foreground, \* has_foreground_activity()
  stopper,    \* a request's stop_background_tasks_for_foreground is to run
  up,         \* the server runs
  spent       \* what the bounds count

vars == <<tasks, owed, rows, recent, exec, handles, executing, slot, waiters,
          foreground, stopper, up, spent>>

NoExec == [at |-> "free", task |-> None, forced |-> FALSE, cancel |-> "no",
           hit |-> FALSE, unset |-> FALSE, out |-> "none"]

Rows == Active \cup {"success", "error", "aborted", "skipped", None}

\* Each field of an execution: where it is suspended, its task, whether it is
\* a forced run, who cancelled it, whether its foreground monitor did, whether
\* it loaded next_run as unset, and how its work ended.
Executions ==
  [at : {"free", "spawned", "chained", "slot", "gate", "work", "winding"},
   task : Tasks \cup {None}, forced : BOOLEAN, cancel : {"no", "user", "foreground"},
   hit : BOOLEAN, unset : BOOLEAN, out : {"none", "success", "error", "raised", "left"}]

\* s is within one of the budgets.
Within(s) == \E b \in Budgets : \A d \in Deeds : s[d] <= b[d]

TypeOK ==
  /\ tasks \in [Tasks -> [status : {"active", "paused", "completed"},
                          next : {"unset", "past", "future"}]]
  /\ owed \in [Tasks -> {"no", "waiting", "running"}]
  /\ rows \in [Execs -> Rows]
  /\ exec \in [Execs -> Executions]
  /\ handles \in [Tasks -> Execs \cup {None}] /\ executing \subseteq Tasks
  /\ slot \in Execs \cup {None}
  /\ IsInjective(waiters) /\ ToSet(waiters) \subseteq Execs
  /\ IsInjective(recent) /\ ToSet(recent) \subseteq Execs
  /\ {foreground, stopper, up} \subseteq BOOLEAN
  /\ spent \in [Deeds -> Nat] /\ Within(spent)

\* The database holds active tasks, and the scheduler has just started.
Init ==
  /\ tasks = [t \in Tasks |-> [status |-> "active",
                               next |-> IF Kind[t] = "event" THEN "unset" ELSE "future"]]
  /\ owed = [t \in Tasks |-> "no"]
  /\ rows = [e \in Execs |-> None] /\ recent = <<>>
  /\ exec = [e \in Execs |-> NoExec]
  /\ handles = [t \in Tasks |-> None] /\ executing = {}
  /\ slot = None /\ waiters = <<>>
  /\ foreground = FALSE /\ stopper = FALSE /\ up = TRUE
  /\ spent = [d \in Deeds |-> 0]

-----------------------------------------------------------------------------
(* Helpers.                                                                 *)

Free == {e \in Execs : exec[e].at = "free"}
Live == Execs \ Free
TaskOf(e) == exec[e].task

Spend(d) == spent' = [spent EXCEPT ![d] = @ + 1] /\ Within(spent')

Begun(t, at, forced) == [NoExec EXCEPT !.task = t, !.at = at, !.forced = forced]

\* create_task() of an execution of every t of `due', on names that are free;
\* ex and rw are the executions and rows as the rest of the step leaves them.
Spawn(due, at, forced, ex, rw) ==
  \E name \in Injection(due, Free) :
    LET by(e) == {t \in due : name[t] = e}
    IN  /\ exec' = [e \in Execs |-> IF by(e) = {} THEN ex[e]
                                    ELSE Begun(CHOOSE t \in by(e) : TRUE, at, forced)]
        /\ rows' = [e \in Execs |-> IF by(e) = {} THEN rw[e] ELSE None]

\* compute_next_run() after the occurrence: a task that runs once has no next.
NextTime(t) == IF Kind[t] = "repeat" THEN "future" ELSE "unset"

\* e assigns next_run; clearing what it loaded as unset writes nothing.
SetNext(e, next) ==
  [tasks EXCEPT ![TaskOf(e)].next = IF next = "unset" /\ exec[e].unset THEN @ ELSE next]

\* What becomes of the trigger that e, begun for it, answers.
Answer(e, how) == [owed EXCEPT ![TaskOf(e)] = IF @ = "running" THEN how ELSE @]

\* The row _mark_run_aborted(t) takes: t's latest that is not over.
Newest(t) ==
  LET mine == SelectSeq(recent, LAMBDA e : TaskOf(e) = t /\ rows[e] \in Active)
  IN  IF mine = <<>> THEN {} ELSE {Last(mine)}

Abort(es) == [e \in Execs |-> IF e \in es THEN "aborted" ELSE rows[e]]

Without(seq, e) == SelectSeq(seq, LAMBDA x : x # e)

\* _has_chain_cycle: a chain is followed if it ends within ten tasks.
Chainable(s) ==
  LET walk[n \in 0..10] == IF n = 0 THEN s
                           ELSE IF walk[n-1] = None THEN None ELSE Then[walk[n-1]]
  IN  walk[10] = None

\* e's first step: it registers its handle and creates its row, before it
\* meets any condition; a chained one has joined _executing.
First(e)      == exec[e].at \in {"spawned", "chained"}
HandlesOf(e)  == IF First(e) THEN [handles EXCEPT ![TaskOf(e)] = e] ELSE handles
RowsOf(e)     == IF First(e) THEN [rows EXCEPT ![e] = "queued"] ELSE rows
JoinedBy(e)   == IF exec[e].at = "chained" THEN executing \cup {TaskOf(e)} ELSE executing

-----------------------------------------------------------------------------
(* The end of an execution: the two `finally's and the semaphore's exit.    *)

\* Fault: the slot is freed and no waiter is woken.
ReleaseWakesNobody(e) ==
  /\ slot' = IF slot = e THEN None ELSE slot
  /\ waiters' = Without(waiters, e)

Release(e) ==
  IF slot = e
  THEN /\ slot' = IF waiters = <<>> THEN None ELSE Head(waiters)
       /\ waiters' = IF waiters = <<>> THEN <<>> ELSE Tail(waiters)
  ELSE waiters' = Without(waiters, e) /\ UNCHANGED slot

\* Fault: only runs that were forced leave _executing.
ForgetKeepsId(e) ==
  /\ handles' = [HandlesOf(e) EXCEPT ![TaskOf(e)] = IF @ = e THEN None ELSE @]
  /\ executing' = IF exec[e].forced THEN executing \ {TaskOf(e)} ELSE executing
  /\ recent' = Without(recent, e)

Forget(e) ==
  /\ handles' = [HandlesOf(e) EXCEPT ![TaskOf(e)] = IF @ = e THEN None ELSE @]
  /\ executing' = IF exec[e].forced THEN executing ELSE executing \ {TaskOf(e)}
  /\ recent' = Without(recent, e)

Gone(e) == [exec EXCEPT ![e] = NoExec]

End(e) == exec' = Gone(e) /\ Forget(e) /\ Release(e)

-----------------------------------------------------------------------------
(* _execute_task and _execute_task_locked up to the work.                   *)

NeedsSlot(e) == ~exec[e].forced /\ TaskOf(e) \in ModelBacked

\* e keeps on, suspended at `at', with its handle, row and slot.
Suspend(e, at) ==
  /\ handles' = HandlesOf(e) /\ executing' = JoinedBy(e)
  /\ slot' = IF NeedsSlot(e) THEN e ELSE slot
  /\ exec' = [exec EXCEPT ![e].at = at]
  /\ UNCHANGED waiters

\* The task is no longer active: the run is skipped.
Skip(e) ==
  /\ tasks[TaskOf(e)].status # "active"
  /\ rows' = [RowsOf(e) EXCEPT ![e] = IF @ = "queued" THEN "skipped" ELSE @]
  /\ End(e)
  /\ UNCHANGED <<tasks, owed>>

\* An admin-only action whose owner has not, or no longer, the privilege.
Block(e) ==
  /\ tasks[TaskOf(e)].status = "active" /\ TaskOf(e) \in AdminOnly
  /\ rows' = [RowsOf(e) EXCEPT ![e] = "error"]
  /\ tasks' = [tasks EXCEPT ![TaskOf(e)] = [status |-> "paused", next |-> "unset"]]
  /\ owed' = [owed EXCEPT ![TaskOf(e)] = "no"]
  /\ End(e)

Gate(e) ==
  /\ tasks[TaskOf(e)].status = "active"
  /\ ~exec[e].forced /\ foreground
  /\ Suspend(e, "gate")
  /\ rows' = RowsOf(e)
  /\ recent' = IF First(e) THEN Append(recent, e) ELSE recent
  /\ UNCHANGED <<tasks, owed>>

\* The row says running, started now; neither it nor the task is looked at again.
Enter(e) ==
  /\ handles' = HandlesOf(e) /\ executing' = JoinedBy(e)
  /\ slot' = IF NeedsSlot(e) THEN e ELSE slot
  /\ exec' = [exec EXCEPT ![e].at = "work", ![e].unset = tasks[TaskOf(e)].next = "unset"]
  /\ rows' = [rows EXCEPT ![e] = "running"]
  /\ recent' = Append(Without(recent, e), e)
  /\ owed' = [owed EXCEPT ![TaskOf(e)] = IF @ = "waiting" THEN "running" ELSE @]
  /\ UNCHANGED <<tasks, waiters>>

Admit(e) ==
  \/ Skip(e) \/ Block(e) \/ Gate(e)
  \/ /\ tasks[TaskOf(e)].status = "active"
     /\ exec[e].forced \/ ~foreground
     /\ Enter(e)

\* A chained run whose task is already in flight is dropped.
Drop(e) ==
  /\ exec[e].at = "chained" /\ TaskOf(e) \in executing
  /\ exec' = Gone(e)
  /\ UNCHANGED <<tasks, owed, rows, recent, handles, executing, slot, waiters>>

Queue(e) ==
  /\ NeedsSlot(e) /\ slot # None
  /\ exec' = [exec EXCEPT ![e].at = "slot"]
  /\ rows' = RowsOf(e) /\ recent' = Append(recent, e)
  /\ handles' = HandlesOf(e) /\ executing' = JoinedBy(e)
  /\ waiters' = Append(waiters, e)
  /\ UNCHANGED <<tasks, owed, slot>>

Start(e) ==
  /\ up /\ First(e)
  /\ \/ Drop(e)
     \/ /\ ~(exec[e].at = "chained" /\ TaskOf(e) \in executing)
        /\ \/ Queue(e)
           \/ (~NeedsSlot(e) \/ slot = None) /\ Admit(e)
  /\ UNCHANGED <<foreground, stopper, up, spent>>

Acquire(e) ==
  /\ up /\ exec[e].at = "slot" /\ slot = e /\ exec[e].cancel = "no"
  /\ Admit(e)
  /\ UNCHANGED <<foreground, stopper, up, spent>>

Quiet(e) ==
  /\ up /\ exec[e].at = "gate" /\ ~foreground /\ exec[e].cancel = "no"
  /\ Enter(e)
  /\ UNCHANGED <<foreground, stopper, up, spent>>

-----------------------------------------------------------------------------
(* The work, and the cancellations.                                         *)

\* The foreground monitor of a gated execution interrupts it.
Monitor(e) ==
  /\ up /\ exec[e].at = "work" /\ ~exec[e].forced /\ foreground /\ ~exec[e].hit
  /\ exec' = [exec EXCEPT ![e].hit = TRUE,
                          ![e].cancel = IF @ = "no" THEN "foreground" ELSE @]
  /\ UNCHANGED <<tasks, owed, rows, recent, handles, executing, slot, waiters,
                 foreground, stopper, up, spent>>

\* e is through with its task.  It leaves at once, or after it has awaited the
\* monitor it cancels, unless there is none or the monitor is done.
Retire(e) ==
  IF exec[e].forced \/ exec[e].hit THEN End(e)
  ELSE /\ exec' = [exec EXCEPT ![e].at = "winding", ![e].out = "left", ![e].cancel = "no"]
       /\ UNCHANGED <<recent, handles, executing, slot, waiters>>

\* TaskDeferred: the row goes, the task comes back later.
Defers(e) ==
  /\ rows' = [rows EXCEPT ![e] = None]
  /\ tasks' = SetNext(e, "future")
  /\ owed' = Answer(e, "waiting")
  /\ Retire(e)

\* TaskNoop: there was nothing to do.
Noop(e) ==
  /\ rows' = [rows EXCEPT ![e] = "skipped"]
  /\ tasks' = SetNext(e, NextTime(TaskOf(e)))
  /\ owed' = Answer(e, "no")
  /\ Retire(e)

\* A run that ended well, or whose action reported a failure.
Completes(e, out) ==
  LET t == TaskOf(e)
      next == SetNext(e, NextTime(t))
      chained == IF out = "success" /\ Then[t] # None /\ Chainable(Then[t]) THEN {Then[t]} ELSE {}
  IN  /\ tasks' = IF Kind[t] = "once" THEN [next EXCEPT ![t].status = "completed"] ELSE next
      /\ Spawn(chained, "chained", FALSE, Gone(e), [rows EXCEPT ![e] = out])

\* A run that raised: its schedule moves on; a row that is aborted stays so.
Raises(e) ==
  /\ tasks' = IF Kind[TaskOf(e)] = "event" THEN tasks ELSE SetNext(e, NextTime(TaskOf(e)))
  /\ rows' = [rows EXCEPT ![e] = IF @ = "running" THEN "error" ELSE @]
  /\ exec' = Gone(e)

Finish(e, out) ==
  /\ IF out = "raised" THEN Raises(e) ELSE Completes(e, out)
  /\ owed' = Answer(e, "no")
  /\ Forget(e) /\ Release(e)

Return(e) ==
  /\ up /\ exec[e].at = "work" /\ exec[e].cancel = "no"
  /\ \/ Defers(e) \/ Noop(e)
     \/ \E out \in {"success", "error", "raised"} :
          \/ exec[e].forced /\ Finish(e, out)
          \/ /\ ~exec[e].forced
             /\ exec' = [exec EXCEPT ![e].at = "winding", ![e].out = out]
             /\ UNCHANGED <<tasks, owed, rows, recent, handles, executing, slot, waiters>>
  /\ UNCHANGED <<foreground, stopper, up, spent>>

\* The monitor has ended.  A cancellation of e that comes while it awaits the
\* monitor is taken for the monitor's and ignored.
Unwind(e) ==
  /\ up /\ exec[e].at = "winding"
  /\ \/ exec[e].out = "left" /\ End(e) /\ UNCHANGED <<tasks, owed, rows>>
     \/ exec[e].out # "left" /\ Finish(e, exec[e].out)
  /\ UNCHANGED <<foreground, stopper, up, spent>>

\* CancelledError before the work: the row is aborted, a task that is due is
\* put off by a quarter of an hour.
CancelledQueued(e) ==
  /\ exec[e].at \in {"slot", "gate"}
  /\ rows' = Abort({e} \cap {x \in Execs : rows[x] \in Active})
  /\ tasks' = [tasks EXCEPT ![TaskOf(e)].next =
                 IF tasks[TaskOf(e)].status = "active" /\ @ = "past" THEN "future" ELSE @]
  /\ End(e)
  /\ UNCHANGED owed

\* CancelledError in the work: only the monitor's cancellation defers the task.
CancelledWorking(e) ==
  /\ exec[e].at = "work"
  /\ rows' = Abort({e})
  /\ tasks' = SetNext(e, IF exec[e].hit THEN "future" ELSE NextTime(TaskOf(e)))
  /\ owed' = Answer(e, IF exec[e].cancel = "user" THEN "no" ELSE "waiting")
  /\ Retire(e)

Cancelled(e) ==
  /\ up /\ exec[e].cancel # "no"
  /\ CancelledQueued(e) \/ CancelledWorking(e)
  /\ UNCHANGED <<foreground, stopper, up, spent>>

-----------------------------------------------------------------------------
(* The scheduler's loop, the triggers and the routes.                       *)

Due == {t \in Tasks : tasks[t].status = "active" /\ tasks[t].next = "past"}

\* Fault: tasks that are put off are left in _executing.
TickLeaks ==
  LET due == Due \ executing
  IN  /\ up /\ due # {}
      /\ executing' = executing \cup due
      /\ IF foreground
         THEN /\ tasks' = [t \in Tasks |-> IF t \in due THEN [tasks[t] EXCEPT !.next = "future"]
                                            ELSE tasks[t]]
              /\ UNCHANGED <<exec, rows>>
         ELSE Spawn(due, "spawned", FALSE, exec, rows) /\ UNCHANGED tasks
      /\ UNCHANGED <<owed, recent, handles, slot, waiters, foreground, stopper, up, spent>>

\* _check_due_tasks.
Tick ==
  LET due == Due \ executing
  IN  /\ up /\ due # {}
      /\ \/ /\ foreground
            /\ tasks' = [t \in Tasks |-> IF t \in due THEN [tasks[t] EXCEPT !.next = "future"]
                                         ELSE tasks[t]]
            /\ UNCHANGED <<executing, exec, rows>>
         \/ /\ ~foreground
            /\ executing' = executing \cup due
            /\ Spawn(due, "spawned", FALSE, exec, rows)
            /\ UNCHANGED tasks
      /\ UNCHANGED <<owed, recent, handles, slot, waiters, foreground, stopper, up, spent>>

\* A scheduled or deferred time comes.  For an event task it is no new trigger.
TimePasses(t) ==
  /\ tasks[t].status = "active" /\ tasks[t].next = "future"
  /\ tasks' = [tasks EXCEPT ![t].next = "past"]
  /\ owed' = IF Kind[t] = "event" THEN owed ELSE [owed EXCEPT ![t] = "waiting"]
  /\ UNCHANGED <<rows, recent, exec, handles, executing, slot, waiters, foreground, stopper,
                 up, spent>>

\* Fault: a manual run does not look at _executing.
RunNowAnyway(t) ==
  executing' = executing \cup {t} /\ Spawn({t}, "spawned", FALSE, exec, rows)

\* run_task_now(t): nothing happens when t is in flight.
RunNow(t) ==
  IF t \in executing THEN UNCHANGED <<executing, exec, rows>>
  ELSE executing' = executing \cup {t} /\ Spawn({t}, "spawned", FALSE, exec, rows)

\* Fault: the counter is reset and the trigger left to the running scheduler.
EventUnsaved(t) ==
  /\ up /\ Kind[t] = "event" /\ tasks[t].status = "active" /\ Spend("event")
  /\ owed' = [owed EXCEPT ![t] = "waiting"]
  /\ RunNow(t)
  /\ UNCHANGED <<tasks, recent, handles, slot, waiters, foreground, stopper, up>>

\* _handle_event, for the event that reaches the task's threshold.
Event(t) ==
  /\ up /\ Kind[t] = "event" /\ tasks[t].status = "active" /\ Spend("event")
  /\ tasks' = [tasks EXCEPT ![t].next = "past"]
  /\ owed' = [owed EXCEPT ![t] = "waiting"]
  /\ RunNow(t)
  /\ UNCHANGED <<recent, handles, slot, waiters, foreground, stopper, up>>

Run(t) ==
  /\ up /\ t \notin executing /\ Spend("run")
  /\ RunNow(t)
  /\ UNCHANGED <<tasks, owed, recent, handles, slot, waiters, foreground, stopper, up>>

\* run_task_now(t, force=True): beside whatever runs, and not in _executing.
ForceRun(t) ==
  /\ up /\ Spend("force")
  /\ Spawn({t}, "spawned", TRUE, exec, rows)
  /\ UNCHANGED <<tasks, owed, recent, handles, executing, slot, waiters, foreground,
                 stopper, up>>

\* stop_task(t).
Stop(t) ==
  /\ up /\ Spend("stop")
  /\ handles[t] # None \/ t \in executing
  /\ exec' = IF handles[t] = None THEN exec ELSE [exec EXCEPT ![handles[t]].cancel = "user"]
  /\ executing' = executing \ {t}
  /\ rows' = Abort(Newest(t))
  /\ owed' = [owed EXCEPT ![t] = "no"]
  /\ UNCHANGED <<tasks, recent, handles, slot, waiters, foreground, stopper, up>>

\* A foreground request: the gate closes and the middleware starts a stopper.
Request ==
  /\ up /\ Spend("request")
  /\ foreground' = TRUE /\ stopper' = TRUE
  /\ UNCHANGED <<tasks, owed, rows, recent, exec, handles, executing, slot, waiters, up>>

\* Foreground activity no request announces: a chat stream that works on.
Stream ==
  /\ up /\ ~foreground /\ Spend("stream")
  /\ foreground' = TRUE
  /\ UNCHANGED <<tasks, owed, rows, recent, exec, handles, executing, slot, waiters,
                 stopper, up>>

\* Quiet for 1.5 s after the last activity: a request's stopper has run by then.
Hush ==
  /\ up /\ foreground /\ ~stopper /\ foreground' = FALSE
  /\ UNCHANGED <<tasks, owed, rows, recent, exec, handles, executing, slot, waiters,
                 stopper, up, spent>>

\* stop_background_tasks_for_foreground.
StopForForeground ==
  LET hit == {handles[t] : t \in executing}
  IN  /\ up /\ stopper /\ stopper' = FALSE
      /\ exec' = [e \in Execs |-> IF e \in hit /\ exec[e].cancel = "no"
                                  THEN [exec[e] EXCEPT !.cancel = "foreground"] ELSE exec[e]]
      /\ rows' = Abort(UNION {Newest(t) : t \in executing})
      /\ UNCHANGED <<tasks, owed, recent, handles, executing, slot, waiters, foreground,
                     up, spent>>

Pause(t) ==
  /\ up /\ tasks[t].status = "active" /\ Spend("pause")
  /\ tasks' = [tasks EXCEPT ![t].status = "paused"]
  /\ owed' = [owed EXCEPT ![t] = "no"]
  /\ UNCHANGED <<rows, recent, exec, handles, executing, slot, waiters, foreground, stopper, up>>

Resume(t) ==
  /\ up /\ tasks[t].status # "active"
  /\ tasks' = [tasks EXCEPT ![t] = [status |-> "active",
                                    next |-> IF Kind[t] = "event" THEN @.next ELSE NextTime(t)]]
  /\ UNCHANGED <<owed, rows, recent, exec, handles, executing, slot, waiters, foreground,
                 stopper, up, spent>>

Crash ==
  /\ up /\ Spend("crash") /\ up' = FALSE
  /\ exec' = [e \in Execs |-> NoExec] /\ recent' = <<>>
  /\ handles' = [t \in Tasks |-> None] /\ executing' = {}
  /\ slot' = None /\ waiters' = <<>>
  /\ foreground' = FALSE /\ stopper' = FALSE
  /\ owed' = [t \in Tasks |-> IF owed[t] = "running" THEN "waiting" ELSE owed[t]]
  /\ UNCHANGED <<tasks, rows>>

\* Fault: the restart does not look at the rows a crash left behind.
RestartKeepsRows ==
  /\ ~up /\ up' = TRUE
  /\ tasks' = [t \in Tasks |-> IF t \in Due THEN [tasks[t] EXCEPT !.next = "future"]
                               ELSE tasks[t]]
  /\ UNCHANGED <<owed, rows, recent, exec, handles, executing, slot, waiters, foreground,
                 stopper, spent>>

\* start(): runs cut short are aborted, overdue tasks wait another minute.
Restart ==
  /\ ~up /\ up' = TRUE
  /\ rows' = Abort({e \in Execs : rows[e] \in Active})
  /\ tasks' = [t \in Tasks |-> IF t \in Due THEN [tasks[t] EXCEPT !.next = "future"]
                               ELSE tasks[t]]
  /\ UNCHANGED <<owed, recent, exec, handles, executing, slot, waiters, foreground,
                 stopper, spent>>

Step(e) ==
  Start(e) \/ Acquire(e) \/ Quiet(e) \/ Monitor(e) \/ Return(e) \/ Unwind(e) \/ Cancelled(e)

Next ==
  \/ Tick \/ Request \/ Stream \/ Hush \/ StopForForeground \/ Crash \/ Restart
  \/ \E e \in Execs : Step(e)
  \/ \E t \in Tasks : \/ TimePasses(t) \/ Event(t) \/ Run(t) \/ ForceRun(t) \/ Stop(t)
                      \/ Pause(t) \/ Resume(t)

Spec == Init /\ [][Next]_vars

\* The event loop runs what is ready, time passes, work ends, and a server that
\* crashed is started again.
FairSpec ==
  /\ Spec
  /\ \A e \in Execs : WF_vars(Step(e)) /\ WF_vars(Monitor(e))
  /\ \A t \in Tasks : WF_vars(TimePasses(t))
  /\ WF_vars(Tick) /\ WF_vars(StopForForeground) /\ WF_vars(Restart)

-----------------------------------------------------------------------------
(* Properties.                                                              *)

\* _executing keeps a task from being dispatched twice (lines 338-342): no two
\* executions of one task are alive together, those apart that were forced.
OneRunPerTask ==
  \A e, d \in Live :
    (/\ TaskOf(e) = TaskOf(d)
     /\ ~exec[e].forced /\ ~exec[d].forced
     /\ "chained" \notin {exec[e].at, exec[d].at}) => e = d

\* So it is as long as nobody stops a task: a stop takes the id out while the
\* execution still runs.
OneRunUnlessStopped == spent["stop"] = 0 => OneRunPerTask

\* An id in _executing is that of an execution that will take it out: no task
\* is blocked for ever by an id left behind (lines 775-780, 1156-1162).
ExecutingIsLive ==
  \A t \in executing : \E e \in Live :
    TaskOf(e) = t /\ ~exec[e].forced /\ exec[e].at # "chained"

\* A handle belongs to a live execution of its task, so stopping a task never
\* cancels another one (lines 733-735, 772-774).
HandleIsLive ==
  \A t \in Tasks : handles[t] # None =>
    TaskOf(handles[t]) = t /\ exec[handles[t]].at \in {"slot", "gate", "work", "winding"}

\* What the scheduler keeps of a task is of a live execution of it.
RegistriesAreLive == ExecutingIsLive /\ HandleIsLive

\* While the server runs, a row that says queued or running is that of a live
\* execution: Activity shows no phantom runs (lines 443-470).
NoPhantomRun == up => \A e \in Execs : rows[e] \in Active => e \in Live

\* Why the three that the runs check together hold.  The values the rest rests
\* on: an execution that is alive has a task.
Shape ==
  /\ exec \in [Execs -> Executions]
  /\ \A e \in Live : TaskOf(e) \in Tasks
  /\ handles \in [Tasks -> Execs \cup {None}] /\ executing \subseteq Tasks
  /\ rows \in [Execs -> Rows]
  /\ up \in BOOLEAN /\ spent \in [Deeds -> Nat]

\* What the row of an execution may say, by where the execution is: each way
\* out of there leaves a row that is over.
Fits(x, row) ==
  /\ x.at = "free" => ~up \/ row \notin Active
  /\ x.at \in {"spawned", "chained"} => row \notin Active
  /\ x.at \in {"slot", "gate"} => row # "running"
  /\ x.at = "work" => row # "queued"
  /\ x.at = "winding" => x.out # "none" /\ row # "queued"
                          /\ (x.out = "left" => row # "running")
RowsFit == \A e \in Execs : Fits(exec[e], rows[e])

\* A server that is down has no executions and no registries.
DownIsEmpty ==
  ~up => Live = {} /\ executing = {} /\ \A t \in Tasks : handles[t] = None

\* Executions _executing answers for: all but forced ones and chained ones that
\* have not joined it.
Counted(e) == exec[e].at \notin {"free", "chained"} /\ ~exec[e].forced
CountedIsExecuting == spent["stop"] = 0 => \A e \in Execs : Counted(e) => TaskOf(e) \in executing

\* Only runs that are not forced are chained to.
ChainedUnforced == \A e \in Execs : exec[e].at = "chained" => ~exec[e].forced

IndInv == /\ Shape /\ RowsFit /\ DownIsEmpty /\ ExecutingIsLive /\ HandleIsLive
          /\ ChainedUnforced /\ CountedIsExecuting /\ OneRunUnlessStopped

\* A trigger no run has answered yet keeps its task's next_run set: an event
\* whose counter was reset is not lost, not even by a restart (event_bus.py
\* 99-105).
TriggerSurvives ==
  \A t \in Tasks : owed[t] = "waiting" /\ tasks[t].status = "active" => tasks[t].next # "unset"

\* Where that is proved: the scheduler is not disturbed.  One event, no user who
\* runs or stops a task, no request that stops them all, and whatever a success
\* chains to comes back by itself.  Without any one of these a run may clear the
\* next_run that a later trigger has set.
Undisturbed ==
  /\ \A b \in Budgets : /\ b["event"] <= 1
                       /\ \A d \in {"run", "force", "stop", "request"} : b[d] = 0
  /\ \A t \in Tasks : Then[t] # None => Kind[Then[t]] = "repeat"

\* What a task's row owes to its triggers, of which there were so many events: a
\* trigger to be answered is of an active task with a next_run.
Holds(kind, task, owing, events) ==
  /\ kind = "repeat" /\ task.status = "active" => task.next # "unset"
  /\ owing # "no" => task.status = "active" /\ task.next # "unset"
  /\ kind = "event" /\ events = 0 => task.next = "unset" /\ owing = "no"

\* An execution x still works on its task.
Working(x) == x.at = "work" \/ (x.at = "winding" /\ x.out # "left")

\* x answers the trigger it was begun for: no newer one comes while it works, and
\* only its foreground monitor cancels it.
Serves(kind, x, next, owing, events) ==
  /\ ~x.forced /\ (x.cancel # "no" => x.hit /\ x.at = "work")
  /\ x.at = "chained" => kind = "repeat"
  /\ kind = "event" => events # 0
  /\ kind # "repeat" /\ Working(x) => owing # "waiting"
  /\ kind = "once" /\ (x.at = "winding" => x.out # "left") => next # "future"

TriggersKept ==
  /\ tasks \in [Tasks -> [status : {"active", "paused", "completed"},
                          next : {"unset", "past", "future"}]]
  /\ owed \in [Tasks -> {"no", "waiting", "running"}]
  /\ Within(spent) /\ stopper = FALSE
  /\ \A t \in Tasks : Holds(Kind[t], tasks[t], owed[t], spent["event"])
  /\ \A e \in Live :
       LET t == TaskOf(e)
       IN  Serves(Kind[t], exec[e], tasks[t].next, owed[t], spent["event"])

\* When the foreground is quiet again and again, whoever queues for the model
\* slot gets out of the queue (lines 756-764).
QueueDrains ==
  []<>~foreground => \A e \in Execs : exec[e].at = "slot" ~> exec[e].at # "slot"

\* Then, too, every trigger of an active task is answered by a run.
TriggerIsAnswered ==
  []<>~foreground =>
    \A t \in Tasks : owed[t] = "waiting" /\ tasks[t].status = "active"
                       ~> owed[t] # "waiting" \/ tasks[t].status # "active"

\* A row marked aborted under a live execution is of one that is being
\* cancelled or is already done with its work (lines 371-398, 2243-2263).  Not so
\* once a forced run has taken the handle a stop would need.
AbortedIsCancelled ==
  \A e \in Live : rows[e] = "aborted" => exec[e].cancel # "no" \/ exec[e].at = "winding"

\* "Strict serial execution - exactly one task runs at a time.  Anything else
\* (manual trigger, scheduled dispatch, task chain) waits" (lines 345-348).
OneAtATime == \A e, d \in Execs : exec[e].at = "work" /\ exec[d].at = "work" => e = d

\* "automatic jobs will be deferred by their cancellation path instead of
\* stealing the app" (lines 2249-2250): a task the foreground cuts short runs later.
CutShortIsDeferred ==
  [][\A e \in Execs :
       exec[e].at = "work" /\ exec[e].cancel = "foreground" /\ exec'[e].at # "work" /\ up'
         => tasks'[TaskOf(e)].next = "future"]_vars

\* "Advance next_run even on failure so a broken task doesn't busy-loop the
\* scheduler every tick with a stale past date" (lines 1107-1108).
FailureMovesOn ==
  [][\A e \in Execs : rows[e] = "running" /\ rows'[e] = "error"
       => tasks'[TaskOf(e)].next # "past"]_vars

\* "Request cancellation of a running/queued task and mark its run aborted"
\* (line 2229): a run so marked does not go on to another outcome.
StoppedStaysStopped ==
  [][\A e \in Execs : rows[e] = "aborted" => rows'[e] \in {"aborted", None}]_vars
=============================================================================
