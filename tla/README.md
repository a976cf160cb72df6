# Zephyrus in TLA+

This directory holds TLA+ models of the concurrent core of Zephyrus, of its
server and of its browser client, the TLC
runs that check them on small instances, and TLAPS proofs of the properties
that matter most. Paths below are relative to the repository (`src/src/...` is
the Python package, `src/core` and `src/routes` its neighbours, `src/static/js` the browser client).

## 1. The system

Zephyrus is one asyncio server (FastAPI under uvicorn) with a browser client.
Almost every piece of state lives in module-level dictionaries of that one
process, beside an SQLite database and JSON files under `data/`. Nothing is
distributed; what makes it hard is that one event loop interleaves, at every
`await`, chat turns that outlive their HTTP connection, background tasks,
detached shell processes, cancellations from five places, and restarts. The
browser client is by far the larger part of the code. It has one event loop of
its own, keeps its state in the globals of its modules, and interleaves in the
same way fetches, streams, timers, dialogs and the user's clicks, all of which
find at their end another page than the one they began on.

| Component | State | Operations | Hard part |
|---|---|---|---|
| Detached agent runs (`src/src/agent_runs.py`, used by `routes/chat_routes.py`) | `_RUNS`: run of each session, its buffer of events, status, subscriber queues, drain task, eviction timer | start, stop, `_drain`, `_publish`, subscribe, `_schedule_evict` | replay meets live events; runs replace each other; cancellation at any await; sentinel against timeout |
| Background jobs (`src/src/bg_jobs.py`, `bg_monitor.py`, `agent_tools/bg_job_tools.py`) | `jobs.json`, one detached process per job, its exit file | launch, refresh, prune, kill, list; the monitor's follow-up turns | processes run beside the functions; pids are reused; the server crashes between any two steps; stale list across awaits |
| Task scheduler (`src/src/task_scheduler.py`, `event_bus.py`, `routes/task_routes.py`) | task rows and run rows, `_executing`, `_task_handles`, the model slot (semaphore), foreground monitors | tick, dispatch, execute, stop, force, chain, event trigger, pause, foreground stop, restart | four dispatchers, cancellation with three causes, two tables and two registries that must agree |
| Shared cache (`_cached` in `task_scheduler.py`) | value and pending future of each key | one operation: fetch once for all callers | cancellation of the owner or of a waiter |
| Interactive gate (`src/src/interactive_gate.py`) | count of active requests, time of last activity | track, wait until quiet | its answer is stale at once |
| Sessions and their messages (`src/core/session_manager.py`, `core/models.py`, `routes/history/history_routes.py`, `src/src/context_compactor.py`) | a row and its message rows; the object in `SessionManager.sessions`; the object each chat turn holds | load on first use, add, truncate, delete messages, merge, compact (two ways), delete, restart | two copies of every list, held across awaits; threads that load and delete; a cached count that decides what is loaded |
| Authentication (`src/core/auth.py`) | users, roles, tokens, second factor | create, delete, promote, log in, validate | last administrator, tokens of deleted users |
| Rate limiter (`src/src/rate_limiter.py`) | time stamps per client | check | window boundary |
| Device sign-in (`routes/device_flow.py`, `src/src/chatgpt_subscription.py`) | pending flows, tokens | start, poll, cancel, refresh | poll against cancel and expiry |
| Chat turn and agent loop (`src/src/agent_loop.py`, `chat_handler.py`) | per-turn locals, `_active_streams` | model calls, tools, saves | partial saves under cancellation |
| Chat page (`static/js/chat.js`, `sessions.js`) | the open chat, the history on screen, one reader per send, the globals they share (controller, queue, nudges), `_backgroundStreams`, the dots of the sidebar | send, queue, promote, stop, read, recover, change chats, rejoin, poll | readers outlive the chat that is open; a stream dropped, stopped, replaced or detached; timers that click |
| Document editor (`static/js/document.js`) | the tabs, one textarea for all of them, saves in flight, the review of a diff, versions | type, save, switch, close, minimise, review, compare, restore, delete; the agent opens, streams and updates | one textarea, one autosave timer and one review for many documents, which the agent changes under the user |
| Cookbook tasks (`static/js/cookbookRunning.js`, `cookbookDownload.js`, `cookbook.js`) | rows in `localStorage`, tombstones, watch loops; the list on the server; tmux sessions | download, queue, watch, poll, retry, stop, remove, clear, reload, merge | loops, polls, retries and a second device write one list without a lock |
| Mail window (`static/js/emailLibrary.js`) | one list, its cache by view, search and pills, chosen rows, requests in flight | open, pick folder, filter and account, search, poll, delete, bulk | every answer may be of a view left long ago; a uid means another mail in another folder |
| Context budget, research, memory, retrieval, uploads, calendar, email routes, MCP, model serving, the rest of the web client | see `PROJECT.json` | | |

How they interact: the chat route starts an agent run whose generator is the
chat turn; the turn's tools launch background jobs; the monitor polls the jobs
and, when one is over, runs an agent in the launching session unless
`agent_runs.is_active` says the session is busy; the scheduler asks the gate
(which looks at `_active_streams` and at `_RUNS`) whether the foreground is
busy before it lets a task work, and every HTTP request may cancel the
background tasks through `stop_background_tasks_for_foreground`.
Messages, uploads and chats fire events (`event_bus`) that become task triggers.
The chat page reads the stream an agent run publishes (`subscribe`), asks
`stream_status` whether to rejoin one, and stops it by session id; the stream's
`doc_*` events drive the document editor. The Cookbook and the mail window talk
to routes of their own.

`PROJECT.json` lists every component with its status, and every hazard with
the properties aimed at it, or why none is yet.

### What is hard about each modelled component, and what makes it correct

**Agent runs.** A chat turn runs in a task of its own (`_drain`), so that a
client may close the tab, reconnect and see the turn from its beginning. A
client that subscribes first replays the buffer and then reads a queue which
has been filling meanwhile, so events overlap; a run may be replaced by the
next send while its generator is still unwinding; a stop may land anywhere,
even before the task's first step; the buffer is freed by a timer that finds
its run by session id, long after the session may hold another run. It is
correct when every client receives exactly a prefix of the log and is told
"over" only with the whole of it, when nobody waits for a run that has ended,
when a task never writes into another run, and when a buffer is freed exactly
when it is finished and unwatched.

**Background jobs.** The store's functions are synchronous, so they exclude one
another, but the processes, the clock, the pid table and a crash of the server
do not wait for them. `refresh()` decides from four observations made at four
instants (exit file, time limit, pid, exit file again), and the monitor uses a
list across whole agent runs. A kill is one signal that nobody looks after, and a
failed call to the model looks to the monitor like an answer. It is correct when
an outcome is final and true to the process, when the list does not go stale, and
when whoever launched a job hears back, at most once per life of the server.

**Task scheduler.** The tick, the routes, the event bus and chains all
dispatch; a task may be cancelled by a user's stop, by an HTTP request or by its
own foreground monitor, in the queue, in the quiet gate, in its work or while it
waits for that monitor; and only the cause tells whether the task is to come
back. Two tables (tasks, runs) and two registries (`_executing`,
`_task_handles`) must agree at every suspension point. It is correct when a task
has one run at a time, ids and handles die with their execution, rows tell the
truth, a trigger is not lost, and the queue for the model slot drains.

**Shared cache.** Callers that miss share one fetch through one future; the
owner and the waiters are scheduled tasks and may be cancelled. It is correct
when there is one fetch at a time, its outcome reaches all callers, and it is
never left pending.

**Sessions.** Every message is kept twice, in `Session.history` and in
`chat_messages`, and counted twice, in `Session.message_count` and in the row.
Handlers change the four by hand, each in its own order; a chat turn keeps the
object it was given while it waits for models, and `get_session` may meanwhile
put another one in its place; compaction rebuilds the list from a copy made
before a model answered; `delete_session` runs in a thread, and so does
`get_session` in every route that is a plain function. It is correct when
memory and database hold the same messages, when the count never hides any
(after a restart it alone decides what is read, and what `cleanup_empty_sessions`
deletes), when turns and handlers share one object, and when no rebuilding loses,
repeats or reorders what was said.

**Chat page.** `handleChatSubmit` reads its stream in a loop that goes on when
the user opens another chat, so several readers run at once and share the
globals: the one abort controller, the streaming flag, the queue of messages,
the counter of recoveries. Which of them ends decides what the composer looks
like, what the sidebar marks and whether a dropped stream is continued by a
click 200 ms later, in whatever chat is open by then. It is correct when the
chat on screen is the open one, a reply that finished elsewhere keeps its dot,
recovery cannot feed itself, a stop hits the chat it is pressed in, and the
composer is never locked for good.

**Document editor.** Whoever shows a document puts it into the one textarea, and
whoever saves takes from it, for the document that is active at that moment:
the autosave timer, a switch, the review of a diff, the agent's stream, the
answer to an older save. It is correct when no text gets into another document,
a review belongs to the document on screen, no made-up id survives its stream,
and the server ends with what is on screen.

**Cookbook tasks.** A download is a row that four kinds of handlers move: watch
loops, a background poll, the queue of its host, the user; each of them waits
for a shell command in the middle, each page has a copy of the list, and the
server a third. It is correct when a queued row starts once, a session that
downloads is on some list, automatic relaunches are bounded, what was removed
stays so, and no row runs for ever.

**Mail window.** One list is replaced by loads, polls, searches, pills, the cache
and deletions. It is correct when it shows the view that is picked, when an
action touches the mails that were chosen, when what was deleted does not come
back from a cache, and when a spinner stands for something that is awaited.

## 2. The modules

| Module | Kind | Models |
|---|---|---|
| `ReplayLog` | abstract specification | what a detached run promises: a log that grows until it is closed, readers that receive it from its beginning and are told "over" when they have all of it |
| `AgentRuns` | component | `agent_runs.py` with the generator it drains and the SSE routes of `chat_routes.py`; implements `ReplayLog` |
| `AgentRunsProofs` | proofs | 9 theorems about `AgentRuns` |
| `BgJobs` | component | `bg_jobs.py`, `bg_monitor.py`, the job tools, and the operating system under them |
| `BgJobsProofs` | proofs | 7 theorems about `BgJobs` |
| `SharedCache` | component | `_cached` of `task_scheduler.py` |
| `TaskScheduler` | component | `TaskScheduler`, `event_bus._handle_event`, the routes that run, stop, pause and resume, the foreground gate as the scheduler sees it |
| `MCTaskScheduler` | instance | two tasks, their kinds, chains and budgets |
| `TaskSchedulerProofs` | proofs | 6 theorems about `TaskScheduler`, and 3 about `SharedCache` |
| `SessionHistory` | component | one session of `SessionManager`: memory, database, the turns that hold it, compaction, deletion, restart |
| `SessionHistoryProofs` | proofs | 4 theorems about `SessionHistory` |
| `MCSessionHistory` | instance | symmetry of turns |
| `ChatClient` | component | `chat.js` with the session switcher of `sessions.js` |
| `ChatClientProofs` | proofs | 6 theorems about `ChatClient` |
| `MCChatClient` | instance | 13 budgets |
| `DocumentEditor` | component | `document.js`: the editor, its reviews and what the agent does to it |
| `DocumentEditorProofs` | proofs | 5 theorems about `DocumentEditor` |
| `MCDocumentEditor` | instance | 17 budgets |
| `CookbookTasks` | component | the downloads of `cookbookRunning.js`, `cookbookDownload.js` and `cookbook.js` |
| `CookbookTasksProofs` | proofs | 4 theorems about `CookbookTasks` |
| `MCCookbookTasks` | instance | two models on one host, 32 budgets |
| `EmailLibrary` | component | the list of `emailLibrary.js` |
| `EmailLibraryProofs` | proofs | 6 theorems about `EmailLibrary` |
| `MCEmailLibrary` | instance | three mailboxes, 31 budgets |

Each component has one action per piece of code between two suspension points.
On one event loop that is the grain of interleaving: code that does not `await`
(or awaits a lock under which nothing suspends) is one step. In the browser the
code before an `await` and the code after it are two actions, and the
microtasks of a handler belong to its step. `ChatClient`, `DocumentEditor`,
`CookbookTasks` and `EmailLibrary` are built in the same way: the blocks the
handlers share are functions of the page (or of its globals), and an action
applies them in the order of the code. `PROJECT.json`
("map") names the lines of every definition. Definitions marked "Mutant of" or
"Fault" are deliberately wrong versions of a code operation: substituting one of
them for the operation must break the property it is paired with under the very
run that checks it ("mutants" in `PROJECT.json`), which shows that each
property depends on the code it is about.

### AgentRuns

| In the model | In the code |
|---|---|
| `current`, `status`, `buffer`, `subscribers`, `evictArmed` | `_RUNS[session_id]` and the fields of `_Run` |
| `active` | `chat_routes._active_streams[session_id]` |
| `pc`, `cancelled`, `awaits`, `into` | where `_drain` is suspended, a cancellation not delivered yet, `prev_task`, the run its lookup found |
| `produced`, `saves` | what `stream_with_save` has yielded and saved |
| `phase`, `reads`, `nextSeq`, `queue`, `delivered` | where a `subscribe()` generator is, its locals, and what its client got |
| `Start`, `Stop` | the chat route with `agent_runs.start`, the stop route with `stop` |
| `CancelUnstarted`, `FirstStep`, `PrevEnded`, `DrainChunk`, `DrainFinalSave`, `DrainDone`, `DrainError`, `DeliverCancel`, `Unwound` | the segments of `_drain` and of the generator's `except` and `finally` blocks |
| `EvictFire` | `_schedule_evict._evict` |
| `Resume`, `Subscribe`, `Replay`, `FlushMore`, `TakeEvent`, `TakeSentinel`, `TakeTimeout`, `Disconnect` | the resume route and the segments of `subscribe()` |

One session is enough: every dictionary is keyed by session id. An event is its
run, kind and index; heartbeats are left out, as they carry nothing.

### BgJobs

| In the model | In the code |
|---|---|
| `disk`, `mem`, `todo`, `probe`, `thread` | `jobs.json`, the dict a function works on, and how far it got |
| `proc`, `command`, `exitFile`, `holder` | the wrapper process, its command's end, the exit file, the system's pid table |
| `term` | a SIGTERM was sent to the job's process group (`kill_process_tree` of `core/platform_compat.py`) |
| `overdue`, `old` | the two time comparisons: `max_runtime_s` since the start, `_RETENTION_S` since the end |
| `monitor`, `pend`, `answers`, `continued`, `turn`, `exists` | the loop of `bg_monitor`, its list, the messages it added, the jobs after which a model really went on, and the session it answers in |
| `Launch`, `LaunchSave` | `launch()` before and after the process starts |
| `Tick`, `ToolLists`, `ToolKills`, `ProbeExit`, `ProbeProcess`, `ProbeAgain`, `RefreshEnd` | `refresh()` for its three callers, test by test |
| `KillSignal`, `KillSave` | `kill()` |
| `Follow`, `FollowFails`, `FollowEnds`, `Mark`, `EndTick` | `_run_followup` and `mark_followed_up` |
| `CommandEnds`, `ExitWritten`, `Vanish`, `Reap` | the shell wrapper and the operating system (external) |
| `Crash`, `Restart` | the server dies between any two steps; detached jobs run on |

`KillPid` only sends the signal, to the process group of whoever has the pid by
then; the code waits for nothing and sends no second signal, so the wrapper may go
(`Vanish`) or stay, and a command that traps the signal runs on with or without it.
`FollowFails` is a follow-up that raises. One whose call to the model fails does not:
the agent loop reports it in an `event: error` chunk (`src/agent_loop.py:3395-3403`)
that `_drain_agent` skips (`bg_monitor.py:44-45`), the text becomes "The model
returned an empty response" (`agent_loop.py:2477`), and `FollowEnds` adds that to the
session as it would an answer. On Windows
`kill_process_tree` runs `taskkill /F`; the model is of the POSIX branch.

Output text, the wrapper's quoting and the size limits are left out. The order
in which records are examined is free (in the code, that of a dict).

### SharedCache

`entry` and `pending` are `_shared_cache` and `_shared_cache_pending` of one key,
`dead` says that the registered future is cancelled, `call` where each caller is.
`Lookup`, `FetchReturns` and `FetchRaises` are the three segments of `_cached`;
`CancelOwner` and `CancelWaiter` follow asyncio: cancelling a task cancels the
future it awaits, and `CancelledError` is not an `Exception`.

### TaskScheduler

| In the model | In the code |
|---|---|
| `tasks`, `rows`, `recent` | `scheduled_tasks` (status, `next_run`) and `task_runs` (status, newest first) |
| `exec` | the asyncio tasks that run `_execute_task`, with their locals |
| `handles`, `executing`, `slot`, `waiters` | `_task_handles`, `_executing`, `_run_semaphore` |
| `foreground`, `stopper` | `has_foreground_activity()`, a pending `stop_background_tasks_for_foreground` |
| `owed` | history: a trigger no run has answered yet |
| `Tick`, `Run`, `ForceRun`, `Event`, and chains in `Return` | the four dispatchers |
| `Start`, `Acquire`, `Quiet`, `Monitor`, `Return`, `Unwind`, `Cancelled` | the segments of `_execute_task` and `_execute_task_locked` |
| `Stop`, `Request`, `Stream`, `Hush`, `StopForForeground` | `stop_task`, a request of the middleware, chat streams, the foreground stop |
| `Pause`, `Resume`, `Crash`, `Restart` | the routes, and `start()` after a crash |

`next_run` is unset, past or future. `foreground` stands for the whole of
`has_foreground_activity` with its quiet window. `SetNext` models that the ORM
writes nothing when a value loaded as unset is cleared. A trigger's counter is
taken at its threshold: every modelled event fires. Names of executions are
used again when their run is forgotten.

### SessionHistory

| In the model | In the code |
|---|---|
| `row`, `rows` | `message_count` of the session's row (`None`: no row), its `chat_messages` by time stamp |
| `cached`, `heap` | the object in `SessionManager.sessions`; `history`, `message_count` and the messages' `_db_id` of each `Session` object |
| `Opened`, `Known` | `get_session`: load what is not there, copy the count from the row; `KeyError` |
| `AddTo`, `Replace` | `Session.add_message` with `_persist_message`; `replace_messages` |
| `TurnBegins`, `TurnAsks`, `TurnSummarizes`, `TurnCompacts`, `TurnStreams`, `TurnAnswers`, `TurnEnds` | a chat turn between its awaits: `get_session`, `add_user_message`, `maybe_compact` before and after the summary, the stream, `save_assistant_response` |
| `AddMessage`, `Open`, `Truncate`, `DeleteMessages`, `MergeLast` | `SessionManager.add_message`, any reader on the event loop, and the handlers of `history_routes.py` |
| `reader`, `ThreadLoads`, `ThreadStores` | `get_session` in a worker thread, for `GET /api/history` (`session_routes.py:770-777`, which is registered before the handler of `history_routes.py`), archive and export: the rows are read, and later the object is stored |
| `Kept` | how much of the history the compact route keeps, `min(8, max(4, len // 4))` |
| `CompactBegins`, `CompactEnds`, `CompactFails` | `/api/session/{id}/compact` of `session_routes.py` before and after the summary (the route of the same path in `history_routes.py` is registered later and never reached) |
| `DeleteBegins`, `DeleteCommits`, `CrashRestart` | `delete_session` in its thread, `load_sessions` |
| `said`, `strayed` | history: the role of each message, and whether one of the three things happened that the properties leave out: a truncation to nothing, a deletion by an id that is another's, a thread that stores what it read after it was overtaken |

A message is its number, in the order in which messages are said, so that what
is in order has increasing numbers. Contents, edits of one message, metadata
other than the id, forks and renaming are left out, and so are uploads: a message
whose upload is missing stays in memory without a row
(`session_manager.py:236-245`), and a history with such a one is not replaced
(342-357). Commits succeed, but for those that meet a deletion. One session is
enough: nothing relates two. One thread loads at a time, it reads the session's row
and its messages together, and it acts between the steps of the event loop, never
inside one; a thread that finds the messages read is `Open`. The messages that
`inject_messages` adds are those of a turn.

### ChatClient

| In the model | In the code |
|---|---|
| `cur`, `token`, `loads` | `currentSessionId`, `_sessionNavToken`, the calls of `selectSession` in progress |
| `box` | `#chat-history`: whose history it shows, live holders, finished replies |
| `turn` | the calls of `handleChatSubmit` that send, and where their readers are |
| `ui` | `isStreaming`, `currentAbort`, `_streamSessionId`, the queue and its timers, `_autoNudgeCount`, `_hideNextUserBubble` |
| `bg`, `polls`, `resuming`, `checks`, `waits` | `_backgroundStreams` and everything that waits for a background stream |
| `completed`, `marked` | the dots of the sidebar |
| `run`, `saved`, `stops` | the server (`agent_runs._drain`, `chat_stop`): live runs, saved replies, stop requests |
| `TypeAndSend`, `Post`, `UploadFails`, `QueueAgentRequest`, `DrainFires`, `PromoteQueuedRequest`, `PromotedFires`, `RecoverFires`, `ClickStop` | the send path with its two waits, the queue, the automatic continuation, the stop branch |
| `ReadLine`, `ReadDone`, `ReadClose`, `ReadFails`, `ReadRefusal`, `ReadErrorAway`, `Caught`, `CaughtForGood`, `Returned` | the reader loop, its returns (a POST refused, an error of the model read while another chat is open), its `catch`, for errors that are retried and for those that are not, and its `finally` |
| `ProbeStarts`, `ProbeAnswers` | the watchdog for a silent stream |
| `SelectSession`, `HistoryArrives`, `HistoryFails`, `HistoryRenders`, `PollTick`, `CheckAnswers`, `WaitTick`, `ResumeEnds` | `selectSession` between its awaits, `checkBackgroundStream`, `_checkServerStream`, `resumeStream` |

A reply is its turn. A refused POST is an answer other than 200; after a 404 the
list of sessions is loaded again (1376-1381), which is left out. An error of the
model in the open chat is text in its bubble and changes nothing here. Which of the
two ways of `catch` a lost connection takes is free. Left out: `_sendInFlight`, the text in the holder,
`_pendingContinue`, incognito, the loading skeleton, the response timeout, tab
recovery, sessions not created yet, compare, group and research.

### DocumentEditor

| In the model | In the code |
|---|---|
| `page` | the module's globals: `activeDocId`, `docs` (the tabs), the textarea, the panel, the timers, saves in flight, the diff, the animation, the streamed document, the text put aside for versions |
| `server`, `agent` | what the document routes and the agent's tools do to texts, and the run with its tool call and its events |
| `waits` | fetches and dialogs some handler awaits |
| `SaveDocument`, `ExitDiffMode`, `Between`, `EnterDiffMode`, `SwitchToDoc`, `OpenPanel`, `ClosePanel`, `StreamDocOpen`, `StreamDocDelta`, `HandleDocUpdate`, ... | the functions of those names |
| `Type`, `AutoSave`, `ClickTab`, `CloseTab`, `Minimise`, `LoadDocument`, ... | the user and the timer at the tabs |
| `PutHandled`, `PutFails`, `PutAnswered` | a save, handled in order, and its answer |
| `CallOpens`, `CallStreams`, `CallWrites`, `EditWrites`, `DocUpdate`, `Replay`, `Poll` | the agent's tools and their events, on screen or replayed on return |
| `ResolveChunk`, `LaterFires`, `Compare`, `Compared`, `AskVersion`, `Restored`, `AskDelete`, `Deleted` | reviews, versions, deletion |

A text is the set of marks written into it; a mark names its document, so a
foreign text shows. A review knows whose texts it compares and whether the user
asked for it (`Between`); the code keeps the two texts only and takes them for the
active document's.

Left out: email and PDF documents, suggestions, creation by hand. Titles are
distinct and never empty, so an update never lands in a tab of the same title or in
an empty untitled one (10441-10491), and no tab that is left is deleted for having
neither title nor text (4460-4469). Closing is one step: the code keeps the
textarea and `activeDocId` for the 150-200 ms of the animation (6865-6900), where an
update still finds the old text. The click that closes the versions counts from
when the panel is open, though the code listens only once the list of versions has
come (10710-10718). Saves are handled in the order sent, as section 3 says.

### CookbookTasks

| In the model | In the code |
|---|---|
| `page[p].tasks`, `.tomb` | the rows in `localStorage`, `removedTasks` |
| `page[p].mem` | the memory of a page: cards with their watch loops, retry counts, the pending push |
| `server`, `jobs` | `cookbook_state.json` (`routes/cookbook_routes.py`), the tmux sessions (external) |
| `waits` | what a handler awaits: a POST, a kill, a timer, a dialog, a poll |
| `Download`, `StartNow`, `ProcessQueue`, `StartQueuedDownload` | starting at once or by the queue |
| `SeesLive`, `SeesGone`, `SeesStall`, `SeesFailure`, `SeesDone` | what a watch loop (`_reconnectTask`) finds |
| `SyncToServer`, `SyncLost` | the debounced push, handled or lost |
| `PostHandled`, `Interrupted`, `KillHandled` | what the server does for a launch and for the shell commands (`routes/shell_routes.py`) |
| `Poll`, `StateAnswered`, `StatusAnswered`, `Reconcile`, `Merge` | `_pollBackgroundStatus` |
| `RemoveCard`, `Restart`, `AskStopAll`, `AskClear`, `ClearPill` | the buttons |
| `Load`, `OpenCookbook`, `Sync` | a reload, and what is merged from the server |

A push is read, sent and handled in one step, or it is lost and not repeated: a POST
that fails (1335), or one that is not sent because the list of hosts is empty (1316).
A probe that fails is taken
for a dead session before a launch (606) and for a live one when the end of a
download is confirmed (3245). What `SeesGone` decides at once the code decides after
three failed captures and a `has-session` (3025-3048); the row becomes an error when
the last output has a known cause (3065-3077). Left out is the life of the monitor,
which only one tab of a browser runs and which stops when nothing is active
(3752-3777, 4008-4035, 4313-4316): a poll may always come, and the liveness of a page
without one is not spoken of.

Left out as well: serving and dependency tasks, cooldowns and throttles, the two
seconds for which the server remembers a status, the age of tombstones, the text of
the output (by which the server corrects a stale "done"), the sweep for orphaned
sessions.

### EmailLibrary

| In the model | In the code |
|---|---|
| `page.emails`, `.grid`, `.cache` | `state._libEmails`, what the grid shows, `_libListCache` |
| `page.acct`, `.folder`, `.filter`, `.search`, `.pills` | the view that is picked |
| `page.loads`, `.searches`, `.folders` | requests in flight, with the view they were made for |
| `page.mode`, `.picked`, `jobs` | chosen rows, deletions and bulk actions under way |
| `mail` | the mail server behind `routes/email_routes.py` |
| `PickFolder`, `PickFilter`, `PickAccount`, `Refresh`, `LoadAnswer`, `Warm` | loading a list |
| `Type`, `Pause`, `Enter`, `Sender`, `RemovePill`, `Clear`, `SearchLocal`, `SearchFull`, `SearchFails` | searching |
| `Tick`, `TickAll`, `Delete`, `Bulk`, `Request`, `Reply`, `DeleteFails`, `FadeDone`, `JobEnds` | acting on mails; rows that are done fade before they leave the list of what is undone |

A row carries the mail it stands for and the view it was listed for, which the
code does not keep. A bulk action has the rows chosen at the click; its dialog is the
wait for its first request. Its requests are deletions or mark-answered, whose second request, mark-read
(7289-7290), changes nothing here. The routes answer in one step each; that they work
in threads, and that the list is cached for eight seconds, is left out. Left out as
well: a folder or account given to `open` (1199-1203), opening twice (2851), scheduled
mails, flags, archive, pagination, attachments, the reader, suggestions, the size of
the cache.

## 3. The runs

| Run | Instance | States | Shows |
|---|---|---|---|
| `agent_runs` | 3 runs of 1 event, 1 client | 127 thousand | delivery, ownership, that eviction stays possible, that `AgentRuns` implements `ReplayLog`, that every drain task ends and every client of a finished run is let go |
| `bg_jobs` | 1 job, 2 pids, 2 turns, 1 failing follow-up, 1 crash, both outcomes | 232 thousand | outcomes are final and true of the processes, a job counts as followed up only with a message, messages repeat only across a crash, the launcher hears back |
| `bg_failure` | 1 job, 1 pid, 1 follow-up whose call to the model fails | small | the disagreement of section 6 |
| `shared_cache` | 3 callers, 3 cancellations, 2 failures | 6 thousand | one fetch, waiters share its future, calls end while nobody is cancelled |
| `task_scheduler` | event task chained to an admin-only repeating one, 4 executions, three budgets: an event, a manual run, a request and a crash; an event, a pause, a request and a crash; a forced run and a stop | 788 thousand | one run per task unless it is stopped, ids and handles die with their execution, no phantom run |
| `task_scheduler_live` | event task and once task, both model-backed; an event, a stream, a crash | 38 thousand | a trigger survives, the queue drains, every trigger is answered |
| `session_history` | 2 turns, 3 messages and 2 more, one edit or load in a thread, one restart | 1.0 million | memory and database agree, turns share the object, nothing is repeated or reordered, the count covers the messages |
| `chat_client` | 2 chats, up to 4 sends, 13 budgets, one of them after a reload that left a run behind | 355 thousand | the open chat is on screen, dots are kept, recovery is bounded, a stop hits the open chat, the composer unlocks |
| `document_editor` | 2 stored documents and one to be created, 2 made-up ids, 17 budgets | 624 thousand | no foreign content, a review is of the active document, one made-up id, saves settle |
| `cookbook_tasks` | 2 models on one host, 2 devices, 32 budgets | 419 thousand | queued rows start once, jobs are listed, relaunches are bounded, polls settle, removed rows stay removed |
| `email_library` | 4 mails in 3 mailboxes of 2 accounts, 3 queries, 31 budgets | 1.18 million | only chosen mails are touched, the list is of the view, a deleted mail is not listed again, only a search that ends can orphan the spinner |
| `email_delete` | the same, one search and one deletion | small | the disagreement of section 6 |

**Why the bounds are enough.** Three runs are a chain of waits: a third
send while the second still waits for the first. With one event of the generator a
log holds up to three, since a failure adds its own, so that a client can be before,
inside and after the overlap of replay and queue. Clients share nothing but the log;
two of them, with two events, were checked with two runs (227 thousand states). The
theorems remove these bounds. One job with two
pids shows every interleaving of the store's functions with the process, the
clock and the crash; no function relates two jobs, save that a list holds
several, and the theorems hold for any number. Two tasks let one wait
for the slot the other holds, and form a chain; three execution names let a
task be dispatched again while its former execution still unwinds and the other
task works; four cover a forced run beside them. `Budgets` bounds how often the
environment acts, by action, so that a run can have one of each deed that
matters together. In `session_history` the opening history is as long as the
compact route asks (its thresholds are scaled down: 3 messages instead
of 6, of which it keeps `Kept`, at least 1 instead of 4, at most 2 instead of 8, half
instead of a quarter), so that a turn can ask and compact, or ask and be
answered, while the other one works and one edit or thread's load, a
compaction, a deletion and a restart come between; what two edits do was checked with one turn (1.4 million
states). Three callers are an owner and two waiters, one of which is
cancelled.

The four modules of the browser client choose one record of `Budgets` at the
start: how often the user types, switches, deletes, ... and how often a request
fails. A budget is a scenario with all its interleavings, and the budgets of an
MC module are the pairs and triples of deeds that meet in one piece of code.
Each budget is small, because two clicks and the answers between them already
overtake one another in every order; what no budget combines is listed here.

- `ChatClient`: two chats, since a chat is either open or not; they are alike, so
  the page opens with the first. Four sends let a
  dropped stream be continued beside a queued message. No budget has a send
  that waits for an upload or document together with a change of chat
  (`SendsDoNotWait`: `BoxIsCurrent` and `StopHitsOpenChat` need it, as TLC finds
  with one such send and two changes); a history fails beside one send and one
  dropped stream. A refused POST meets stops, losses, gaps and one send's changes of
  chat, an error read in the background meets two sends and two changes; the two are
  not combined, and no second POST is refused after a change of chat:
  the composer may stay locked then (section 6).
- `DocumentEditor`: two documents are the one a handler began on and the one
  active when it ends, the third is created. At most two saves are unanswered,
  and they are handled in order. Comparisons, versions and small edits are not
  combined with a change of the active document: section 6 says what happens
  then. `ReviewIsOfActive` and `StreamsLeaveNoTab` (section 5) do combine the last two
  with it, and the latter all three. HTTP does not promise the order of saves. Two
  like requests in flight (two clicks on one link while its document is fetched)
  are one: `waits` is a set.
- `CookbookTasks`: two models make a queue on one host. Requests are lost (`lost`)
  beside a watch and a dead session, a removal with a reload, or two downloads; a
  lost push is not sent again, so `PollsSettle` leaves out the page that has one to
  send. No budget combines
  stalls with stops or removals, two downloads with clearing, or a second
  device with a removal: section 6 says what happens then. The budgets marked
  `busy` keep the background poll away, as a streaming chat does. The theorems of
  section 5 are for every budget without clearing, `JobsAreListed` for those that
  have no stalls either, `PollsAlwaysSettle` for those of one page that is open
  throughout. What a page awaits twice (Restart clicked again before the kill is
  answered, one failure seen by two watches of a row) is two waits, told apart by `k`.
- `EmailLibrary`: uids 1 and 2 name mails in every mailbox. One request at a
  time stands for the six of a longer list. A budget with `hasty` lets the user
  act on the list while a search or deletion is under way; `ListIsOfView` and half of
  `DeletedStaysGone` are about the others. Searches fail
  (`misses`), and the third query finds nothing. No budget combines searches with
  lists or deletions that fail, a pill taken away with a change of folder and a
  deletion, three pills, or a change of account with a search and a deletion: section
  6 says what happens then. For users who do not search the theorems of section 5
  have no such restriction.

The counters `turns`, `failures`, `crashes`, `cancels`, `edits`, `spent` and
`ghost.left` exist only to bound the environment. `CHECK_DEADLOCK FALSE` is given where the system may
really stop: a poisoned cache key blocks all callers, a task that runs once is
over, a deleted session is not used again, a user leaves the page alone.

## 4. Fairness

- `AgentRuns`: weak fairness of each drain task, each timer and each connected
  reader. The event loop runs every ready callback; a generator's stream ends
  because the upstream call has a timeout; a client that does not read is
  disconnected, which is a step of its own and is not assumed.
- `BgJobs`: weak fairness of the function in progress, of the time limit and of
  the restart by the process supervisor; strong fairness of the monitor and of
  the end of a turn, because other functions run between their steps again and
  again while the loop's queue is first-in first-out. Nothing is assumed of the
  commands: one may hang, which is what the time limit is for.
- `SharedCache`: weak fairness of the end of a fetch (an HTTP request with a
  timeout). Cancellation is never assumed.
- `TaskScheduler`: weak fairness of each execution's next step and monitor, of
  the tick, of the passing of time, of a foreground stop that was scheduled and
  of the restart. No fairness makes the foreground quiet: the liveness
  properties assume `[]<>~foreground` in so many words.
- `ChatClient`: weak fairness of timers and intervals, of each reader (a
  connection ends or dies), of the watchdog and its answer, of histories, stop
  requests and runs, which upstream timeouts end. The user owes nothing.
- `DocumentEditor`: weak fairness of the timers, of the last frame of an
  animation, of a save and its answer and of the delivery of an event.
- `SessionHistory`, `CookbookTasks` and `EmailLibrary` state none: what is
  checked of them is safety. `PollsSettle` says of a state what the next poll
  would make of it.

## 5. What is proved

All proofs are for every value of the constants, from the named assumptions of
the component modules only: in `AgentRuns` that the bounds are natural numbers
and `None` is not one; in `BgJobs` that `None` is no job, pid, session or record,
that commands end with a zero or another status, and that the bounds are natural
numbers; in `SharedCache` that `NoCaller` is no caller and the bounds are natural
numbers; in `ChatClient` that the cap, the number of sends and the budgets are
natural numbers, 0 is no chat, and the page opens with one; in `DocumentEditor` that made-up ids are no
documents and `None` is neither; in `SessionHistory` that turns are finitely
many and objects at least two more, that the bounds are natural numbers, the
preface has a system message, and a compaction keeps fewer messages than it asks for; in
`EmailLibrary` that every account has an inbox, and a stored mail is its account,
a folder the account has, and its uid there; in `CookbookTasks` that there is a
device to begin with and a model, that each model has a host, and that budgets
are natural numbers.

**AgentRuns.** `IndInv` is the conjunction of

1. `TypeOK`;
2. `TaskInv`: a task that has not ended belongs to a running run; one that is
   not cancelled and still before the end of its stream is the current run's;
   one past its lookup holds its own run;
3. `SubscribersInv`: the subscribers of a run are exactly the connections that
   read it;
4. `DeliveredIsPrefix`;
5. `QueueInv`: a client's queue is a contiguous end of the log, followed by the
   sentinel when the run is over, and a client in the live phase has already
   received everything before it;
6. `CompleteMeansAll`.

Conjunct 4 alone is not inductive: that no event is lost when a client takes an
index greater than the one it expects rests on the queue being contiguous with
what it has received (5), which rests on every publication reaching every
subscriber (3) and on one task writing into one run (2). `Inductive` proves
`Spec => []IndInv` with one step per action; the lemmas `PublishFacts`,
`ClientPublish` and `ClientStep` say what publishing and reading do to one
client, and `ClientFrame` that nothing else matters to it. From it follow
`TypeCorrect`, `NoEventLost`, `StreamsAreWhole`, `NoLostWakeup`, `OneWriter`, and,
with a step argument each, `Frozen` (a finished run's log and status never
change), `Evictable` and `Refinement` (`Spec => Promise!Spec`).

**BgJobs.** `IndInv` is the conjunction of

1. `TypeOK`;
2. `StoresInv`: what the store on disk, and the copy that a function has in its
   hands, say of a job is true (`TruthOf`): its pid is the process's own while it
   lives, its outcome is true (one that "died" left no exit file, an exit status is
   of a command that ended, one that was killed or timed out was sent the signal or
   had no wrapper any more), one that is followed up has a message or was killed, and
   one that is not has at most one message per crash;
3. `ProcInv`: a job never started has left no trace, an exit file means that the
   command is over, and what is written in it is how it ended;
4. `RefreshInv`: `refresh()` has a copy with the same jobs, which agrees with the
   store on the finished ones, and has still to examine running ones; a process
   it found gone stays gone;
5. `ThreadInv`: what launch, kill and mark hold true of their job;
6. `MonitorInv`: the monitor waits for `refresh()` exactly while it polls, and its
   list is valid.

None of the checked properties is inductive alone. That "died" is true, although
it is the conclusion of three observations made at three instants, rests on the
second look at the exit file and on (4): between the two looks the process is
already gone, so no file can appear any more; and that the process found gone is
the job's own rests on the pid table (2), since a pid is given away only after
its process has ended. That the monitor's list stays valid across whole agent
runs rests on (4) again: whoever refreshes meanwhile works on a copy that agrees
on finished jobs, and pruning takes only what was followed up. `TruthStays`
proves once, for any record, that a step leaves it true; `DiskOrigin` and
`CopyOrigin` say where the records of the next state come from; `StoresNext`
puts the two together. The theorems are `TypeCorrect`, `NothingDropped`,
`AnswersBounded`, `OutcomeHolds`, `ListIsValid` and, with a step argument of its own,
`OutcomeStays`. That a job which is over has stopped is not among them: it is false
(`OverMeansStopped` in section 6).

**SharedCache** (in `TaskSchedulerProofs`). `CacheInv` adds `Owns` to the two properties: whoever fetches is the
registered owner. Then two that fetch are one (`SingleFlight`), and who waits
waits on the registered, uncancelled future (`SharedFuture`), whichever callers
are cancelled.

**ChatClient.** `IndInv` is `TypeOK`, `UnseenIsMarked` and `Balanced`. That
recovery is bounded does not follow from its guard (a nudge is spent only below
the cap), because the click comes 200 ms after the nudge: by then a queued
message may have been sent and renewed the budget, a stop may have come between,
or the user may be in another chat. `Balanced` says what is preserved: each
automatic send since the last bubble, and the one that `_hideNextUserBubble`
announces, was paid for with a nudge that has not been renewed since. The blocks
that end a reader (`CaughtKeeps`, `CaughtForGoodKeeps`, `ReturnedKeeps`, `StopKeeps`,
`SelectKeeps`) and the send (`SpendKeeps`, `PostedKeeps`, `SendKeeps`) are lemmas, since
many actions are made of them.

`BoxIsCurrent` and `StopHitsOpenChat` are theorems (`ScreenIsCurrent`,
`StopIsAimed`) for a page that either changes chats or has sends that wait for an
upload or document (`SendsDoNotWait`); without that both are false. They rest on
`IndInv` and `PlaceInv`, which says

1. `Placed`: a turn that went out stays in its chat, and each list of turns kept
   for a chat (its run, its saved replies, resumed readers, a history on its way)
   has only that chat's;
2. `LastSwitch` and `Shown`: only the last switch has the current token, and it is
   to the open chat, so that an overtaken history is the only one that is dropped,
   and until the last one is rendered nothing is claimed of the screen;
3. `WaitsAtHome`: whoever waits before its POST does so in the open chat, and
   while one waits, or may, no click changes chats;
4. `StreamsHere`: a locked composer belongs to the open chat, and has its
   controller once the POST has left, by which a change of chat detaches it.

`ui.session` is never cleared, so that a stop is aimed right follows from (4)
alone: what a switch, a probe or a dying reader leaves locked belongs to the chat
that stays open. `Tame` is that relation between the globals before and after, and
the blocks of the code are shown to be tame (`BlocksTame`, `CaughtTame`). Closing
readers moves no turn (`VictimsSettle`), sending one only adds to its chat
(`Grown`), and `SettledPlaces`, `BoxPlaces`, `LoadPlaces`, `SendPlaces`,
`SelectPlaces` say what each kind of step has to show.

**DocumentEditor.** `IndInv` says of the page that its review is of the active
document and that the only made-up id with a tab is the streamed one, of the
agent's events and of the fetches under way that they concern documents, never
made-up ids, and of the server that it knows only documents. The last three are
what makes the first two inductive: an update replaces the made-up id by the
document it names, and a fetch adds a tab for its own. One lemma per block of
`document.js` (`ExitKeeps`, `EnterKeeps`, `SwitchKeeps`, `StreamKeeps`,
`UpdateKeeps`, ...) says that it keeps the page good; the actions are sequences of
them. `ReviewIsOfActive` is the guard of issue #2467 for every number of documents
and of the agent's calls, with previews and small edits, which the run keeps apart.
It speaks of the reviews that an agent's edit opens; of the comparisons the user
asks for the same is false (section 6).

`NoTextStrays` is `NoForeignContent` under `Orderly`: nothing is compared, looked up
in the versions or animated, and no run is left while it streams (section 6 has the
counterexample to each clause). `Kept(R)` says whose marks each text may hold, by a
rule `R` from ids to sets of marks: every text of the page, of a save under way, of
its answer, of the agent's call and events, and both texts of the server. The rule
is a parameter, and `Everything` (any marks) and `OwnOnly` (a document's own, and
any for a made-up id) are its two values, so the steps are proved once: with the
first they give `TypeCorrect`, for every budget, with the second and `Quiet` they
give `NoTextStrays`. `Quiet` is what `Orderly` leaves of the state: no animation and
no text put aside, a stream that is in no document's tab (so that a chunk is never
written to one), tabs and events of documents the server knows, and an agent that
never streams in the background. The stream is the delicate part: an
`update_document` is streamed without a title and so to a tab of its own, and a
`create_document` has a title no tab has, because tabs hold only known documents.

**TaskScheduler.** `IndInv` is the conjunction of

1. `Shape`: the types, and that a live execution has a task;
2. `RowsFit`: by where an execution is suspended, what its row may say. Each way
   out leaves a row that is over only because of where it is taken from: a skip
   closes a row that is queued and never one that is running, an exception one
   that is running and never one that is queued;
3. `DownIsEmpty`: after a crash there are no executions and no registries;
4. `ExecutingIsLive`, `HandleIsLive`: the two halves of `RegistriesAreLive`;
5. `ChainedUnforced` and `CountedIsExecuting`: until a task is stopped,
   `_executing` holds the task of every execution that is not forced and has, if
   chained, joined. It is what a dispatcher that finds no id relies on;
6. `OneRunUnlessStopped`.

A step does one of five things to executions, rows and registries, and there is a
lemma for each: it dispatches (`SpawnKeeps`), marks (`MarkKeeps`), moves an
execution on (`MoveKeeps`), lets one go, with the runs it chains to (`LeaveKeeps`),
or drops a chained one (`DropKeeps`). The lemmas about the actions only say which.
The end of a stopped execution removes the id of the one that was dispatched
meanwhile, and still no id is left without an execution: `ExecutingIsLive` does not
need `OneRunUnlessStopped`, which is why it holds with stops as well.

`TriggerSurvives` is a theorem (`NoTriggerIsLost`) for a scheduler that is
`Undisturbed`: one event, no manual run, forced run or stop, no request that
cancels the tasks, and chains only to tasks that come back by themselves; any
number of tasks and executions, pauses, streams in the foreground, deferrals,
failures and crashes. Each of these hypotheses is needed: dropping any one lets
TLC refute it within a dozen steps on two tasks (section 6). It rests on
`IndInv`, by which a task that does not come back by itself has one execution at
most, and on `TriggersKept`: `Holds` says of each task that a trigger to be
answered is of an active task with a `next_run`, and `Serves` of each execution
that no newer trigger waits while it works, so that what it clears is its own,
that a task which runs once has no later time set meanwhile, and that only its own
monitor cancels it. A step of an execution moves its task and itself
(`MovesKeeps`); `LaterHolds` and `OverHolds` are its two ways out, put off or over.

**SessionHistory.** `IndInv` is the conjunction of

1. `TypeOK`;
2. `Stories`: every history that is kept (the rows, each object, the copy that a
   manual compaction took, what a thread has read and not stored) holds messages said
   before now, in order;
3. `Agreement` and `TurnsShareTheObject`;
4. `Counted`: the row counts the messages, and counts none when there are none;
5. `Held`: the object that a turn holds has been read already.

Conjuncts 3 to 5 are claimed until something `strayed`; `TypeOK` and `Stories` always.

That memory and database agree is not inductive without (5): `get_session` takes
an object that is empty while its row counts messages for one that is still to be
loaded, and puts a new one in its place, so whoever holds the old one is cut off;
and (5) rests on the second half of (4), an empty history that counts none. The
three things after which the properties are false (section 6) are those that break
(4) or put a history in place that is not that of the rows. A thread that loads the
session is one of them only if it was overtaken: if what it read is still what the
rows are, and no turn has got an object meanwhile, storing it is what a load on the
event loop does (`ThreadStoresKeeps`). A handler is proved in two
parts: what it does to the memory (`OpenedIs`, `HistoryIs`, `HoldingIs`, `IdsAre`,
`RememberIs`) and to a history (`StoryGrows`, `StorySubSeq`, `StoryOnly`,
`StoryCompacted`), put together by `Assembles`. Removing messages by id is stated
with the places that stay, in order: `PlaceIs` and `PlaceIncreases` prove from the
least-number principle that they are one for each message that stays and
increasing. `SpareIs` counts objects against turns to show that one is always
free. The theorems are `TypeCorrect`, `OneStory` and `NoSessionIsHidden`.

**EmailLibrary.** `IndInv` is the conjunction of

1. `TypeOK`;
2. `GoneForGood`: what was deleted in calm, while no other view's cache had it, is not
   on the server, nor in any place the list is ever taken from: the list, the snapshots
   of a search, the cache of any view, the answers of loads and of prewarming;
3. `JobsAreSound`: beside a calm deletion nothing is awaited, and what it hit is
   among the mails of its rows and has left the server;
4. `Sound(page)`: rows of loads are of their view; the current load is for the
   account and folder shown, and for the filter too once the window has begun to
   load; and without searches, whatever is shown, chosen or cached is of its
   mailbox, and, if nothing fails, rows of another view are about to be replaced;
5. `JobsFit`: without searches, the rows of a job are of the mailbox it was begun
   in, and `OnlyTheChosen`.

`DeletedStaysGone` (`WhoBrowsesSeesNoDeleted`) has two halves. What `GoneForGood` says
is needed in full, since a row comes back from any of those places: at the moment a
deletion ends, (3) leaves the list and the cache of the view as the only ones to have
the mail, and `_libCacheWriteBack` clears both. A mail that another view's cache has as
well does come back when that view is opened, painted from the cache; `StaleFades`, an
invariant of its own, says that no list on its way has it, and that while it is shown
one is on its way. If that list fails, what the cache showed stays; this is the only
case the property does not speak of.
`SpinnerIsEarned` is a theorem for every user and every failure
(`SpinnerStandsForSomething`): a search that has set `_libSearchInFlight` is under way
(`FlightHolds`), a superseded load hands over to the one that superseded it, and so
does each of the other operators that make one page of another. What it leaves out is
the end of a search, which section 6 is about.
The other properties are theorems for users who do not search
(`WhoBrowsesSeesNoDeleted`, `WhoBrowsesHitsTheChosen`), one of them on a network
that does not fail (`WhoBrowsesSeesTheView`), for any number of changes of folder,
filter and account, refreshes, deletions and bulk actions; without these
hypotheses the last two are false, as section 6 says. Each operator that makes one page of
another has a lemma that says what it keeps (`LoadIs`, `PaintedIs`, `ShownIs`,
`RemovedIs`, ...); `PageStep` and `JobStep` say what an action has to show.

**CookbookTasks.** Every row of the system, wherever it lies (on a page, in a card,
on the server, in a list that a handler holds across an await, in an answer on
its way), is `Fine`: its id is `Known`, a queued row has no session, and where
nothing stalls a settled one has `Ended`, that is, its session is not downloading.
Likewise every tombstone, on a page, on the server or on its way, is `Gone`: known,
and ended where nothing stalls. `IndInv` says this of the pages (`IsPage`, with
the cards of `IsDeck`), of the server and of what is awaited (`IsWait`, which adds
what each kind of wait knows of its row: a kill that is answered has ended its
session), that launches have numbers of their own (`Numbered`), that a session is
made once, for an answered launch (`JobsAreSound`), `JobIsListed` where nothing
stalls, and where one page is alone `IsPushed`: it has removed whatever the server
has, and what it lists is on the server or about to be pushed. Known ids are those that may have been seen: numbers given out already, save
those of launches under way. `JobIsListed` is not inductive without any of this.
A row leaves a list when it is removed, restarted, pruned as a duplicate or hidden
by a tombstone, and each time the session must have ended: a fade and a restart begin
after the kill was answered, a pruned row is queued, and the row that a launch adds
or renames has an id nobody knew, so that no tombstone and no old list concerns it.

A handler is a composition of the blocks of `cookbookRunning.js`, and the blocks
have a lemma each (`SaveTasksLeads`, `RenderLeads`, `RemoveTaskLeads`,
`StartQueuedDownloadLeads`, `MergeStateLeads`, ...) about one transitive relation:
`Leads(s, r)` says that from `s` to `r` nothing awaited and no tombstone was
forgotten, that no row went that may be downloading, and that what a page alone has
more than the server it is going to push (`Pushes`), unless the push is lost; that no row has a tombstone is
part of `IsPage`. `RanKeeps` turns it into the invariant and into `NoneBack`, the
step of `RemovedStaysRemoved`. `PollsSettle` follows from `IsPushed`: a page that
has nothing left to push (`dirty` is set by a change and cleared by the push that the
server handles, so that it stays set after one that was lost) and awaits nothing lists
only rows that the server reports on, and `StatusIsTrue` says that the report is true. A poll that merges the server's
list pushes nothing, which is sound only because that list is the server's of now.
Filtered lists are given by the positions that stay; `PlaceIs` and `PlacesAll`
prove from the least-number principle that `Only` leaves exactly those.
The hypotheses `NoClears`, `NoStalls` and `Alone` (no second device, no reload, no
closing of the Cookbook, no list that arrives late) speak of the parameter
`Budgets`: they take nothing from what the other deeds may be, in what number or
together. Each is needed, as section 6 shows: without the first all three theorems
are false, without the second `JobsAreListed`, without the third
`PollsAlwaysSettle`.

**Proved, not run.** Some properties are proved and no longer checked by a run of
their own, as they are parts of the invariants or weaker than what is run:
`TypeOK` of `AgentRuns` and `DocumentEditor`, `CompleteMeansAll`,
`WaitingHasSentinel`, `DrainsOwnRun` and `TerminalIsFrozen` of `AgentRuns`,
`DiedMeansNoExit`, `ExitMeansEnded`, `KilledMeansSignalled` (the parts of
`OutcomeIsTrue`) and `ListStaysValid` of `BgJobs`, `WaitersShareTheFuture` of `SharedCache`.

**Only model-checked.** Liveness under fairness and anything with `ENABLED` are
outside what the prover does. `HearsBack`, `TasksEnd`, `StreamsClose`,
`CallsEnd`, `QueueDrains`, `TriggerIsAnswered`, `ComposerUnlocks` and
`SavesSettle` are such properties. Checked and not proved are also
`OnlyTheChosen`, `ListIsOfView` and `DeletedStaysGone` for the searches that
section 3 names, `TriggerSurvives` beyond `Undisturbed`, `NoForeignContent` beyond
`Orderly`, `RemovedStaysRemoved` and `JobIsListed` for the clearing and stalls of
section 3, `PollsSettle` for the clearing, second devices, reloads and late lists of
section 3, and `QueuedStartsOnce` and `BoundedRelaunches` of `CookbookTasks`. These
two do not hold for every budget (section 6). They count launches over
the whole life of a row, through its queue id, its sessions, its cards and its
retries, and were checked for the budgets of the run.

## 6. Where the code and its own words differ

Two runs end in a counterexample, to a sentence of the repository (quoted with
its lines under "findings"):

- `bg_failure`: the monitor's docstring says that it "only calls `mark_followed_up()`
  AFTER the agent run succeeds", so that "a transient failure is simply retried on the
  next tick" (`bg_monitor.py:6-8`). A call to the model that fails does not raise: it
  is an `event: error` chunk (`agent_loop.py:3395-3403`) that `_drain_agent` skips
  (`bg_monitor.py:44-45`), the run ends with "The model returned an empty response"
  (`agent_loop.py:2477`), and the job is marked as followed up.
- `email_delete`: a search finds mails of every folder. Reading one goes by the
  folder of its row, because "Search results can be stamped with their real folder
  while the visible folder selector still says INBOX" (`emailLibrary.js:3607-3609`, and
  the same at 3909-3912); deleting it
  sends its uid with the folder shown, and hits the mail that has this uid
  there. The menu and the bulk actions do the same, and a change of folder while
  a bulk action is under way turns its later requests to the new folder.

The modules state more sentences of the repository that TLC refutes on
instances as small as these; they are kept as definitions and left out of the
regular runs:

| Definition | Sentence | What happens |
|---|---|---|
| `AgentRuns!SavesAreSequential` | `agent_runs.py:95-98`, saves stay "sequential instead of interleaved" | of three rapid sends the second is cancelled while it waits and ends at once, so the third generates while the first unwinds (3 runs) |
| `AgentRuns!AnswerSavedOnce` | `chat_routes.py:1657-1660`, "saving the partial response exactly once" | a cancellation between the final save and the generator's return saves the answer again |
| `AgentRuns!EndedIsTerminal` | `agent_runs.py:129-137`, the run is terminal and freed | a task cancelled before its `try` block leaves its run "running" |
| `AgentRuns!RetainedIsReplayable` | `agent_runs.py:38-40`, a reconnect "can still replay the result" | the resume route refuses a run that is over |
| `BgJobs!RunningIsRecorded` | `bg_jobs.py:9-10`, a restart "never loses a job" | a crash between starting the process and saving its record (1 crash) |
| `BgJobs!ExitCodeIsReal` | `bg_jobs.py:97-99`, "the child's real exit status" | an exit file read when it is open and still empty counts as status 1 |
| `BgJobs!KillsItsOwn` | `bg_jobs.py:267`, "Terminate a running job's process tree" | the pid was given to another job's process (2 jobs, 1 pid) |
| `BgJobs!OverMeansStopped` | `platform_compat.py:113`, "Terminate ``pid`` and all of its descendants" | one SIGTERM is sent and nothing is waited for: a command that traps it runs on, with the job recorded as killed or timed out |
| `BgJobs!DeletedIsHandled` | `bg_monitor.py:87-88`, "Consider it handled so we don't retry forever" | `get_session` raises `KeyError` for a deleted session, so the monitor retries its job at every tick |
| `BgJobs!NoWriteMidStream` | `bg_monitor.py:92-95` | a turn starts while the follow-up agent runs |
| `SharedCache!NotPoisoned` | `task_scheduler.py:68`, "do not poison the cache" | cancelling the owner of a fetch leaves its future registered, and every later caller of the key waits for ever |
| `SharedCache!FetchedIsReturned` | `task_scheduler.py:64` | a cancelled waiter cancels the future all share, and the owner's `set_result` raises |
| `TaskScheduler!OneRunPerTask` | `task_scheduler.py:338-342`, no task is dispatched twice | a stop frees the task's id before its execution has ended, and the next tick dispatches it again |
| `TaskScheduler!AbortedIsCancelled` | `task_scheduler.py:2243-2263` | a forced run takes over the handle of the ordinary run beside it; once it has ended, a stop marks the ordinary run's row aborted and cancels nothing |
| `TaskScheduler!OneAtATime` | `task_scheduler.py:345-348`, strict serial execution | tasks without a model and forced runs do not take the slot |
| `TaskScheduler!CutShortIsDeferred` | `task_scheduler.py:2249-2250` | a request that cancels an event task in its work clears `next_run` |
| `TaskScheduler!FailureMovesOn` | `task_scheduler.py:1107-1108` | an event task that raises keeps its `next_run` in the past |
| `TaskScheduler!StoppedStaysStopped` | `task_scheduler.py:2229` | a stop during the wait for the foreground monitor is swallowed |
| `SessionHistory!CompactionKeepsTheRest` | `context_compactor.py:438` | automatic compaction counts its cut in the list of the prompt, which begins with the preface's system messages, and applies it to the history, which does not hold them: so many messages behind the summarised half are lost unsummarised, in the database too |
| `SessionHistory!ThreadsStoreWhatIs` | `session_routes.py:770-777`, the history of a session | `get_session` runs in a worker thread there: it stores what it read over what was said meanwhile, or over the object a turn holds |
| `ChatClient!QueuedGoesHome` | `chat.js:552`, "Queued for after this response" | the queue keeps no chat: what was queued in one drains into the one open by then |
| `DocumentEditor!NothingWiped` | `document.js:10497` | an edit that arrives while the panel is closed is not shown in the panel it opens, whose blank text the next save sends to the server |
| `DocumentEditor!TypedIsKept` | `document.js:9282-9285` | the late answer to a save puts back into the tab the text it saved, over what was typed since |
| `DocumentEditor!ComparisonIsOfActive` | `document.js:5707-5722`, the changes since the last version | the document may be another when the versions of the one compared have come |
| `EmailLibrary!DeletedIsGone` | `emailLibrary.js:1111-1114`, "so the next reopen doesn't briefly show the pre-mutation state" | the cache is mended for the view shown; that of another filter still has the row, and opening it paints it until the list is answered |
| `EmailLibrary!SearchEndsSpinner` | `emailLibrary.js:3502-3506`, "until _doSearch resolves and renders again" | the rows are rendered while `_libSearchInFlight` is set when nothing was found, and not at all when the search failed or was superseded |
| `CookbookTasks!IdleSettles` | `cookbookRunning.js:1335`, a push that fails is swallowed | a row the server never got is not reported on by any poll (one lost push) |
| `CookbookTasks!QueueIsKept` | `cookbookDownload.js:616`, "waiting for current download" | a queued row has no tmux session; once it is on the server the status route reports it stopped, the poll marks it crashed, and it never starts |

`TriggerSurvives` is checked and proved for one event and an undisturbed scheduler.
A run that ends clears the `next_run` it finds, whoever set it since. So a trigger
is lost to the run of an earlier one; to a manual run that works when the time
comes; to a forced run beside an ordinary one that is put off; to the second run
that a stop lets begin beside the stopped one; to a run that a chain began of a
task without a schedule or with a single time; and a run of an event task that a
request cancels clears its own.
`NoForeignContent` is checked without comparisons over a change of document: the
diff button awaits the versions (`document.js:5707`) and then opens the review of
the first document over whichever is active, whose text it later overwrites. It
fails as well when the tab is changed during the animation of a small edit, and
when the agent updates a document while an older version is shown (10729). The
fourth way needs a run that is left: it creates a document in the background, and
on return the replay (`chat.js:3931-3937`) streams into the tab that the session's
documents already brought (`streamDocOpen` goes by the title). The update that
would end the stream is dropped there, so when the same run next streams an update
of another document, the poll (3962-3967) writes its text into that tab. TLC finds
it with one edit, one departure and two streams; the run allows a departure with
two streams or with one stream and an edit.

`Agreement`, `CountCovers` and `TurnsShareTheObject` leave out three things
(`strayed`); without that clause TLC refutes them:

- *Truncation to nothing during a turn.* `truncate_messages(0)` leaves the
  object's `message_count` as it was, so the next `get_session` takes the empty
  object for one that is still to be loaded and puts a new one in its place. The
  turn adds its messages to the old one, and `_persist_message` writes the length
  of the new one: the row counts 0 beside a message. A restart does not list such
  a session, and `cleanup_empty_sessions` deletes it as empty, message and all.
- *Deleting a merged answer.* `merge_last_assistant` gives the first answer the
  second one's metadata, `_db_id` included, whose row it deletes. A deletion by
  the id the client is then shown removes the answer from memory and no row, and
  counts one message too few.
- *A load in a thread that was overtaken.* The history, export and archive routes call
  `get_session` in a worker thread. Between its reading of the rows and its storing of
  the object a turn may load the session and add to it; the thread then puts the stale
  object in the place of the one the turn holds. What the turn says next is in the
  database and not in memory, and `_persist_message` writes the length of the stale
  history (`session_manager.py:266-267`), fewer than there are.

Two more facts about compaction are as the code has them, and no sentence of
the repository says otherwise: the compact route refuses a session that streams
only at its start, so a message saved while the summary is written is lost and
one cut meanwhile comes back (`CompactBegins`, `CompactEnds`); and merging
leaves both counts as they were, too high (`CountCovers` allows it).

**Met while reading and modelling the browser client.** The models keep these
behaviours or leave them out as sections 2 and 3 say; no property claims the
contrary.

*Chat page.* Cancelling before the first token writes "[Cancelled by user]"
twice. Promoting a second queued message loses the first (`chat.js:525`).
Changing chats during an upload or the save of a document leaves `isStreaming`
set, a later stop hits the other chat's run, and the reply's bubble is put into
the chat then on screen (1341; `SendsDoNotWait` excludes it). A delta read in the
background overwrites the text accumulated in the foreground (2510). A reader detached
between `[DONE]` and the end of the body leaves a "running" entry and its poll
spinner. An old background reader that ends after a new send resets the new
composer. A reader that is detached, or meets an error of the model in the
background, leaves a "running" entry; a second POST refused in that chat after a return
takes it for its own, `finally` skips the composer, and the watchdog skips a chat that
has an entry: the composer stays locked. A reply that finishes between the fetch of the history and its
rendering is not shown. Sending while the history loads wipes the bubble. A
failed load of an older history replaces the newer skeleton. `hasActiveStream`
stays true for the session last sent to, so its stream is not resumed. A message
sent within the 200 ms before a recovery click is taken for the hidden one, and
the click that follows is sent with a bubble and renews the budget: between two
messages *of the user* more than `Cap` continuations may go out, which is why
`BoundedRecovery` counts between bubbles.

*Document editor.* Closing the last tab, or minimising, during a review saves the
interleaved view of both texts. The deletion after an awaited dialog takes the
document active by then (9646). Closing a tab that is not active saves the
active one (4599). An autosave during an animation saves part of the text. The
300 ms timer of a decided review may leave a newer one. The answer of
`loadSessionDocs` is not tested for staleness.

*Cookbook.* The poll that marks a queued row crashed may do so while its start is
under way, and "Start now" then launches twice; so do a double click and a stale
menu. A download that ends in the background does not start the next one.
Removing a row does not end its watch loop, which may start it again; a stall is
restarted although the row was stopped (`_userStopped` is written and never
read). "Clear finished" works on the list from before its dialog. The list is
lost when the page is reloaded within 400 ms of a change. A second device ignores
`removedTasks` when it polls.

*Mail window.* A search without hits leaves its spinner, because the rows are
rendered while `_libSearchInFlight` is set; so does a failed one (`SearchEndsSpinner`). Clearing the box
before the results arrive paints them under an empty box. A list answered while
results are shown writes the results into the folder's cache. The snapshot of
before a search brings back deleted rows, and so does the cache of another
filter. Bulk actions drop rows whose request failed. Search and a change of
account show the old account's rows.

The attempt to prove the properties of the mail window for every user showed why
the proofs stop where they do; TLC confirms each case on the instance of
`email_library` with a budget of its own:

| Property | Budget | What happens |
|---|---|---|
| `OnlyTheChosen` | a sender's pill, a change of folder, the pill removed, a deletion | removing the pill while the new folder loads restores the snapshot of the old folder, and deleting one of its rows hits the mail of the new folder with that uid |
| `ListIsOfView` | a search, the box cleared, a failed load | a folder's list that is answered under results puts them into the cache; clearing the box paints them from there, and they stand when the load behind them fails |
| `ListIsOfView` | a filter, the window closed and opened again, a failed load, a bulk action | the load for the filter of before is still current and paints the new window; the new load fails, and the bulk action renders the rows again under a filter they were not listed for |

The proofs for the Cookbook stop where they do for the same reason. Each case is a
counterexample that TLC finds on the instance of `cookbook_tasks`, given the budget:

| Property | Budget | What happens |
|---|---|---|
| `QueuedStartsOnce` | 2 downloads, the tab shown, a removal, two starts by hand | a started row is renamed and removed before the change is pushed; a poll merges the server's list, which still has the row queued under its old id, for which there is no tombstone, and it is started again |
| `BoundedRelaunches` | a download watched three times, a failure, a stall | the row is watched again before the kill of its failed session is answered, so the failure is seen twice and relaunched twice; the first relaunch that is done renews the count of retries, and the stall of the other is relaunched on top |
| `RemovedStaysRemoved` | 2 downloads, a death, the tab shown, a removal, "Clear finished" | a row removed while the dialog is open is put back by the list from before it |
| `JobIsListed` | a download watched, a removal, a stall | the watch loop of a removed row restarts its stalled download, and the new session is in no list |
| `JobIsListed` | 2 downloads, one watched, a failure, "Clear finished" | what was launched while the dialog was open is not in the list from before it |
| `PollsSettle` | a download watched, a second device, a removal | the second device reads the server's list as it loads and merges it once the first has removed the row there: the server does not list the row any more, so no poll settles it |
| `PollsSettle` | a download, a restart, a death, and either a late poll, a second device, the Cookbook closed and opened, or a reload and the tab shown | a list read before the restart renamed the row brings the old row back; the server does not have it any more, and nothing pushes it |
| `PollsSettle` | 2 downloads, a death, the tab shown, a removal, "Clear finished" | the list from before the dialog brings a removed row back, which the server keeps out |

In the cases of `PollsSettle` a row says "running" until it is opened and watched or
stopped by hand.

## 7. What is not modelled

- In the modelled components: failing commits and unreadable files, deletion of
  tasks, delivery of a run's result and notifications, default tasks, calendar
  arithmetic of `compute_next_run`, the text of events, outputs and prompts.
- The components with status `not_modelled` in `PROJECT.json`, each with its
  reason: planned (section 8), pure input and output (email, MCP, search, voice,
  shell wrappers), numeric (retrieval, hardware fitting), or presentation (the
  windows of the web client that are not named in section 2: settings, notes,
  slash commands, calendar, gallery and its image editor, administration).
- In the four modules of the browser client: what section 2 lists under "left
  out". Most of the client's lines are markup, layout, icons and event wiring,
  about which there is nothing to check.

## 8. Plan

1. **Done**: `AgentRuns` with `ReplayLog` and proofs, `BgJobs` with proofs,
   `SharedCache` with proofs, `TaskScheduler` with proofs, `SessionHistory` with
   proofs, `ChatClient` with proofs, `DocumentEditor` with proofs, `CookbookTasks` with
   proofs, `EmailLibrary` with proofs.
2. **InteractiveGate** (condition variable, request count, quiet window), then
   its composition with `AgentRuns`: a run left "running" keeps every background
   task waiting.
3. The composition of `ChatClient` with `AgentRuns`: the stream the page reads
   is the log a subscriber receives, across stops and replaced runs.
4. **Auth** (never without an administrator, no token of a deleted user),
   **RateLimiter**, **DeviceFlow** with token refresh.
5. **ScheduleArithmetic**: `compute_next_run` against a reference definition.
6. **ChatTurn**: the turn's saves under cancellation, composed with `AgentRuns`
   and `BgJobs`' follow-up.

## 9. Running it

In this directory: `tlc -workers 2 -config AgentRuns.cfg AgentRuns.tla`, and
so on for the pairs of module and configuration in `PROJECT.json`;
`tlapm AgentRunsProofs.tla`, and so on for the eight modules of proofs. The
longest run takes about two minutes.
