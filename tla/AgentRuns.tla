------------------------------ MODULE AgentRuns ------------------------------
(***************************************************************************)
(* Detached agent runs of ONE chat session (src/src/agent_runs.py) with    *)
(* the generator they drain (stream_with_save in src/routes/chat_routes.py)*)
(* and the SSE connections that subscribe to them.                         *)
(*                                                                         *)
(* A run is a _Run object, numbered in the order start() creates them; its *)
(* drain task has the same number.  An action is the code a coroutine runs *)
(* between two suspension points, so actions of different tasks interleave *)
(* exactly where the event loop may switch.  Sessions share no state here  *)
(* (_RUNS and _active_streams are keyed by session id): one is enough.     *)
(***************************************************************************)
EXTENDS Naturals, Sequences, FiniteSets

CONSTANTS
  MaxRuns,    \* bound: runs started for the session
  MaxChunks,  \* bound: events one generator yields before its [DONE]
  Conns,      \* SSE connections (a closed one may connect again)
  None        \* Python's None

ASSUME BoundsAssumption == MaxRuns \in Nat \ {0} /\ MaxChunks \in Nat
ASSUME NoneAssumption   == None \notin Nat

Runs    == 1..MaxRuns
Events  == Runs \X {"chunk", "error", "done"} \X Nat
Items   == (Nat \X Events) \cup {<<"end">>}   \* what a subscriber queue holds
Sentinel == <<"end">>                         \* the (None, None) item
Saves   == Runs \X {"final", "partial"}

VARIABLES
  nruns,        \* how many runs start() has created
  current,      \* _RUNS.get(session_id)
  active,       \* _active_streams.get(session_id): the run that registered it
  buffer,       \* run.buffer, the replay log
  status,       \* run.status
  subscribers,  \* run.subscribers, as the connections that own the queues
  evictArmed,   \* run.evict_task is pending
  pc,           \* where the run's drain task is
  cancelled,    \* task.cancel() was called and not delivered yet
  awaits,       \* prev_task of the drain task
  into,         \* the _Run the drain task looked up at its first step
  produced,     \* events the run's generator has yielded
  saves,        \* assistant messages written to the session, in order
  phase,        \* where the connection's subscribe() generator is
  reads,        \* the _Run it subscribed to
  nextSeq,      \* next_seq
  queue,        \* its asyncio.Queue
  delivered     \* the events it has yielded to its client, heartbeats left out

runVars  == <<nruns, current, active, buffer, status, evictArmed>>
taskVars == <<pc, cancelled, awaits, into, produced, saves>>
connVars == <<phase, reads, nextSeq, queue, delivered>>
vars     == <<runVars, subscribers, taskVars, connVars>>

Init ==
  /\ nruns = 0 /\ current = None /\ active = None
  /\ buffer      = [r \in Runs |-> <<>>]
  /\ status      = [r \in Runs |-> "running"]
  /\ subscribers = [r \in Runs |-> {}]
  /\ evictArmed  = [r \in Runs |-> FALSE]
  /\ pc          = [r \in Runs |-> "absent"]
  /\ cancelled   = [r \in Runs |-> FALSE]
  /\ awaits      = [r \in Runs |-> None]
  /\ into        = [r \in Runs |-> None]
  /\ produced    = [r \in Runs |-> 0]
  /\ saves       = <<>>
  /\ phase       = [c \in Conns |-> "idle"]
  /\ reads       = [c \in Conns |-> None]
  /\ nextSeq     = [c \in Conns |-> 0]
  /\ queue       = [c \in Conns |-> <<>>]
  /\ delivered   = [c \in Conns |-> <<>>]

-----------------------------------------------------------------------------
(* Helpers of agent_runs.py.                                                *)

IsActive   == current # None /\ status[current] = "running"   \* is_active
Terminal(r) == status[r] # "running"
Free(c)     == phase[c] \in {"idle", "complete"}
Attached(c) == phase[c] \in {"replay", "live", "flush"}

\* Connection c in phase p, holding nothing (a generator not run, or dropped).
Reset(c, p) ==
  /\ phase'     = [phase EXCEPT ![c] = p]
  /\ reads'     = [reads EXCEPT ![c] = None]
  /\ nextSeq'   = [nextSeq EXCEPT ![c] = 0]
  /\ queue'     = [queue EXCEPT ![c] = <<>>]
  /\ delivered' = [delivered EXCEPT ![c] = <<>>]

\* _schedule_evict: looks the session up again, so it (re)arms the timer of
\* whatever run is current, which need not be the caller's.
ArmEvict(armed) ==
  IF current = None THEN armed ELSE [armed EXCEPT ![current] = TRUE]

\* Mutant of Publish: the index is taken after the append.
PublishLateIndex(r, evs, tail) ==
  /\ buffer' = [buffer EXCEPT ![r] = @ \o evs]
  /\ queue'  = [c \in Conns |->
       IF c \in subscribers[r]
       THEN queue[c] \o [i \in 1..Len(evs) |-> <<Len(buffer[r]) + i, evs[i]>>] \o tail
       ELSE queue[c]]

\* _publish, for the events of one step: append each to the log and fan it
\* out, with its index, to every subscriber; `tail' follows them (sentinels).
Publish(r, evs, tail) ==
  /\ buffer' = [buffer EXCEPT ![r] = @ \o evs]
  /\ queue'  = [c \in Conns |->
       IF c \in subscribers[r]
       THEN queue[c] \o [i \in 1..Len(evs) |-> <<Len(buffer[r]) + i - 1, evs[i]>>]
                     \o tail
       ELSE queue[c]]

-----------------------------------------------------------------------------
(* The drain task: start, stop, _drain.                                     *)

\* POST /api/chat_stream: start() replaces the session's run, cancelling the
\* task of the old one when it has not ended, and the response subscribes.
Start(c) ==
  LET r    == nruns + 1
      live == current # None /\ pc[current] # "ended"
  IN
  /\ nruns < MaxRuns /\ Free(c)
  /\ cancelled'  = IF live THEN [cancelled EXCEPT ![current] = TRUE] ELSE cancelled
  /\ awaits'     = [awaits EXCEPT ![r] = IF live THEN current ELSE None]
  /\ evictArmed' = IF current = None THEN evictArmed
                   ELSE [evictArmed EXCEPT ![current] = FALSE]
  /\ nruns' = r /\ current' = r
  /\ pc' = [pc EXCEPT ![r] = "created"]
  /\ Reset(c, "admitted")
  /\ UNCHANGED <<active, buffer, status, subscribers, into, produced, saves>>

\* POST /api/chat/stop: _run_stop cancels the current task and drops the
\* session's active-stream entry.
Stop ==
  /\ active' = None
  /\ cancelled' = IF current # None /\ pc[current] # "ended"
                  THEN [cancelled EXCEPT ![current] = TRUE] ELSE cancelled
  /\ UNCHANGED <<nruns, current, buffer, status, evictArmed, subscribers, pc,
                 awaits, into, produced, saves, connVars>>

\* A CancelledError delivered before the first step, or while _drain waits for
\* the previous task, ends the task outside its try block: no status, no
\* sentinel, no eviction timer.
CancelUnstarted(t) ==
  /\ pc[t] \in {"created", "waiting"} /\ cancelled[t]
  /\ pc' = [pc EXCEPT ![t] = "ended"]
  /\ cancelled' = [cancelled EXCEPT ![t] = FALSE]
  /\ UNCHANGED <<runVars, subscribers, awaits, into, produced, saves, connVars>>

\* First step of _drain: look the run up, then wait for prev_task or start
\* the generator, whose first step registers the active stream.
FirstStep(t) ==
  LET waits == awaits[t] # None /\ pc[awaits[t]] # "ended" IN
  /\ pc[t] = "created" /\ ~cancelled[t]
  /\ into' = [into EXCEPT ![t] = current]
  /\ pc' = [pc EXCEPT ![t] = IF current = None THEN "ended"
                             ELSE IF waits THEN "waiting" ELSE "draining"]
  /\ active' = IF current = None \/ waits THEN active ELSE t
  /\ UNCHANGED <<nruns, current, buffer, status, evictArmed, subscribers,
                 cancelled, awaits, produced, saves, connVars>>

\* Mutant of PrevEnded: waits for the previous run's status, which a run
\* cancelled before it started never leaves.
PrevTerminal(t) ==
  /\ pc[t] = "waiting" /\ ~cancelled[t] /\ Terminal(awaits[t])
  /\ pc' = [pc EXCEPT ![t] = "draining"]
  /\ active' = t
  /\ UNCHANGED <<nruns, current, buffer, status, evictArmed, subscribers,
                 cancelled, awaits, into, produced, saves, connVars>>

PrevEnded(t) ==
  /\ pc[t] = "waiting" /\ ~cancelled[t] /\ pc[awaits[t]] = "ended"
  /\ pc' = [pc EXCEPT ![t] = "draining"]
  /\ active' = t
  /\ UNCHANGED <<nruns, current, buffer, status, evictArmed, subscribers,
                 cancelled, awaits, into, produced, saves, connVars>>

\* The generator yields an event, with or without (`save') having written the
\* finished answer to the session just before.
Chunk(t, save) ==
  /\ pc[t] = "draining" /\ ~cancelled[t]
  /\ produced' = [produced EXCEPT ![t] = @ + 1]
  /\ Publish(into[t], << <<t, "chunk", produced[t] + 1>> >>, <<>>)
  /\ saves' = IF save THEN Append(saves, <<t, "final">>) ELSE saves
  /\ UNCHANGED <<nruns, current, active, status, evictArmed, subscribers, pc,
                 cancelled, awaits, into, phase, reads, nextSeq, delivered>>

DrainChunk(t)     == produced[t] < MaxChunks /\ Chunk(t, FALSE)
\* The [DONE] chunk: save_assistant_response, once and only for a non-empty
\* answer, then the message_saved event.
DrainFinalSave(t) == produced[t] > 0 /\ <<t, "final">> \notin {saves[i] : i \in DOMAIN saves}
                     /\ Chunk(t, TRUE)

\* What every exit through _drain's try block does: the generator's finally
\* pops the session's active-stream entry, the run becomes terminal, every
\* subscriber gets the sentinel and the eviction timer is armed.
EndDrain(t, st, evs) ==
  /\ status'     = [status EXCEPT ![into[t]] = IF st = "done" /\ @ # "running" THEN @ ELSE st]
  /\ pc'         = [pc EXCEPT ![t] = "ended"]
  /\ cancelled'  = [cancelled EXCEPT ![t] = FALSE]
  /\ active'     = None
  /\ evictArmed' = ArmEvict(evictArmed)
  /\ Publish(into[t], evs, <<Sentinel>>)
  /\ UNCHANGED <<nruns, current, subscribers, awaits, into, produced,
                 phase, reads, nextSeq, delivered>>

DrainDone(t) ==
  /\ pc[t] = "draining" /\ ~cancelled[t]
  /\ EndDrain(t, "done", <<>>)
  /\ UNCHANGED saves

\* The generator raises, by itself or while it is being unwound.
DrainError(t) ==
  /\ (pc[t] = "draining" /\ ~cancelled[t]) \/ pc[t] = "unwinding"
  /\ EndDrain(t, "error", << <<t, "error", 0>>, <<t, "done", 0>> >>)
  /\ UNCHANGED saves

\* Mutant of DeliverCancel: the generator swallows the CancelledError.
SwallowCancel(t) ==
  /\ pc[t] = "draining" /\ cancelled[t]
  /\ cancelled' = [cancelled EXCEPT ![t] = FALSE]
  /\ UNCHANGED <<runVars, subscribers, pc, awaits, into, produced, saves, connVars>>

\* CancelledError enters the generator at the await it is suspended in; its
\* inner cleanup (a tool subprocess, an HTTP stream) may suspend again.
DeliverCancel(t) ==
  /\ pc[t] = "draining" /\ cancelled[t]
  /\ pc' = [pc EXCEPT ![t] = "unwinding"]
  /\ cancelled' = [cancelled EXCEPT ![t] = FALSE]
  /\ UNCHANGED <<runVars, subscribers, awaits, into, produced, saves, connVars>>

\* The inner cleanup is over (a second cancel only hastens it): the generator
\* saves the partial answer and re-raises, so aclose() finds it closed.
Unwound(t) ==
  /\ pc[t] = "unwinding"
  /\ EndDrain(t, "stopped", <<>>)
  /\ saves' = IF produced[t] > 0 THEN Append(saves, <<t, "partial">>) ELSE saves

\* The grace period of a timer is over.
EvictFire(r) ==
  /\ evictArmed[r]
  /\ evictArmed' = [evictArmed EXCEPT ![r] = FALSE]
  /\ current' = IF current = r /\ Terminal(r) /\ subscribers[r] = {} THEN None ELSE current
  /\ UNCHANGED <<nruns, active, buffer, status, subscribers, taskVars, connVars>>

-----------------------------------------------------------------------------
(* The connections: the resume route and subscribe().                       *)

\* GET /api/chat/resume answers 404 unless _run_is_active.
ResumeAllowed == IsActive \/ active # None

Resume(c) ==
  /\ Free(c) /\ ResumeAllowed /\ Reset(c, "admitted")
  /\ UNCHANGED <<runVars, subscribers, taskVars>>

\* Mutant of Leave: the last client of a finished run does not arm the timer.
LeaveUnarmed(c) ==
  /\ subscribers' = [subscribers EXCEPT ![reads[c]] = @ \ {c}]
  /\ UNCHANGED <<nruns, current, active, buffer, status, evictArmed, taskVars>>

\* The finally block of subscribe().
Leave(c) ==
  LET r == reads[c] IN
  /\ subscribers' = [subscribers EXCEPT ![r] = @ \ {c}]
  /\ evictArmed' = IF subscribers[r] \ {c} = {} /\ Terminal(r) THEN ArmEvict(evictArmed)
                   ELSE evictArmed
  /\ UNCHANGED <<nruns, current, active, buffer, status, taskVars>>

\* subscribe() ends by itself: the client saw the whole stream.
Complete(c) ==
  /\ phase' = [phase EXCEPT ![c] = "complete"] /\ queue' = [queue EXCEPT ![c] = <<>>]
  /\ Leave(c)
  /\ UNCHANGED <<reads, nextSeq, delivered>>

\* Yield the event with index s, to be continued in phase p.
Deliver(c, s, ev, p) ==
  /\ phase'     = [phase EXCEPT ![c] = p]
  /\ delivered' = [delivered EXCEPT ![c] = Append(@, ev)]
  /\ nextSeq'   = [nextSeq EXCEPT ![c] = s + 1]
  /\ UNCHANGED <<runVars, subscribers, taskVars, reads>>

\* subscribe() finds the current run, yields evs at once and stops in phase p.
Attach(c, p, evs) ==
  /\ phase'     = [phase EXCEPT ![c] = p]
  /\ reads'     = [reads EXCEPT ![c] = current]
  /\ nextSeq'   = [nextSeq EXCEPT ![c] = Len(evs)]
  /\ queue'     = [queue EXCEPT ![c] = <<>>]
  /\ delivered' = [delivered EXCEPT ![c] = evs]

\* Its queue stays registered and the eviction timer is cancelled.
Register(c) ==
  /\ subscribers' = [subscribers EXCEPT ![current] = @ \cup {c}]
  /\ evictArmed'  = [evictArmed EXCEPT ![current] = FALSE]

\* First step of subscribe(): look the run up, register a queue, cancel the
\* eviction timer, then yield the first event of the log if there is one.  A
\* run that ended with an empty log is left at once, its timer armed again.
Subscribe(c) ==
  LET b == buffer[current] IN
  /\ phase[c] = "admitted"
  /\ \/ current = None /\ Reset(c, "idle") /\ UNCHANGED <<subscribers, evictArmed>>
     \/ current # None /\ b # <<>> /\ Attach(c, "replay", <<b[1]>>) /\ Register(c)
     \/ current # None /\ b = <<>> /\ ~Terminal(current) /\ Attach(c, "live", <<>>) /\ Register(c)
     \/ /\ current # None /\ b = <<>> /\ Terminal(current) /\ Attach(c, "complete", <<>>)
        /\ evictArmed' = [evictArmed EXCEPT ![current] = (subscribers[current] = {})]
        /\ UNCHANGED subscribers
  /\ UNCHANGED <<nruns, current, active, buffer, status, taskVars>>

\* The replay loop, resumed after a yield.
Replay(c) ==
  LET r == reads[c] IN
  /\ phase[c] = "replay"
  /\ \/ /\ nextSeq[c] < Len(buffer[r])
        /\ Deliver(c, nextSeq[c], buffer[r][nextSeq[c] + 1], "replay")
        /\ UNCHANGED queue
     \/ /\ nextSeq[c] >= Len(buffer[r]) /\ Terminal(r)
        /\ Complete(c)
     \/ /\ nextSeq[c] >= Len(buffer[r]) /\ ~Terminal(r)
        /\ phase' = [phase EXCEPT ![c] = "live"]
        /\ UNCHANGED <<runVars, subscribers, taskVars, reads, nextSeq, queue, delivered>>

\* Mutant of Flush: yields the rest of the log, then waits again (no break).
FlushNoBreak(c) ==
  LET r == reads[c] IN
  IF nextSeq[c] < Len(buffer[r])
  THEN Deliver(c, nextSeq[c], buffer[r][nextSeq[c] + 1], "flush") /\ UNCHANGED queue
  ELSE /\ phase' = [phase EXCEPT ![c] = "live"] /\ queue' = [queue EXCEPT ![c] = <<>>]
       /\ UNCHANGED <<runVars, subscribers, taskVars, reads, nextSeq, delivered>>

\* The end of the stream as the connection sees it: yield what the log still
\* holds, one event per step, then leave.
Flush(c) ==
  LET r == reads[c] IN
  IF nextSeq[c] < Len(buffer[r])
  THEN Deliver(c, nextSeq[c], buffer[r][nextSeq[c] + 1], "flush") /\ UNCHANGED queue
  ELSE Complete(c)

FlushMore(c) == phase[c] = "flush" /\ Flush(c)

\* Mutant of TakeEvent: no check of the index, so no event is skipped.
TakeEveryEvent(c) ==
  LET item == Head(queue[c]) IN
  /\ phase[c] = "live" /\ queue[c] # <<>> /\ item # Sentinel
  /\ queue' = [queue EXCEPT ![c] = Tail(@)]
  /\ Deliver(c, item[1], item[2], "live")

\* The live loop takes an event off the queue: skip it when the replay has
\* yielded it already.
TakeEvent(c) ==
  LET item == Head(queue[c]) IN
  /\ phase[c] = "live" /\ queue[c] # <<>> /\ item # Sentinel
  /\ queue' = [queue EXCEPT ![c] = Tail(@)]
  /\ IF item[1] >= nextSeq[c]
     THEN Deliver(c, item[1], item[2], "live")
     ELSE UNCHANGED <<runVars, subscribers, taskVars, phase, reads, nextSeq, delivered>>

TakeSentinel(c) ==
  phase[c] = "live" /\ queue[c] # <<>> /\ Head(queue[c]) = Sentinel /\ Flush(c)

\* Ten seconds without an item: a heartbeat when the run is running (nothing
\* changes), otherwise as if the sentinel had come.
TakeTimeout(c) == phase[c] = "live" /\ Terminal(reads[c]) /\ Flush(c)

\* The client goes away: the response is dropped, or closed at a yield or await.
Disconnect(c) ==
  \/ phase[c] = "admitted" /\ Reset(c, "idle") /\ UNCHANGED <<runVars, subscribers, taskVars>>
  \/ Attached(c) /\ Leave(c) /\ Reset(c, "idle")

-----------------------------------------------------------------------------
TaskStep(t) ==
  \/ CancelUnstarted(t) \/ FirstStep(t) \/ PrevEnded(t) \/ DrainChunk(t)
  \/ DrainFinalSave(t) \/ DrainDone(t) \/ DrainError(t) \/ DeliverCancel(t)
  \/ Unwound(t)

ReaderStep(c) ==
  Subscribe(c) \/ Replay(c) \/ FlushMore(c) \/ TakeEvent(c) \/ TakeSentinel(c) \/ TakeTimeout(c)

Next ==
  \/ Stop
  \/ \E t \in Runs : TaskStep(t) \/ EvictFire(t)
  \/ \E c \in Conns : Start(c) \/ Resume(c) \/ ReaderStep(c) \/ Disconnect(c)

Spec == Init /\ [][Next]_vars

(* The event loop runs every ready task and timer, a generator's stream ends *)
(* (an upstream call has a timeout), and a connected client reads.           *)
Fairness ==
  /\ \A t \in Runs : WF_vars(TaskStep(t)) /\ WF_vars(EvictFire(t))
  /\ \A c \in Conns : WF_vars(ReaderStep(c))

FairSpec == Spec /\ Fairness

-----------------------------------------------------------------------------
(* Properties.                                                              *)

RunTypes ==
  /\ nruns \in 0..MaxRuns
  /\ current \in Runs \cup {None} /\ active \in Runs \cup {None}
  /\ buffer \in [Runs -> Seq(Events)]
  /\ status \in [Runs -> {"running", "done", "error", "stopped"}]
  /\ subscribers \in [Runs -> SUBSET Conns]
  /\ evictArmed \in [Runs -> BOOLEAN]

TaskTypes ==
  /\ pc \in [Runs -> {"absent", "created", "waiting", "draining", "unwinding", "ended"}]
  /\ cancelled \in [Runs -> BOOLEAN]
  /\ awaits \in [Runs -> Runs \cup {None}]
  /\ into \in [Runs -> Runs \cup {None}]
  /\ produced \in [Runs -> Nat]
  /\ saves \in Seq(Saves)

ConnTypes ==
  /\ phase \in [Conns -> {"idle", "admitted", "replay", "live", "flush", "complete"}]
  /\ reads \in [Conns -> Runs \cup {None}]
  /\ nextSeq \in [Conns -> Nat]
  /\ queue \in [Conns -> Seq(Items)]
  /\ delivered \in [Conns -> Seq(Events)]

TypeOK == RunTypes /\ TaskTypes /\ ConnTypes

\* A connected client has received exactly a prefix of its run's log: nothing
\* missing, nothing twice, nothing out of order, whenever it connected.
DeliveredIsPrefix ==
  \A c \in Conns : Attached(c) =>
    /\ nextSeq[c] = Len(delivered[c]) /\ nextSeq[c] <= Len(buffer[reads[c]])
    /\ \A i \in 1..Len(delivered[c]) : delivered[c][i] = buffer[reads[c]][i]

\* A stream ends by itself only when its run is over, and then has shown its
\* client the whole log.
CompleteMeansAll ==
  \A c \in Conns :
    /\ phase[c] \in {"flush", "complete"} => Terminal(reads[c])
    /\ phase[c] = "complete" => delivered[c] = buffer[reads[c]]

\* A client waiting on a run that is over has the end sentinel in its queue, so
\* it is woken and not left to the ten-second timeout.
WaitingHasSentinel ==
  \A c \in Conns : phase[c] = "live" /\ Terminal(reads[c]) =>
    \E i \in 1..Len(queue[c]) : queue[c][i] = Sentinel

\* A drain task that got past its lookup writes into its own run, although it
\* finds the run by session id.
DrainsOwnRun ==
  \A t \in Runs : pc[t] \in {"waiting", "draining", "unwinding"} => into[t] = t

\* Two sends never generate at the same time: the only task that may still
\* pull events from its generator is the current run's.
OnlyCurrentDrains ==
  \A t \in Runs : pc[t] = "draining" /\ ~cancelled[t] => current = t

\* A finished run nobody watches has its eviction timer armed: its buffer
\* cannot stay in memory for ever.
FinishedIsEvictable ==
  current # None /\ Terminal(current) /\ subscribers[current] = {}
    => evictArmed[current]

\* The log and the status of a run that is over never change again.
TerminalIsFrozen ==
  [][\A r \in Runs : Terminal(r) =>
       buffer'[r] = buffer[r] /\ status'[r] = status[r]]_vars

\* Every started drain task ends, through any chain of replaced runs.
TasksEnd == \A t \in Runs : (pc[t] = "created") ~> (pc[t] = "ended")

\* Every client of a run that is over is let go.
StreamsClose ==
  \A c \in Conns : (Attached(c) /\ Terminal(reads[c])) ~> ~Attached(c)

\* The runs and their connections implement the promise of ReplayLog.
Promise == INSTANCE ReplayLog WITH
  Logs <- Runs, Readers <- Conns, log <- buffer, closed <- [r \in Runs |-> Terminal(r)],
  source <- reads, got <- delivered, over <- [c \in Conns |-> phase[c] = "complete"]

ImplementsReplayLog == Promise!Spec

-----------------------------------------------------------------------------
(* The inductive invariant the proofs use (AgentRunsProofs).                *)

\* A task that has not ended belongs to a run that is running; unless it was
\* cancelled, a task before the end of its stream is the current run's, and a
\* task past its lookup holds its own run.
TaskInv ==
  \A t \in Runs :
    /\ t > nruns => pc[t] = "absent"
    /\ pc[t] # "ended" => status[t] = "running"
    /\ pc[t] \in {"created", "waiting", "draining"} /\ ~cancelled[t] => current = t
    /\ pc[t] \in {"waiting", "draining", "unwinding"} => into[t] = t

\* A run's subscribers are the connections attached to it.
SubscribersInv ==
  /\ \A c \in Conns : Attached(c) => reads[c] \in Runs /\ c \in subscribers[reads[c]]
  /\ \A r \in Runs : \A c \in subscribers[r] : Attached(c) /\ reads[c] = r
  /\ \A c \in Conns : phase[c] = "complete" => reads[c] \in Runs
  /\ \A c \in Conns : phase[c] \in {"idle", "admitted"} => reads[c] = None /\ delivered[c] = <<>>

\* How many events a connection's queue holds: all its items, less the
\* sentinel that follows them when the run is over.
Pending(c) ==
  IF Terminal(reads[c]) /\ queue[c] # <<>> THEN Len(queue[c]) - 1 ELSE Len(queue[c])

\* The queue is the last Pending(c) events of the log, then the sentinel if
\* the run is over; a client done with its replay has received all before it.
QueueInv ==
  \A c \in Conns : phase[c] \in {"replay", "live"} =>
    LET b == buffer[reads[c]]
        first == Len(b) - Pending(c)
    IN
    /\ Pending(c) <= Len(b)
    /\ \A i \in 1..Pending(c) : queue[c][i] = <<first + i - 1, b[first + i]>>
    /\ Terminal(reads[c]) /\ queue[c] # <<>> => queue[c][Len(queue[c])] = Sentinel
    /\ phase[c] = "live" => first <= nextSeq[c] /\ (Terminal(reads[c]) => queue[c] # <<>>)

IndInv ==
  TypeOK /\ TaskInv /\ SubscribersInv /\ DeliveredIsPrefix /\ QueueInv /\ CompleteMeansAll

-----------------------------------------------------------------------------
(* What the code's own comments say, and TLC refutes.                       *)

\* agent_runs.py:95-98: a replacing run waits for the one before, which "keeps
\* the two runs' session saves sequential instead of interleaved".
SavesAreSequential ==
  \A t, u \in Runs : ~(pc[t] = "unwinding" /\ pc[u] = "draining")

\* chat_routes.py:1657-1660: when the stream is cut, the generator's except
\* blocks handle it "by saving the partial response exactly once".
AnswerSavedOnce ==
  \A i, j \in DOMAIN saves : saves[i][1] = saves[j][1] => i = j

\* agent_runs.py:129-137: when the drain is over every subscriber is woken and
\* the "run is terminal", its buffer eventually freed.
EndedIsTerminal == \A t \in Runs : pc[t] = "ended" => Terminal(t)

\* agent_runs.py:38-40: a finished run is kept "so a reconnect within the
\* window can still replay the result".
RetainedIsReplayable == current # None => ResumeAllowed
=============================================================================
