----------------------------- MODULE ChatClient -----------------------------
(***************************************************************************)
(* The chat page of the browser client: static/js/chat.js with the session *)
(* switcher of static/js/sessions.js.                                      *)
(*                                                                         *)
(* One page, one event loop: an action is one task of that loop with the   *)
(* microtasks it ends with, so an aborted reader runs its catch and        *)
(* finally blocks in the step that aborts it.  A turn is one call of       *)
(* handleChatSubmit that takes the send path; its reader outlives a change *)
(* of session, so several readers may be live, and all of them share the   *)
(* globals kept in ui.                                                     *)
(*                                                                         *)
(* Of the server (routes/chat_routes.py, src/agent_runs.py) there is what  *)
(* the page can tell: one run per session, the reply saved before [DONE]   *)
(* is sent, a run cancelled when told to or when replaced, a POST refused. *)
(***************************************************************************)
EXTENDS Integers, Sequences, SequencesExt

CONSTANTS Sessions,   \* the chats in the sidebar
          OpenFirst,  \* those the page may open with
          Cap,        \* _AUTO_NUDGE_CAP
          MaxTurns,   \* how many sends a behaviour has at most
          Budgets     \* how many messages, sends, switches, ... it may have

Spendable == {"typed", "turns", "selects", "losses", "failures", "stops",
              "promotes", "gaps", "reloads", "refusals", "errors"}

ASSUME ChatClientAssumption ==
    /\ Sessions # {} /\ 0 \notin Sessions
    /\ OpenFirst # {} /\ OpenFirst \subseteq Sessions
    /\ Cap \in Nat /\ MaxTurns \in Nat
    /\ Budgets \subseteq [Spendable -> 0 .. MaxTurns]

Turns == 1 .. MaxTurns
NoTurn == 0
NoSession == 0

VARIABLES
    cur,        \* currentSessionId
    token,      \* _sessionNavToken
    loads,      \* the calls of selectSession that have not returned
    box,        \* #chat-history: whose history, which live holders, which replies
    turn,       \* per turn: where it was typed and sent, and its reader
    ui,         \* the globals of chat.js
    bg,         \* _backgroundStreams: session -> status, or "none"
    polls,      \* sessions with a live interval of checkBackgroundStream
    resuming,   \* resumeStream readers: <<session, turn>>
    checks,     \* sessions whose stream_status request is on its way
    waits,      \* sessions polled by the fallback of _checkServerStream
    completed,  \* _completedSessions: the dots in the sidebar
    marked,     \* _streamingSessions: the pulsing dots
    run,        \* server: session -> the turn whose run is live, or NoTurn
    saved,      \* server: the turns whose reply is in the history
    stops,      \* server: the /api/chat/stop requests on their way
    ghost       \* what is left of the budget, and what the properties remember

vars == <<cur, token, loads, box, turn, ui, bg, polls, resuming, checks, waits,
          completed, marked, run, saved, stops, ghost>>

\* Session s is open.  After a reload its history is on its way, and a run that
\* the page had begun, in some session r, is live without a reader.
Init ==
    \E s \in OpenFirst, r \in Sessions, b \in Budgets :
      LET left == b.reloads > 0
      IN
        /\ cur = s /\ token = 0
        /\ loads = IF left
                   THEN {[token |-> 0, sess |-> s, phase |-> "fetch", page |-> {}]}
                   ELSE {}
        /\ box = [sess |-> s, live |-> {}, replies |-> {}]
        /\ turn = [n \in Turns |->
                     IF left /\ n = 1 THEN [sess |-> r, typed |-> r, phase |-> "closed"]
                                     ELSE [sess |-> s, typed |-> s, phase |-> "unsent"]]
        /\ ui = [streaming |-> FALSE, abort |-> NoTurn, aborted |-> FALSE,
                 session |-> NoSession, queue |-> <<>>, drain |-> FALSE,
                 promoted |-> <<>>, nudges |-> 0, hide |-> FALSE,
                 recover |-> {}, probe |-> NoSession]
        /\ bg = [t \in Sessions |-> "none"]
        /\ polls = {} /\ resuming = {} /\ checks = {} /\ waits = {}
        /\ completed = {} /\ marked = {}
        /\ run = [t \in Sessions |-> IF left /\ t = r THEN 1 ELSE NoTurn]
        /\ saved = {} /\ stops = {}
        /\ ghost = [left |-> b, unseen |-> {}, automatic |-> 0]

server == <<run, saved, stops>>
sidebar == <<completed, marked>>
switcher == <<cur, token, loads>>
watchers == <<polls, resuming, checks, waits>>

Can(what) == ghost.left[what] > 0
Spent(what) == [ghost EXCEPT !.left[what] = @ - 1]

Live(n) == turn[n].phase \in {"open", "refused", "done"}
TurnsOf(s) == {n \in Turns : turn[n].sess = s}

\* ui.session is never cleared, so the last session sent to stays active.
HasActiveStream(s) ==
    ui.session = s \/ bg[s] # "none" \/ \E r \in resuming : r[1] = s

(***************************************************************************)
(* The blocks of handleChatSubmit that end a reader, as functions of the   *)
(* globals.                                                                *)
(***************************************************************************)
Idle(u) == [u EXCEPT !.streaming = FALSE]

DrainQueuedAgentRequests(u) ==
    IF u.streaming \/ u.queue = <<>> THEN u ELSE [u EXCEPT !.drain = TRUE]

IsBg(n, c, b) == turn[n].sess # c \/ b[turn[n].sess] # "none"

\* catch and finally of an aborted reader on screen: only the global
\* controller is looked at, and it is dropped.
Cancelled(u) ==
    DrainQueuedAgentRequests(Idle([u EXCEPT !.abort = NoTurn, !.aborted = FALSE]))

TryAutoRecover(u, n) ==
    IF u.nudges < Cap
    THEN [u EXCEPT !.nudges = @ + 1, !.hide = TRUE, !.recover = @ \cup {n}]
    ELSE u

\* catch and finally of reader n, with session c open and background map b.
Caught(u, n, c, b) ==
    IF IsBg(n, c, b) THEN DrainQueuedAgentRequests(u)
    ELSE IF u.abort # NoTurn /\ u.aborted THEN Cancelled(u)
    ELSE DrainQueuedAgentRequests(Idle(TryAutoRecover(u, n)))

\* The same for an error that trying again will not mend: it is only shown.
CaughtForGood(u, n, c, b) ==
    IF IsBg(n, c, b) \/ (u.abort # NoTurn /\ u.aborted) THEN Caught(u, n, c, b)
    ELSE DrainQueuedAgentRequests(Idle(u))

CaughtBg(n, c, b) ==
    IF IsBg(n, c, b) /\ b[turn[n].sess] = "running"
    THEN [b EXCEPT ![turn[n].sess] = "error"] ELSE b
CaughtMarks(m, n, c, b) ==
    IF IsBg(n, c, b) /\ b[turn[n].sess] # "none" THEN m \ {turn[n].sess} ELSE m

\* abortCurrentRequest: the live reader, if any, that owns the controller.
Aborted(u) == IF u.abort = NoTurn THEN u ELSE [u EXCEPT !.aborted = TRUE]
Victims(u) == {n \in {u.abort} \ {NoTurn} : Live(n)}
CloseAll(ns) == [n \in Turns |-> IF n \in ns THEN [turn[n] EXCEPT !.phase = "closed"]
                                 ELSE turn[n]]

(***************************************************************************)
(* Sending.                                                                *)
(***************************************************************************)
\* From the end of the send path to the reader loop: the holder is put in
\* whichever history is on screen, the controller becomes the global one.
Opened(u, n) == [u EXCEPT !.abort = n, !.aborted = FALSE]
OpenedBox(n) == [box EXCEPT !.live = @ \cup {n}]

\* Mutant: every send renews it, the automatic ones too.
NudgesAlwaysReset(u) == 0

\* A visible message of the user renews the budget of recoveries.
NudgesAfterSend(u) == IF u.hide THEN u.nudges ELSE 0

\* What the properties remember of it: only a bubble begins the count of
\* automatic sends anew.
SentBy(u, g) == [g EXCEPT !.unseen = @ \ {cur},
                          !.automatic = IF u.hide THEN @ ELSE 0]

\* The POST of turn n, whose call is c, starts a run of its session in place of
\* the one before, or is answered with an error; g is the ghost after it.
Posted(n, c, g) ==
    \/ /\ turn' = [turn EXCEPT ![n] = [c EXCEPT !.phase = "open"]]
       /\ run' = [run EXCEPT ![c.sess] = n] /\ ghost' = g
    \/ /\ g.left["refusals"] > 0
       /\ turn' = [turn EXCEPT ![n] = [c EXCEPT !.phase = "refused"]]
       /\ ghost' = [g EXCEPT !.left["refusals"] = @ - 1] /\ UNCHANGED run

\* A message goes out in the open session; from is where it was typed, g the
\* ghost after it.  The POST leaves in the same task, unless there is an upload
\* or an open document to wait for.
Send(u, from, g) ==
    \E n \in Turns :
      /\ g.left["turns"] > 0
      /\ turn[n].phase = "unsent" /\ \A m \in 1 .. n - 1 : turn[m].phase # "unsent"
      /\ LET fresh == [u EXCEPT !.streaming = TRUE, !.session = cur, !.hide = FALSE,
                                !.nudges = NudgesAfterSend(u)]
             call == [sess |-> cur, typed |-> from, phase |-> "preparing"]
             sent == [SentBy(u, g) EXCEPT !.left["turns"] = @ - 1]
         IN \/ /\ Posted(n, call, sent)
               /\ ui' = Opened(fresh, n) /\ box' = OpenedBox(n)
            \/ /\ Can("gaps")
               /\ turn' = [turn EXCEPT ![n] = call]
               /\ ui' = fresh /\ UNCHANGED <<box, run>>
               /\ ghost' = [sent EXCEPT !.left["gaps"] = @ - 1]
      /\ completed' = completed \ {cur}
      /\ UNCHANGED <<switcher, bg, watchers, marked, saved, stops>>

Post(n) ==
    /\ turn[n].phase = "preparing"
    /\ Posted(n, turn[n], ghost)
    /\ ui' = Opened(ui, n) /\ box' = OpenedBox(n)
    /\ UNCHANGED <<switcher, bg, watchers, sidebar, saved, stops>>

\* The upload fails: nothing is sent, and the composer is unlocked as it is.
UploadFails(n) ==
    /\ turn[n].phase = "preparing"
    /\ turn' = [turn EXCEPT ![n].phase = "closed"]
    /\ ui' = Idle(ui)
    /\ UNCHANGED <<switcher, box, bg, watchers, sidebar, server, ghost>>

\* The stop branch of handleChatSubmit, then the catch of the reader it aborts.
\* It drains the queue itself only when the reply on screen has no text yet.
StopStreaming(u, g) ==
    LET hit == Victims(u)
    IN \E idle \in {Idle(Aborted(u)), DrainQueuedAgentRequests(Idle(Aborted(u)))} :
       /\ stops' = stops \cup {u.session}
       /\ turn' = CloseAll(hit)
       /\ ui' = IF hit = {} THEN idle ELSE Caught(idle, u.abort, cur, bg)
       /\ bg' = IF hit = {} THEN bg ELSE CaughtBg(u.abort, cur, bg)
       /\ marked' = IF hit = {} THEN marked ELSE CaughtMarks(marked, u.abort, cur, bg)
       /\ ghost' = g
       /\ UNCHANGED <<switcher, box, watchers, completed, run, saved>>

TypeAndSend ==
    /\ Can("typed") /\ ~ui.streaming
    /\ Send(ui, cur, Spent("typed"))

ClickStop == Can("stops") /\ ui.streaming /\ StopStreaming(ui, Spent("stops"))

\* Enter while a reply streams: queueStreamingComposerRequest.
QueueAgentRequest ==
    /\ Can("typed") /\ ui.streaming
    /\ ui' = [ui EXCEPT !.queue = Append(@, cur)]
    /\ ghost' = Spent("typed")
    /\ UNCHANGED <<switcher, box, turn, bg, watchers, sidebar, server>>

\* The 180 ms timer of _drainQueuedAgentRequests.
DrainFires ==
    /\ ui.drain
    /\ LET u == [ui EXCEPT !.drain = FALSE]
       IN IF u.streaming \/ u.queue = <<>>
          THEN ui' = u /\ UNCHANGED <<switcher, box, turn, bg, watchers, sidebar,
                                      server, ghost>>
          ELSE Send([u EXCEPT !.queue = Tail(@)], Head(u.queue), ghost)

\* A click on a queued bubble stops the reply; _sendQueuedWhenIdle then waits.
PromoteQueuedRequest(i) ==
    /\ Can("promotes") /\ i \in DOMAIN ui.queue
    /\ LET u == [ui EXCEPT !.queue = RemoveAt(@, i)]
       IN IF ~u.streaming
          THEN Send(u, ui.queue[i], Spent("promotes"))
          ELSE StopStreaming([u EXCEPT !.promoted = <<ui.queue[i]>>],
                             Spent("promotes"))

PromotedFires ==
    /\ ui.promoted # <<>> /\ ~ui.streaming
    /\ Send([ui EXCEPT !.promoted = <<>>], Head(ui.promoted), ghost)

\* The deferred click of _tryAutoRecover: it sends, or stops what streams by now.
RecoverFires(n) ==
    /\ n \in ui.recover
    /\ LET u == [ui EXCEPT !.recover = @ \ {n}]
       IN IF turn[n].sess # cur
          THEN /\ ui' = [u EXCEPT !.hide = FALSE]
               /\ UNCHANGED <<switcher, box, turn, bg, watchers, sidebar, server, ghost>>
          ELSE IF u.streaming THEN StopStreaming(u, ghost)
          ELSE Send(u, cur, [ghost EXCEPT !.automatic = @ + 1])

(***************************************************************************)
(* Reading.                                                                *)
(***************************************************************************)
\* Any line read while another session is open makes the entry.
SeenInBackground(n) == turn[n].sess # cur
Entered(n) == IF SeenInBackground(n) /\ bg[turn[n].sess] = "none"
              THEN [bg EXCEPT ![turn[n].sess] = "running"] ELSE bg
EnteredMarks(n) == IF SeenInBackground(n) /\ bg[turn[n].sess] = "none"
                   THEN marked \cup {turn[n].sess} ELSE marked

ReadLine(n) ==
    /\ turn[n].phase = "open" /\ (run[turn[n].sess] = n \/ n \in saved)
    /\ Entered(n) # bg
    /\ bg' = Entered(n) /\ marked' = EnteredMarks(n)
    /\ UNCHANGED <<switcher, box, turn, ui, watchers, completed, server, ghost>>

\* Mutant: no dot for the session last sent to.
MarkUnlessLastSent(s) == IF ui.session = s THEN completed ELSE completed \cup {s}

\* markStreamComplete: no dot for the session on screen.
MarkStreamComplete(s) == IF cur = s THEN completed ELSE completed \cup {s}

ReadDone(n) ==
    LET s == turn[n].sess
        b == Entered(n)
    IN /\ turn[n].phase = "open" /\ n \in saved
       /\ turn' = [turn EXCEPT ![n].phase = "done"]
       /\ bg' = [b EXCEPT ![s] = IF SeenInBackground(n) THEN "completed" ELSE "none"]
       /\ IF SeenInBackground(n)
          THEN /\ completed' = MarkStreamComplete(s) /\ marked' = EnteredMarks(n) \ {s}
               /\ ghost' = [ghost EXCEPT !.unseen = @ \cup {s}]
          ELSE UNCHANGED <<sidebar, ghost>>
       /\ UNCHANGED <<switcher, box, ui, watchers, server>>

\* The body closes after [DONE]: the final render, then finally.
ReadClose(n) ==
    /\ turn[n].phase = "done"
    /\ turn' = [turn EXCEPT ![n].phase = "closed"]
    /\ IF IsBg(n, cur, bg)
       THEN ui' = DrainQueuedAgentRequests(ui) /\ UNCHANGED box
       ELSE /\ ui' = DrainQueuedAgentRequests(Idle(ui))
            /\ box' = IF n \in box.live
                      THEN [box EXCEPT !.live = @ \ {n}, !.replies = @ \cup {n}]
                      ELSE box
    /\ UNCHANGED <<switcher, bg, watchers, sidebar, server, ghost>>

\* A reader that returns before its stream ends: only finally runs.
Returned(u, n) ==
    DrainQueuedAgentRequests(IF IsBg(n, cur, bg) THEN u ELSE Idle(u))

\* The POST was answered with an error: it is shown in the bubble, which goes
\* when the session does not exist.
ReadRefusal(n) ==
    /\ turn[n].phase = "refused"
    /\ turn' = [turn EXCEPT ![n].phase = "closed"]
    /\ ui' = Returned(ui, n)
    /\ box' \in {box, [box EXCEPT !.live = @ \ {n}]}
    /\ UNCHANGED <<switcher, bg, watchers, sidebar, server, ghost>>

\* An error of the model read while another session is open: the reader goes,
\* and its entry says 'running' still.
ReadErrorAway(n) ==
    /\ turn[n].phase = "open" /\ (run[turn[n].sess] = n \/ n \in saved)
    /\ SeenInBackground(n) /\ Can("errors") /\ ghost' = Spent("errors")
    /\ bg' = Entered(n) /\ marked' = EnteredMarks(n)
    /\ turn' = [turn EXCEPT ![n].phase = "closed"]
    /\ ui' = Returned(ui, n)
    /\ UNCHANGED <<switcher, box, watchers, completed, server>>

\* The connection dies, or closes because the run was cancelled or replaced.
ReadFails(n) ==
    /\ Live(n)
    /\ \/ Can("losses") /\ ghost' = Spent("losses")
          /\ ui' \in {Caught(ui, n, cur, bg), CaughtForGood(ui, n, cur, bg)}
       \/ turn[n].phase = "open" /\ run[turn[n].sess] # n /\ n \notin saved
          /\ ui' = Caught(ui, n, cur, bg) /\ UNCHANGED ghost
    /\ turn' = [turn EXCEPT ![n].phase = "closed"]
    /\ bg' = CaughtBg(n, cur, bg) /\ marked' = CaughtMarks(marked, n, cur, bg)
    /\ UNCHANGED <<switcher, box, watchers, completed, server>>

(***************************************************************************)
(* The watchdog: _probeStaleLocalStream, every 5 s while streaming.  When   *)
(* the readers have been silent for 15 s it asks the server, and a chat     *)
(* without a run unlocks the composer.                                      *)
(***************************************************************************)
ProbeStarts ==
    /\ ui.streaming /\ ui.probe = NoSession
    /\ ui.session = cur /\ bg[cur] = "none"
    /\ ui' = [ui EXCEPT !.probe = cur]
    /\ UNCHANGED <<switcher, box, turn, bg, watchers, sidebar, server, ghost>>

\* Mutant: the dead reader is aborted and the composer stays locked.
OnlyAborted(u) == Aborted(u)

Unlocked(u) == DrainQueuedAgentRequests(Idle(Aborted(u)))

ProbeAnswers ==
    LET u == [ui EXCEPT !.probe = NoSession]
        hit == Victims(u)
        unlocked == Unlocked(u)
    IN /\ ui.probe # NoSession
       /\ IF ~u.streaming \/ bg[ui.probe] # "none" \/ run[ui.probe] # NoTurn
          THEN ui' = u /\ UNCHANGED <<turn, bg, marked>>
          ELSE /\ turn' = CloseAll(hit)
               /\ ui' = IF hit = {} THEN unlocked ELSE Caught(unlocked, u.abort, cur, bg)
               /\ bg' = IF hit = {} THEN bg ELSE CaughtBg(u.abort, cur, bg)
               /\ marked' = IF hit = {} THEN marked
                            ELSE CaughtMarks(marked, u.abort, cur, bg)
       /\ UNCHANGED <<switcher, box, watchers, completed, server, ghost>>

(***************************************************************************)
(* Switching.                                                              *)
(***************************************************************************)
\* Mutant: the composer is left in its streaming state.
DetachedStreaming(u) == [u EXCEPT !.abort = NoTurn, !.aborted = FALSE]

\* What detachCurrentStream leaves of the globals when it detaches.
Detached(u) == Idle([u EXCEPT !.abort = NoTurn, !.aborted = FALSE])

\* selectSession up to its fetch, detachCurrentStream(cur) included: a stream
\* that owns the controller goes to the background, otherwise the controller
\* is aborted.
SelectSession(s, b) ==
    LET detaches == ui.streaming /\ ui.abort # NoTurn
        hit == Victims(ui)
    IN /\ cur' = s /\ token' = token + 1
       /\ loads' = loads \cup {[token |-> token + 1, sess |-> s, phase |-> "fetch",
                                page |-> {}]}
       /\ IF detaches
          THEN /\ ui' = Detached(ui)
               /\ bg' = [b EXCEPT ![cur] = "running"]
               /\ marked' = marked \cup {cur} /\ UNCHANGED turn
          ELSE IF hit = {}
          THEN ui' = Aborted(ui) /\ bg' = b /\ UNCHANGED <<marked, turn>>
          ELSE /\ ui' = Caught(Aborted(ui), ui.abort, s, b)
               /\ bg' = CaughtBg(ui.abort, s, b)
               /\ marked' = CaughtMarks(marked, ui.abort, s, b)
               /\ turn' = CloseAll(hit)

ClickSession(s) ==
    /\ Can("selects") /\ SelectSession(s, bg) /\ ghost' = Spent("selects")
    /\ UNCHANGED <<box, watchers, completed, server>>

\* Mutant: the last answer to arrive wins.
FreshAlways(l) == l \in loads

\* The test after every await: no other switch has started since.
Fresh(l) == l.token = token /\ l.sess = cur

\* The history is fetched; the call gives up when another one has started.
HistoryArrives(l) ==
    /\ l \in loads /\ l.phase = "fetch"
    /\ loads' = (loads \ {l}) \cup
                  (IF Fresh(l)
                   THEN {[l EXCEPT !.phase = "fade", !.page = saved \cap TurnsOf(l.sess)]}
                   ELSE {})
    /\ UNCHANGED <<cur, token, box, turn, ui, bg, watchers, sidebar, server, ghost>>

\* A failed fetch leaves the old messages on screen under an error toast.
HistoryFails(l) ==
    /\ l \in loads /\ l.phase = "fetch" /\ Can("failures")
    /\ loads' = (loads \ {l}) \cup
                  (IF Fresh(l) THEN {[l EXCEPT !.phase = "failed"]} ELSE {})
    /\ ghost' = Spent("failures")
    /\ UNCHANGED <<cur, token, box, turn, ui, bg, watchers, sidebar, server>>

\* After the fade: the history is swapped in and the stream state looked at.
HistoryRenders(l) ==
    LET s == l.sess
        b == IF bg[s] = "running" THEN bg ELSE [bg EXCEPT ![s] = "none"]
    IN /\ l \in loads /\ l.phase = "fade"
       /\ loads' = loads \ {l}
       /\ IF Fresh(l)
          THEN /\ box' = [sess |-> s, live |-> {}, replies |-> l.page]
               /\ completed' = completed \ {s}
               /\ bg' = b
               /\ polls' = IF bg[s] = "running" THEN polls \cup {s} ELSE polls
               /\ checks' = IF ui.session = s \/ b[s] # "none"
                               \/ \E r \in resuming : r[1] = s
                            THEN checks ELSE checks \cup {s}
               /\ ghost' = [ghost EXCEPT !.unseen = @ \ {s}]
          ELSE UNCHANGED <<box, completed, bg, polls, checks, ghost>>
       /\ UNCHANGED <<cur, token, turn, ui, resuming, waits, marked, server>>

\* The 500 ms interval of checkBackgroundStream, when it has something to do.
PollTick(s) ==
    /\ s \in polls /\ polls' = polls \ {s}
    /\ \/ cur # s /\ UNCHANGED <<switcher, turn, ui, bg, marked>>
       \/ cur = s /\ bg[s] # "running"
          /\ SelectSession(s, [bg EXCEPT ![s] = "none"])
    /\ UNCHANGED <<box, resuming, checks, waits, completed, server, ghost>>

\* The answer of stream_status, and resumeStream when a run is still live: it
\* leaves at once if the session was left.  If another reader took the session
\* meanwhile, the fallback waits for the run.
CheckAnswers(s) ==
    /\ s \in checks /\ checks' = checks \ {s}
    /\ IF run[s] = NoTurn
       THEN marked' = marked \ {s} /\ UNCHANGED <<box, resuming, waits>>
       ELSE /\ UNCHANGED marked
            /\ IF HasActiveStream(s)
               THEN waits' = waits \cup {s} /\ UNCHANGED <<box, resuming>>
               ELSE IF cur = s
               THEN /\ resuming' = resuming \cup {<<s, run[s]>>}
                    /\ box' = [box EXCEPT !.live = @ \cup {run[s]}]
                    /\ UNCHANGED waits
               ELSE UNCHANGED <<box, resuming, waits>>
    /\ UNCHANGED <<switcher, turn, ui, bg, polls, completed, server, ghost>>

\* The 1500 ms interval of the fallback.
WaitTick(s) ==
    /\ s \in waits /\ waits' = waits \ {s}
    /\ \/ cur # s /\ UNCHANGED <<switcher, turn, ui, bg, marked>>
       \/ cur = s /\ run[s] = NoTurn /\ SelectSession(s, bg)
    /\ UNCHANGED <<box, polls, resuming, checks, completed, server, ghost>>

\* A resumed reader leaves with its session, or ends with its run: a plain
\* reply is finalised in place, any other outcome reloads the session.
ResumeEnds(r) ==
    /\ r \in resuming /\ resuming' = resuming \ {r}
    /\ \/ cur # r[1] /\ box' = [box EXCEPT !.live = @ \ {r[2]}]
          /\ UNCHANGED <<switcher, turn, ui, bg, marked>>
       \/ cur = r[1] /\ run[r[1]] # r[2] /\ r[2] \in saved
          /\ box' = [box EXCEPT !.live = @ \ {r[2]}, !.replies = @ \cup {r[2]}]
          /\ UNCHANGED <<switcher, turn, ui, bg, marked>>
       \/ cur = r[1] /\ run[r[1]] # r[2]
          /\ box' = [box EXCEPT !.live = @ \ {r[2]}]
          /\ SelectSession(r[1], bg)
    /\ UNCHANGED <<polls, checks, waits, completed, server, ghost>>

(***************************************************************************)
(* The server.                                                             *)
(***************************************************************************)
RunEnds(s) ==
    /\ run[s] # NoTurn
    /\ run' = [run EXCEPT ![s] = NoTurn] /\ saved' = saved \cup {run[s]}
    /\ UNCHANGED <<switcher, box, turn, ui, bg, watchers, sidebar, stops, ghost>>

StopArrives(s) ==
    /\ s \in stops /\ stops' = stops \ {s}
    /\ run' = [run EXCEPT ![s] = NoTurn]
    /\ UNCHANGED <<switcher, box, turn, ui, bg, watchers, sidebar, saved, ghost>>

(***************************************************************************)
(* The specification.                                                      *)
(***************************************************************************)
Next ==
    \/ TypeAndSend \/ ClickStop \/ QueueAgentRequest \/ DrainFires \/ PromotedFires
    \/ ProbeStarts \/ ProbeAnswers
    \/ \E i \in 1 .. MaxTurns : PromoteQueuedRequest(i)
    \/ \E n \in Turns : \/ Post(n) \/ UploadFails(n) \/ RecoverFires(n)
                        \/ ReadLine(n) \/ ReadDone(n) \/ ReadClose(n)
                        \/ ReadRefusal(n) \/ ReadErrorAway(n) \/ ReadFails(n)
    \/ \E s \in Sessions : \/ ClickSession(s) \/ PollTick(s) \/ CheckAnswers(s)
                           \/ WaitTick(s) \/ RunEnds(s) \/ StopArrives(s)
    \/ \E l \in loads : HistoryArrives(l) \/ HistoryFails(l) \/ HistoryRenders(l)
    \/ \E r \in resuming : ResumeEnds(r)

Fairness ==
    /\ WF_vars(DrainFires) /\ WF_vars(PromotedFires)
    /\ WF_vars(ProbeStarts) /\ WF_vars(ProbeAnswers)
    /\ \A n \in Turns : /\ WF_vars(Post(n)) /\ WF_vars(RecoverFires(n))
                        /\ WF_vars(ReadDone(n)) /\ WF_vars(ReadClose(n))
                        /\ WF_vars(ReadRefusal(n)) /\ WF_vars(ReadFails(n))
    /\ \A s \in Sessions : /\ WF_vars(PollTick(s)) /\ WF_vars(CheckAnswers(s))
                           /\ WF_vars(WaitTick(s)) /\ WF_vars(RunEnds(s))
                           /\ WF_vars(StopArrives(s))
    /\ WF_vars(\E l \in loads : HistoryArrives(l) \/ HistoryRenders(l))
    /\ WF_vars(\E r \in resuming : ResumeEnds(r))

Spec == Init /\ [][Next]_vars /\ Fairness

(***************************************************************************)
(* Properties.                                                             *)
(***************************************************************************)
Statuses == {"none", "running", "completed", "error"}

Loads == [token : Nat, sess : Sessions, phase : {"fetch", "fade", "failed"},
          page : SUBSET Turns]
Calls == [sess : Sessions, typed : Sessions,
          phase : {"unsent", "preparing", "open", "refused", "done", "closed"}]
Globals == [streaming : BOOLEAN, abort : Turns \cup {NoTurn}, aborted : BOOLEAN,
            session : Sessions \cup {NoSession}, queue : Seq(Sessions),
            drain : BOOLEAN, promoted : Seq(Sessions), nudges : Nat, hide : BOOLEAN,
            recover : SUBSET Turns, probe : Sessions \cup {NoSession}]
Ghosts == [left : [Spendable -> Int], unseen : SUBSET Sessions, automatic : Nat]

\* The values the page and the server hold.
SwitcherType == cur \in Sessions /\ token \in Nat /\ loads \subseteq Loads
ReadersType ==
    /\ turn \in [Turns -> Calls]
    /\ box \in [sess : Sessions, live : SUBSET Turns, replies : SUBSET Turns]
    /\ resuming \subseteq Sessions \X Turns
MarksType ==
    /\ bg \in [Sessions -> Statuses] /\ polls \subseteq Sessions
    /\ checks \subseteq Sessions /\ waits \subseteq Sessions
    /\ completed \subseteq Sessions /\ marked \subseteq Sessions
ServerType ==
    /\ run \in [Sessions -> Turns \cup {NoTurn}] /\ saved \subseteq Turns
    /\ stops \subseteq Sessions \cup {NoSession}
TypeOK == /\ SwitcherType /\ ReadersType /\ MarksType /\ ServerType
          /\ ui \in Globals /\ ghost \in Ghosts

\* Once no switch is under way the chat on screen is the open one, and no
\* bubble or reply of another chat is in it, however the histories of quick
\* switches overtake each other.  (A switch whose history cannot be fetched
\* leaves the old chat under an error.)
BoxIsCurrent ==
    \/ box.sess = cur /\ \A n \in box.live \cup box.replies : turn[n].sess = cur
    \/ \E l \in loads : l.token = token

\* A reply that finished while its chat was not open keeps its dot in the
\* sidebar until the chat's history is rendered or something is sent there.
UnseenIsMarked == ghost.unseen \subseteq completed

\* Between two messages that have a bubble the client answers dropped streams
\* on its own at most Cap times: recovery cannot feed itself, whatever is sent,
\* stopped or switched in the 200 ms before its click.
BoundedRecovery == ghost.automatic <= Cap

\* Why: each automatic send, and the one that hide announces, was paid for
\* with a nudge since the last bubble.
Balanced(u, automatic) ==
    automatic + (IF u.hide THEN 1 ELSE 0) <= u.nudges /\ u.nudges <= Cap

IndInv == TypeOK /\ UnseenIsMarked /\ Balanced(ui, ghost.automatic)

\* What the stop button cancels on the server is the run of the open chat,
\* though it goes by the session last sent to.  (Unless the chat was changed
\* while a send waited for its upload or document: SendsDoNotWait.)
StopHitsOpenChat == [][\A s \in stops' \ stops : s = cur]_vars

\* What the two need: a page either changes chats or has sends that wait.
SendsDoNotWait == \A b \in Budgets : b["gaps"] = 0 \/ b["selects"] = 0

\* Why they hold then.  A turn that went out stays where it was sent, and every
\* list of turns the page or the server keeps for a chat has only that chat's.
SentIn(s) == {n \in Turns : turn[n].sess = s /\ turn[n].phase # "unsent"}
Placed ==
    /\ \A s \in Sessions : run[s] \in SentIn(s) \cup {NoTurn}
    /\ \A n \in saved : turn[n].phase # "unsent"
    /\ \A r \in resuming : r[2] \in SentIn(r[1])
    /\ \A l \in loads : l.page \subseteq SentIn(l.sess)

\* Only the last switch has the current token, and it is to the open chat.
LastSwitch == \A l \in loads : l.token <= token /\ (l.token = token => l.sess = cur)

Shown == \/ box.sess = cur /\ box.live \cup box.replies \subseteq SentIn(cur)
         \/ \E l \in loads : l.token = token

\* A send that waits does so in the open chat, which no click can leave.
Waiting == {n \in Turns : turn[n].phase = "preparing"}
WaitsAtHome ==
    /\ Waiting \subseteq SentIn(cur)
    /\ Can("gaps") \/ Waiting # {} => ~Can("selects")

\* A locked composer belongs to the open chat, and until its POST has left
\* there is no controller to detach it by.
StreamsHere ==
    ui.streaming => /\ ui.session = cur
                    /\ ui.abort = NoTurn => Waiting # {}

PlaceInv == Placed /\ LastSwitch /\ Shown /\ WaitsAtHome /\ StreamsHere

\* The composer is never locked for good: losses, replaced runs, readers in
\* the background and switches during the last bytes of a reply all end with
\* an idle composer, if only through the watchdog.
ComposerUnlocks == ui.streaming ~> ~ui.streaming

\* A queued message is sent to the chat it was typed in, as its toast says
\* ("Queued for after this response").  It is not.
QueuedGoesHome == \A n \in Turns : turn[n].typed = turn[n].sess
=============================================================================
