---------------------------- MODULE CookbookTasks ----------------------------
(***************************************************************************)
(* The Cookbook's download tasks in the browser client:                    *)
(* static/js/cookbookRunning.js and cookbookDownload.js.                   *)
(*                                                                         *)
(* A task is a row of localStorage, pushed to the server by a debounced    *)
(* POST and merged back by polls; the download itself runs in a tmux       *)
(* session of its host.  Rows are moved by watch loops (one per card that  *)
(* was opened while the Running tab is visible), by the background poll,   *)
(* by the 'one at a time per host' queue, by automatic relaunches and by   *)
(* the user, each of which awaits a shell command or a POST in the middle. *)
(*                                                                         *)
(* A queued row has an id of its own, <<"queue", n>>, and takes the id of  *)
(* the tmux session, <<"session", n>>, once it is launched.                *)
(*                                                                         *)
(* Of the server there is what a launch, a shell command, a push and a     *)
(* status request do (routes/cookbook_routes.py, shell_routes.py); the     *)
(* tmux sessions and the downloads in them are external.                   *)
(***************************************************************************)
EXTENDS Naturals, Sequences, FiniteSets, Functions

CONSTANTS Pages,    \* one browser per device
          First,    \* the one that has the Cookbook open at the start
          Repos,    \* the models one may download
          HostOf,   \* the server each is downloaded to
          Budgets   \* how often the user acts and the downloads fail

Spendable == {"downloads", "starts", "restarts", "removes", "stops", "clears",
              "pills", "watches", "shows", "opens", "loads", "joins", "fails",
              "stalls", "deaths", "errors", "lost", "slow", "busy"}

MaxAutoRetry == 2   \* _DL_MAX_AUTO_RETRY

ASSUME CookbookAssumption ==
    /\ First \in Pages /\ Repos # {} /\ DOMAIN HostOf = Repos
    /\ Budgets \subseteq [Spendable -> Nat]

VARIABLES
    page,     \* localStorage (tasks, tomb) and the memory of each page
    server,   \* cookbook_state.json: tasks, removedTasks
    jobs,     \* the tmux sessions, by number, and what was downloaded
    waits,    \* what the handlers and timers of the pages await
    ghost     \* what is left of the budget, the numbers used, what was started

vars == <<page, server, jobs, waits, ghost>>

Queue(n) == <<"queue", n>>
Session(n) == <<"session", n>>

Task(id, repo, status) ==
    [id |-> id, repo |-> repo, status |-> status,
     launched |-> FALSE, restarted |-> FALSE]

Nothing == Task(Queue(0), CHOOSE r \in Repos : TRUE, "none")

Settled == {"done", "error", "crashed"}

NoCards == [id \in {} |-> <<>>]
NewPage == [up |-> FALSE, open |-> FALSE, tab |-> FALSE, cards |-> NoCards,
            dirty |-> FALSE, due |-> FALSE, retries |-> [r \in Repos |-> 0]]

Init ==
    /\ page = [p \in Pages |-> [tasks |-> <<>>, tomb |-> {},
                                mem |-> [NewPage EXCEPT !.up = p = First, !.open = p = First]]]
    /\ server = [tasks |-> <<>>, removed |-> {}]
    /\ jobs = [at |-> [n \in {} |-> "live"], of |-> [n \in {} |-> ""], disk |-> {}]
    /\ waits = {}
    /\ \E b \in Budgets :
        ghost = [left |-> b, n |-> 0, starts |-> [id \in {} |-> 0],
                 auto |-> [p \in Pages |-> [r \in Repos |-> 0]], asked |-> [r \in Repos |-> 0]]

Can(what) == ghost.left[what] > 0

(***************************************************************************)
(* Rows.                                                                   *)
(***************************************************************************)
Ids(tasks) == {tasks[i].id : i \in DOMAIN tasks}
Row(tasks, id) == tasks[CHOOSE i \in DOMAIN tasks : tasks[i].id = id]

\* The k-th of the positions I, and the rows at them, in their order.
Place(I, k) == CHOOSE i \in I : Cardinality({j \in I : j <= i}) = k
Only(tasks, I) == [k \in 1 .. Cardinality(I) |-> tasks[Place(I, k)]]

Without(tasks, ids) == Only(tasks, {i \in DOMAIN tasks : tasks[i].id \notin ids})
Edit(tasks, id, Op(_)) ==
    [i \in DOMAIN tasks |-> IF tasks[i].id = id THEN Op(tasks[i]) ELSE tasks[i]]

HasStatus(tasks, statuses) == Only(tasks, {i \in DOMAIN tasks : tasks[i].status \in statuses})

\* A queued row goes when its model was launched or is queued before it.
PruneQueuedDownloadDuplicates(tasks) ==
    Only(tasks, {i \in DOMAIN tasks :
                    \/ tasks[i].status # "queued"
                    \/ \A j \in DOMAIN tasks \ {i} :
                            tasks[j].repo = tasks[i].repo
                                => tasks[j].status = "queued" /\ j > i})

(***************************************************************************)
(* A handler is a function of s: the page d, what awaits w, and the next   *)
(* number n for a row or a session.                                        *)
(***************************************************************************)
State(p) == [d |-> page[p], w |-> waits, n |-> ghost.n]

\* What is not on the server yet makes the page dirty; the push is due in 400 ms.
SaveTasks(s, tasks) == [s EXCEPT !.d.tasks = tasks, !.d.mem.dirty = TRUE, !.d.mem.due = TRUE]

LoadPruned(s) ==
    LET t == PruneQueuedDownloadDuplicates(s.d.tasks)
    IN  IF t = s.d.tasks THEN s ELSE SaveTasks(s, t)

UpdateTask(s, id, Op(_)) ==
    IF id \in Ids(s.d.tasks) THEN SaveTasks(s, Edit(s.d.tasks, id, Op)) ELSE s

SetStatus(s, id, status) == UpdateTask(s, id, LAMBDA t : [t EXCEPT !.status = status])

Visible(m) == m.open /\ m.tab

\* Only a card that is created while the Running tab is visible is watched.
RenderRunningTab(s) ==
    LET q == LoadPruned(s)
        m == q.d.mem
    IN  [q EXCEPT !.d.mem.tab = @ /\ q.d.tasks # <<>>,
                  !.d.mem.cards =
            [id \in Ids(q.d.tasks) |->
                IF id \in DOMAIN m.cards THEN m.cards[id]
                ELSE [task |-> Row(q.d.tasks, id),
                      loop |-> IF Visible(m) THEN "idle" ELSE "none"]]]

RemoveTask(s, id) ==
    RenderRunningTab(SaveTasks([s EXCEPT !.d.tomb = @ \cup {id}],
                               Without(s.d.tasks, {id})))

Abort(s, id) ==
    IF id \in DOMAIN s.d.mem.cards
    THEN [s EXCEPT !.d.mem.cards[id].loop = "none"] ELSE s

Wait(p, what, t) == [p |-> p, what |-> what, task |-> t, card |-> t.id,
                     at |-> "sent", new |-> 0, list |-> <<>>, ids |-> {}, k |-> 0]

\* What a page awaits already it may await once more: k tells the two apart.
Another(s, w) ==
    LET like == {v \in s.w : v.p = w.p /\ v.what = w.what /\ v.task = w.task}
    IN  [w EXCEPT !.k = CHOOSE k \in 0 .. Cardinality(like) : \A v \in like : v.k # k]

Await(s, w) == [s EXCEPT !.w = @ \cup {Another(s, w)}]

\* A POST /api/model/download; the session it makes gets the next number.
Post(s, p, what, t) ==
    [s EXCEPT !.n = @ + 1, !.w = @ \cup {[Wait(p, what, t) EXCEPT !.new = s.n + 1]}]

AddTask(s, id, repo) ==
    LET kept == Only(s.d.tasks, {i \in DOMAIN s.d.tasks :
                    LET t == s.d.tasks[i] IN
                    t.id # id /\ ~(t.repo = repo /\ t.status = "queued")})
        q == RenderRunningTab(SaveTasks(s, Append(kept, Task(id, repo, "running"))))
    IN  [q EXCEPT !.d.mem.tab = TRUE]

\* The k-th of some launches by p, of the row t.
Start(s, p, t, k) == [Wait(p, "start", t) EXCEPT !.new = s.n + k]

\* Mutant: the rows stay queued until the POSTs are answered.
StartWithoutFlip(s, p, list) ==
    [s EXCEPT !.n = @ + Len(list), !.w = @ \cup {Start(s, p, list[i], i) : i \in DOMAIN list}]

\* What is called for each of some different rows, in their order: those that
\* are not being started already are marked, and their POSTs go out.
StartQueuedDownload(s, p, list) ==
    LET Launched(id) == /\ id \in Ids(s.d.tasks)
                        /\ Row(s.d.tasks, id).status = "running" /\ Row(s.d.tasks, id).launched
        todo == Only(list, {i \in DOMAIN list : ~Launched(list[i].id)})
        q == IF Ids(todo) \cap Ids(s.d.tasks) = {} THEN s
             ELSE SaveTasks(s, [i \in DOMAIN s.d.tasks |->
                    IF s.d.tasks[i].id \in Ids(todo)
                    THEN [s.d.tasks[i] EXCEPT !.status = "running", !.launched = TRUE]
                    ELSE s.d.tasks[i]])
    IN  [q EXCEPT !.n = @ + Len(todo), !.w = @ \cup {Start(s, p, todo[i], i) : i \in DOMAIN todo}]

\* The first queued row of each host where nothing runs.
ProcessQueue(s, p) ==
    LET q == LoadPruned(s)
        Waits(i, h) == q.d.tasks[i].status = "queued" /\ HostOf[q.d.tasks[i].repo] = h
        Busy(h) == \E i \in DOMAIN q.d.tasks : /\ q.d.tasks[i].status = "running"
                                               /\ HostOf[q.d.tasks[i].repo] = h
        first == {i \in DOMAIN q.d.tasks :
                    LET h == HostOf[q.d.tasks[i].repo] IN
                    Waits(i, h) /\ ~Busy(h) /\ \A j \in 1 .. i - 1 : ~Waits(j, h)}
    IN  StartQueuedDownload(q, p, Only(q.d.tasks, first))

New(s, kinds) == {w \in s.w \ waits : w.what \in kinds}

\* How often each queued row was launched since it was last called over.
Starts(s) ==
    LET new == New(s, {"start"})
        Before(id) == IF id \notin DOMAIN ghost.starts \/ id \in Ids(HasStatus(s.d.tasks, Settled))
                      THEN 0 ELSE ghost.starts[id]
    IN  [id \in DOMAIN ghost.starts \cup {w.task.id : w \in new} |->
            Before(id) + Cardinality({w \in new : w.task.id = id})]

Launches(s, kinds, r) == Cardinality({w \in New(s, kinds) : w.task.repo = r})

\* Page p has run a handler to its next await.
Ran(p, s, left) ==
    /\ page' = [page EXCEPT ![p] = s.d]
    /\ waits' = s.w
    /\ ghost' = [left |-> left, n |-> s.n, starts |-> Starts(s),
                 asked |-> [r \in Repos |->
                    ghost.asked[r] + Launches(s, {"add", "start", "replace"}, r)],
                 auto |-> [ghost.auto EXCEPT ![p] = [r \in Repos |->
                    IF s.d.mem.retries[r] < page[p].mem.retries[r] THEN 0
                    ELSE @[r] + Launches(s, {"again", "restall"}, r)]]]

Free(p, s) == Ran(p, s, ghost.left)
Paid(what, p, s) == Can(what) /\ Ran(p, s, [ghost.left EXCEPT ![what] = @ - 1])

\* The state of p once w has been answered.
Answered(w) == [State(w.p) EXCEPT !.w = @ \ {w}]

Open(p) == page[p].mem.up /\ page[p].mem.open
Dialog(p) == \E w \in waits : w.p = p /\ w.what \in {"stopAll", "clear"}
User(p) == Open(p) /\ ~Dialog(p)
Card(p, c) == page[p].mem.cards[c]
OnCard(p, c) == User(p) /\ page[p].mem.tab /\ c \in DOMAIN page[p].mem.cards

Alive(id) == /\ id[1] = "session" /\ id[2] \in DOMAIN jobs.at
             /\ jobs.at[id[2]] # "gone"

(***************************************************************************)
(* A download is asked for: it is launched, queued behind another of its   *)
(* host, or refused because it is under way.                               *)
(***************************************************************************)
QueueOrPost(s, p, r, tasks) ==
    IF \E i \in DOMAIN tasks : /\ tasks[i].status \in {"running", "queued"}
                               /\ HostOf[tasks[i].repo] = HostOf[r]
    THEN RenderRunningTab(SaveTasks([s EXCEPT !.n = @ + 1],
                          Append(s.d.tasks, Task(Queue(s.n + 1), r, "queued"))))
    ELSE Post(s, p, "add", Task(Session(s.n + 1), r, "running"))

Download(p, r) ==
    LET tasks == page[p].tasks
        same == {i \in DOMAIN tasks : tasks[i].repo = r}
        zombies == {i \in same : tasks[i].status \in Settled /\ tasks[i].id[1] = "session"}
        s == [State(p) EXCEPT !.d.mem.tab = FALSE]
    IN  /\ User(p)
        /\ \A i \in same : tasks[i].status \notin {"running", "queued"}
        /\ Paid("downloads", p,
                IF zombies = {} THEN QueueOrPost(s, p, r, tasks)
                ELSE Await(s, [Wait(p, "probe", tasks[Place(zombies, 1)]) EXCEPT !.list = tasks]))
        /\ UNCHANGED <<server, jobs>>

\* A probe that fails is taken for a session that is gone.
Probed(w) ==
    LET launch == QueueOrPost(Answered(w), w.p, w.task.repo, w.list)
    IN  /\ w.what = "probe"
        /\ \/ Free(w.p, IF Alive(w.task.id)
                        THEN RenderRunningTab(SetStatus(Answered(w), w.task.id, "running"))
                        ELSE launch)
           \/ Paid("lost", w.p, launch)
        /\ UNCHANGED <<server, jobs>>

StartNow(p, c) ==
    /\ OnCard(p, c) /\ Card(p, c).task.status = "queued"
    /\ Paid("starts", p, StartQueuedDownload(State(p), p, <<Card(p, c).task>>))
    /\ UNCHANGED <<server, jobs>>

(***************************************************************************)
(* Answers to POST /api/model/download.                                    *)
(***************************************************************************)
AddAnswered(w) ==
    /\ w.what \in {"add", "again"} /\ w.at # "sent"
    /\ Free(w.p, IF w.at = "bad" THEN Answered(w)
                 ELSE AddTask(Answered(w), Session(w.new), w.task.repo))
    /\ UNCHANGED <<server, jobs>>

\* Mutant: a row that was removed meanwhile is not put back.
DropLaunched(s, w) ==
    LET new == Session(w.new) IN
    RenderRunningTab(SaveTasks(s,
        Edit(s.d.tasks, w.task.id,
             LAMBDA t : [t EXCEPT !.id = new, !.status = "running", !.launched = TRUE])))

Launched(s, w) ==
    LET new == Session(w.new)
        kept == Only(s.d.tasks, {i \in DOMAIN s.d.tasks :
                    LET t == s.d.tasks[i] IN
                    \/ t.id = w.task.id
                    \/ t.id # new /\ ~(t.repo = w.task.repo /\ t.status = "queued")})
        row == [w.task EXCEPT !.id = new, !.status = "running"]
    IN  RenderRunningTab(SaveTasks(s,
            IF w.task.id \in Ids(kept)
            THEN Edit(kept, w.task.id, LAMBDA t : [t EXCEPT !.id = new,
                                            !.status = "running", !.launched = TRUE])
            ELSE Append(kept, row)))

StartAnswered(w) ==
    /\ w.what = "start" /\ w.at # "sent"
    /\ Free(w.p, IF w.at = "ok" THEN Launched(Answered(w), w)
                 ELSE RenderRunningTab(SetStatus(Answered(w), w.task.id, "error")))
    /\ UNCHANGED <<server, jobs>>

ReplaceAnswered(w) ==
    LET s == Answered(w)
        new == Session(w.new)
    IN  /\ w.what = "replace" /\ w.at # "sent"
        /\ Free(w.p, IF w.at = "bad" THEN SetStatus(s, w.task.id, "crashed")
                     ELSE IF w.task.id \in Ids(s.d.tasks)
                     THEN RenderRunningTab(UpdateTask(s, w.task.id, LAMBDA t :
                                [t EXCEPT !.id = new, !.status = "running"]))
                     ELSE AddTask(s, new, w.task.repo))
        /\ UNCHANGED <<server, jobs>>

\* The loop goes on under the new id, whether or not it was aborted.
RestallAnswered(w) ==
    LET s == Answered(w)
        has == w.card \in DOMAIN s.d.mem.cards
        busy == has /\ s.d.mem.cards[w.card].loop = "busy"
        q == IF w.at = "bad" THEN s
             ELSE UpdateTask(s, w.task.id, LAMBDA t :
                                [t EXCEPT !.id = Session(w.new), !.status = "running"])
    IN  /\ w.what = "restall" /\ w.at # "sent"
        /\ Free(w.p,
             IF ~has THEN q
             ELSE [q EXCEPT !.d.mem.cards[w.card] =
                    [task |-> IF w.at = "bad" THEN @.task
                              ELSE [@.task EXCEPT !.id = Session(w.new)],
                     loop |-> IF ~busy THEN @.loop
                              ELSE IF w.at = "bad" THEN "over" ELSE "idle"]])
        /\ UNCHANGED <<server, jobs>>

(***************************************************************************)
(* The watch loop of a card: one capture of the pane and what it decides.  *)
(***************************************************************************)
Over(s, c) == [s EXCEPT !.d.mem.cards =
                 [k \in DOMAIN @ |-> IF k = c THEN [@[k] EXCEPT !.loop = "over"] ELSE @[k]]]

Watching(p, c) == /\ page[p].mem.up /\ Visible(page[p].mem)
                  /\ c \in DOMAIN page[p].mem.cards
                  /\ Card(p, c).loop = "idle"
PaneOf(p, c) == LET id == Card(p, c).task.id
                IN IF Alive(id) THEN jobs.at[id[2]] ELSE "gone"

SeesLive(p, c) ==
    /\ Watching(p, c) /\ PaneOf(p, c) = "live"
    /\ Free(p, UpdateTask(State(p), Card(p, c).task.id, LAMBDA t : t))
    /\ UNCHANGED <<server, jobs>>

\* The session is gone.  The last output may show a strong marker of the end,
\* a weak one, to be confirmed in 30 s, an error that is known, or none.
SeesGone(p, c) ==
    LET t == Card(p, c).task
        s == Over(State(p), c)
        Ended(q) == ProcessQueue(RenderRunningTab(q), p)
    IN  /\ Watching(p, c) /\ PaneOf(p, c) = "gone"
        /\ \/ \E status \in {"crashed", "error"} : Free(p, Ended(SetStatus(s, t.id, status)))
           \/ t.id[1] = "session" /\ t.repo \in jobs.disk
                /\ Free(p, Ended(SetStatus(s, t.id, "done")))
           \/ t.id[1] = "session" /\ Free(p, Ended(Await(s, Wait(p, "confirm", t))))
        /\ UNCHANGED <<server, jobs>>

\* _reconnectTask: a visible card that has no loop, or an aborted one, gets one.
Rewatch(s, c) ==
    IF c \in DOMAIN s.d.mem.cards /\ Visible(s.d.mem) /\ s.d.mem.cards[c].loop = "none"
    THEN [s EXCEPT !.d.mem.cards[c].loop = "idle"] ELSE s

\* Here a probe that fails is taken for a session that is alive.
Confirmed(w) ==
    LET s == Answered(w)
        id == w.task.id
        again == Rewatch(SetStatus(s, id, "running"), id)
    IN  /\ w.what = "confirm"
        /\ \/ Free(w.p, IF id \notin Ids(s.d.tasks) THEN s
                        ELSE IF Alive(id) THEN again
                        ELSE ProcessQueue(RenderRunningTab(SetStatus(s, id, "done")), w.p))
           \/ id \in Ids(s.d.tasks) /\ Paid("lost", w.p, again)
        /\ UNCHANGED <<server, jobs>>

\* Mutant: the row does not remember that it was restarted.
StallForgotten(p, c) ==
    LET t == Card(p, c).task
    IN  /\ Watching(p, c) /\ PaneOf(p, c) = "stuck"
        /\ Free(p, Await([State(p) EXCEPT !.d.mem.cards[c].loop = "busy"],
                         [Wait(p, "stallKill", t) EXCEPT !.card = c]))
        /\ UNCHANGED <<server, jobs>>

SeesStall(p, c) ==
    LET t == Card(p, c).task
        s == [State(p) EXCEPT !.d.mem.cards[c] =
                [task |-> [t EXCEPT !.restarted = TRUE], loop |-> "busy"]]
    IN  /\ Watching(p, c) /\ PaneOf(p, c) = "stuck" /\ ~t.restarted
        /\ Free(p, Await(UpdateTask(s, t.id, LAMBDA x : [x EXCEPT !.restarted = TRUE]),
                         [Wait(p, "stallKill", t) EXCEPT !.card = c]))
        /\ UNCHANGED <<server, jobs>>

StallKilled(w) ==
    LET s == Answered(w)
    IN  /\ w.what = "stallKill" /\ w.at = "ok"
        /\ Free(w.p, [s EXCEPT !.n = @ + 1,
                        !.w = @ \cup {[w EXCEPT !.what = "restall", !.at = "sent",
                                               !.new = s.n + 1]}])
        /\ UNCHANGED <<server, jobs>>

\* The download failed: it is retried, or a refusal or the third failure shows.
SeesFailure(p, c) ==
    LET t == Card(p, c).task
        s == Over(State(p), c)
    IN  /\ Watching(p, c) /\ PaneOf(p, c) = "failed"
        /\ \/ /\ s.d.mem.retries[t.repo] < MaxAutoRetry
              /\ Free(p, Await([s EXCEPT !.d.mem.retries[t.repo] = @ + 1],
                               Wait(p, "failKill", t)))
           \/ Free(p, SetStatus(s, t.id, "error"))
        /\ UNCHANGED <<server, jobs>>

FailKilled(w) ==
    /\ w.what = "failKill" /\ w.at = "ok"
    /\ Free(w.p, Await(RemoveTask(Answered(w), w.task.id), Wait(w.p, "timer", w.task)))
    /\ UNCHANGED <<server, jobs>>

RetryTimer(w) ==
    /\ w.what = "timer"
    /\ Free(w.p, Post(Answered(w), w.p, "again", w.task))
    /\ UNCHANGED <<server, jobs>>

SeesDone(p, c) ==
    LET t == Card(p, c).task
        s == SetStatus([Over(State(p), c) EXCEPT !.d.mem.retries[t.repo] = 0],
                       t.id, "done")
    IN  /\ Watching(p, c) /\ PaneOf(p, c) = "ok"
        /\ Free(p, ProcessQueue(Await(s, Wait(p, "kill", t)), p))
        /\ UNCHANGED <<server, jobs>>

LoopEnds(p, c) ==
    /\ c \in DOMAIN page[p].mem.cards /\ Card(p, c).loop = "idle"
    /\ ~Visible(page[p].mem)
    /\ Free(p, Abort(State(p), c))
    /\ UNCHANGED <<server, jobs>>

\* A click on the header of a card: closed and opened again, it is watched.
Watch(p, c) ==
    /\ OnCard(p, c) /\ Card(p, c).loop # "idle"
    /\ Paid("watches", p, [State(p) EXCEPT !.d.mem.cards[c].loop = "idle"])
    /\ UNCHANGED <<server, jobs>>

Reconnect(p, c) ==
    /\ OnCard(p, c) /\ Card(p, c).task.status \in Settled
    /\ Paid("watches", p, SetStatus([State(p) EXCEPT !.d.mem.cards[c].loop =
                                        IF @ = "none" THEN "idle" ELSE @],
                                    Card(p, c).task.id, "running"))
    /\ UNCHANGED <<server, jobs>>

(***************************************************************************)
(* Stop all, Remove, Restart, and the clearing of settled rows.            *)
(***************************************************************************)
OnHost(t, h) == HostOf[t.repo] = h

AskStopAll(p, h) ==
    LET tasks == page[p].tasks
        running == Only(tasks, {i \in DOMAIN tasks :
                                OnHost(tasks[i], h) /\ tasks[i].status = "running"})
    IN  /\ User(p) /\ page[p].mem.tab /\ running # <<>>
        /\ Paid("stops", p, Await(State(p),
                [Wait(p, "stopAll", Head(running)) EXCEPT !.list = running]))
        /\ UNCHANGED <<server, jobs>>

\* The stop buttons of some cards: each loop is aborted, then its session killed.
Stop(s, p, cs) ==
    [s EXCEPT !.d.mem.cards = [c \in DOMAIN @ |-> IF c \in cs THEN [@[c] EXCEPT !.loop = "none"]
                                                 ELSE @[c]],
              !.w = @ \cup {Another(s, [Wait(p, "stop", s.d.mem.cards[c].task) EXCEPT !.card = c]) :
                                    c \in cs}]

ConfirmStopAll(w) ==
    LET s == Answered(w)
    IN  /\ w.what = "stopAll"
        /\ Free(w.p, Stop(s, w.p, Ids(w.list) \cap DOMAIN s.d.mem.cards))
        /\ UNCHANGED <<server, jobs>>

RemoveCard(p, c) ==
    /\ OnCard(p, c)
    /\ Paid("removes", p, Await(State(p), [Wait(p, "remove", Card(p, c).task)
                                            EXCEPT !.card = c]))
    /\ UNCHANGED <<server, jobs>>

\* The card, if it is still there, fades for 360 ms; then its row goes.
AnimateOutThenRemove(s, p, c, t) ==
    LET now == IF c \in DOMAIN s.d.mem.cards THEN s.d.mem.cards[c].task ELSE t
    IN  Await(Abort(s, c), Wait(p, "fade", now))

Killed(w) ==
    /\ w.what \in {"stop", "remove"} /\ w.at \in {"ok", "bad"}
    /\ Free(w.p, IF w.at = "bad" THEN Answered(w)
                 ELSE AnimateOutThenRemove(Answered(w), w.p, w.card, w.task))
    /\ UNCHANGED <<server, jobs>>

Faded(w) ==
    /\ w.what = "fade"
    /\ Free(w.p, RemoveTask(Answered(w), w.task.id))
    /\ UNCHANGED <<server, jobs>>

Restart(p, c) ==
    /\ OnCard(p, c)
    /\ Paid("restarts", p, Await(Abort(State(p), c), Wait(p, "retryKill", Card(p, c).task)))
    /\ UNCHANGED <<server, jobs>>

RestartKilled(w) ==
    /\ w.what = "retryKill" /\ w.at = "ok"
    /\ Free(w.p, Post(SetStatus(Answered(w), w.task.id, "running"), w.p, "replace", w.task))
    /\ UNCHANGED <<server, jobs>>

\* The check mark of a settled row: killed to be sure, and faded out.
ClearPill(p, c) ==
    LET t == Card(p, c).task
    IN  /\ OnCard(p, c) /\ c \in Ids(page[p].tasks)
        /\ Row(page[p].tasks, c).status \in Settled
        /\ Paid("pills", p, AnimateOutThenRemove(Await(State(p), Wait(p, "kill", t)), p, c, t))
        /\ UNCHANGED <<server, jobs>>

AskClear(p, h) ==
    LET tasks == page[p].tasks
    IN  /\ User(p) /\ page[p].mem.tab
        /\ \E i \in DOMAIN tasks : OnHost(tasks[i], h) /\ tasks[i].status \in Settled
        /\ Paid("clears", p, Await(State(p),
                [Wait(p, "clear", Task(Queue(0), CHOOSE r \in Repos : HostOf[r] = h, "done"))
                    EXCEPT !.list = tasks]))
        /\ UNCHANGED <<server, jobs>>

\* What is kept is what the list was when the question was asked.
ConfirmClear(w) ==
    LET s == Answered(w)
        ids == {w.list[i].id : i \in {j \in DOMAIN w.list :
                    OnHost(w.list[j], HostOf[w.task.repo]) /\ w.list[j].status \in Settled}}
    IN  /\ w.what = "clear"
        /\ Free(w.p, SaveTasks([s EXCEPT !.d.tomb = @ \cup ids,
                                        !.d.mem.cards = Restrict(@, DOMAIN @ \ ids)],
                               Without(w.list, ids)))
        /\ UNCHANGED <<server, jobs>>

Dismiss(w) ==
    /\ w.what \in {"clear", "stopAll"}
    /\ Free(w.p, Answered(w))
    /\ UNCHANGED <<server, jobs>>

(***************************************************************************)
(* The server's copy: pushed, polled, and merged when the page opens.      *)
(***************************************************************************)
\* The rows the body omits are kept while they are less than a minute old.
SyncToServer(p) ==
    LET d == page[p]
        removed == server.removed \cup d.tomb
        sent == Without(d.tasks, removed)
        rest == Without(server.tasks, removed \cup Ids(sent))
    IN  /\ d.mem.up /\ d.mem.due
        /\ \E kept \in SUBSET Ids(rest) :
            server' = [tasks |-> sent \o Only(rest, {i \in DOMAIN rest : rest[i].id \in kept}),
                       removed |-> removed]
        /\ page' = [page EXCEPT ![p].mem.dirty = FALSE, ![p].mem.due = FALSE]
        /\ UNCHANGED <<jobs, waits, ghost>>

\* A push that fails, or that finds no list of hosts, is swallowed and not repeated.
SyncLost(p) ==
    /\ page[p].mem.up /\ page[p].mem.due
    /\ Paid("lost", p, [State(p) EXCEPT !.d.mem.due = FALSE])
    /\ UNCHANGED <<server, jobs>>

\* Mutant: the merge does not look at the tombstones.
MergeAll(s, tasks) == s.d.tasks \o Without(tasks, Ids(s.d.tasks))

\* Rows the page does not have and has not removed.
Merge(s, tasks) == s.d.tasks \o Without(tasks, Ids(s.d.tasks) \cup s.d.tomb)

\* A settled row is reported as it is stored, unless the model is on disk.
StatusOf(t) ==
    LET pane == IF Alive(t.id) THEN jobs.at[t.id[2]] ELSE "gone"
        ended == IF t.repo \in jobs.disk THEN "done" ELSE "crashed"
    IN  CASE t.status = "error" -> "error"
          [] t.status \in {"done", "crashed"} -> ended
          [] pane = "gone" -> ended
          [] pane = "ok" -> "done"
          [] pane = "failed" -> "error"
          [] OTHER -> "running"

Statuses == [i \in DOMAIN server.tasks |->
                [server.tasks[i] EXCEPT !.status = StatusOf(server.tasks[i])]]

\* Rows the page lacks are merged in without being pushed; then it asks for
\* the status of those the server has.
MergeState(s, p, tasks) ==
    LET merged == Merge(s, tasks)
        q == IF merged = s.d.tasks THEN s
             ELSE RenderRunningTab([s EXCEPT !.d.tasks = merged])
    IN  Await(q, [Wait(p, "status", Nothing) EXCEPT !.list = Statuses])

\* No page polls while its chat is busy, which is so for a whole budget.
CanBackgroundPoll == ~Can("busy")

\* Either GET is answered at once, or what it read is old when it arrives.
Poll(p) ==
    /\ page[p].mem.up /\ CanBackgroundPoll
    /\ \A w \in waits : w.p = p => w.what \notin {"state", "status"}
    /\ \/ Free(p, MergeState(State(p), p, server.tasks))
       \/ Paid("slow", p, Await(State(p), [Wait(p, "state", Nothing)
                                            EXCEPT !.list = server.tasks]))
    /\ UNCHANGED <<server, jobs>>

StateAnswered(w) ==
    /\ w.what = "state"
    /\ Free(w.p, MergeState(Answered(w), w.p, w.list))
    /\ UNCHANGED <<server, jobs>>

\* Mutant: a session that is gone says nothing about its row.
ReconcileLive(s, live) ==
    LET tasks == Merge(s, live)
    IN  [i \in DOMAIN tasks |->
            IF tasks[i].id \in Ids(live) /\ Row(live, tasks[i].id).status # "crashed"
            THEN [tasks[i] EXCEPT !.status = Row(live, tasks[i].id).status] ELSE tasks[i]]

Reconcile(s, live) ==
    LET tasks == Merge(s, live)
    IN  [i \in DOMAIN tasks |->
            IF tasks[i].id \in Ids(live)
            THEN [tasks[i] EXCEPT !.status = Row(live, tasks[i].id).status] ELSE tasks[i]]

StatusAnswered(w) ==
    LET s == Answered(w)
        tasks == Reconcile(s, w.list)
    IN  /\ w.what = "status"
        /\ Free(w.p, IF tasks = s.d.tasks THEN s ELSE RenderRunningTab(SaveTasks(s, tasks)))
        /\ UNCHANGED <<server, jobs>>

\* A settled download whose session is still there is running after all.
SelfHeal(p, id) ==
    LET t == Row(page[p].tasks, id)
    IN  /\ page[p].mem.up /\ id \in Ids(page[p].tasks) /\ t.status \in Settled
        /\ CanBackgroundPoll /\ Alive(id) /\ ~(t.status = "done" /\ jobs.at[id[2]] = "ok")
        /\ Free(p, RenderRunningTab(SetStatus(State(p), id, "running")))
        /\ UNCHANGED <<server, jobs>>

Synced(w) ==
    LET s == Answered(w)
        d == [s EXCEPT !.d.tomb = @ \cup w.ids]
        q == [d EXCEPT !.d.tasks = Without(Merge(d, w.list), d.d.tomb)]
    IN  /\ w.what \in {"init", "open"}
        /\ Free(w.p, IF w.what = "init" THEN q
                     ELSE RenderRunningTab([q EXCEPT !.d.mem.open = TRUE, !.d.mem.tab = FALSE,
                                                     !.d.mem.cards = NoCards]))
        /\ UNCHANGED <<server, jobs>>

Sync(p, what, s) ==
    Await(s, [Wait(p, what, Nothing)
                EXCEPT !.list = server.tasks, !.ids = server.removed])

OpenCookbook(p) ==
    /\ page[p].mem.up /\ ~page[p].mem.open
    /\ \A w \in waits : w.p = p => w.what # "open"
    /\ Free(p, Sync(p, "open", State(p)))
    /\ UNCHANGED <<server, jobs>>

CloseCookbook(p) ==
    /\ User(p)
    /\ Paid("opens", p, [State(p) EXCEPT !.d.mem.open = FALSE])
    /\ UNCHANGED <<server, jobs>>

ShowRunningTab(p) ==
    /\ User(p) /\ ~page[p].mem.tab /\ page[p].tasks # <<>>
    /\ Paid("shows", p, RenderRunningTab([State(p) EXCEPT !.d.mem.tab = TRUE]))
    /\ UNCHANGED <<server, jobs>>

\* A reload loses the timers and the answers; localStorage stays.  None is
\* made while a launch is unanswered or a push is due.
Load(p) ==
    /\ ~page[p].mem.due /\ \A w \in waits : w.p = p => w.new = 0
    /\ Paid(IF p = First THEN "loads" ELSE "joins", p, Sync(p, "init",
            [State(p) EXCEPT !.w = {w \in @ : w.p # p},
                             !.d.mem = [NewPage EXCEPT !.up = TRUE, !.dirty = page[p].mem.dirty]]))
    /\ UNCHANGED <<server, jobs>>

(***************************************************************************)
(* The requests reach the server, and, external, the downloads run.        *)
(***************************************************************************)
Answer(w, at) == waits' = (waits \ {w}) \cup {[w EXCEPT !.at = at]}
Spend(what) == Can(what) /\ ghost' = [ghost EXCEPT !.left[what] = @ - 1]

PostHandled(w) ==
    /\ w.new > 0 /\ w.at = "sent"
    /\ \/ /\ jobs' = [jobs EXCEPT !.at = [n \in DOMAIN @ \cup {w.new} |->
                                            IF n = w.new THEN "live" ELSE @[n]],
                                   !.of = [n \in DOMAIN @ \cup {w.new} |->
                                            IF n = w.new THEN w.task.repo ELSE @[n]]]
          /\ Answer(w, "ok") /\ UNCHANGED ghost
       \/ Spend("errors") /\ Answer(w, "bad") /\ UNCHANGED jobs
    /\ UNCHANGED <<page, server>>

Pane(id, at) == IF Alive(id) THEN [jobs EXCEPT !.at[id[2]] = at] ELSE jobs

\* C-c, whose wrapper reports a failure, and 2 s later the session is killed.
Interrupted(w) ==
    /\ w.what \in {"stop", "remove", "retryKill"} /\ w.at = "sent"
    /\ \/ /\ jobs' = IF Alive(w.task.id) /\ jobs.at[w.task.id[2]] \in {"live", "stuck"}
                     THEN Pane(w.task.id, "failed") ELSE jobs
          /\ Answer(w, "cut") /\ UNCHANGED ghost
       \/ w.what = "remove" /\ Spend("errors") /\ Answer(w, "bad") /\ UNCHANGED jobs
    /\ UNCHANGED <<page, server>>

KillHandled(w) ==
    /\ \/ w.at = "cut" /\ Answer(w, "ok")
       \/ w.what \in {"stallKill", "failKill"} /\ w.at = "sent" /\ Answer(w, "ok")
       \/ w.what = "kill" /\ waits' = waits \ {w}
    /\ jobs' = Pane(w.task.id, "gone")
    /\ UNCHANGED <<page, server, ghost>>

Running(n) == jobs.at[n] \in {"live", "stuck"}

JobEnds(n) ==
    /\ n \in DOMAIN jobs.at /\ Running(n)
    /\ jobs' = [jobs EXCEPT !.at[n] = "ok", !.disk = @ \cup {jobs.of[n]}]
    /\ UNCHANGED <<page, server, waits, ghost>>

JobGoesWrong(n) ==
    /\ n \in DOMAIN jobs.at
    /\ \/ Running(n) /\ Spend("fails") /\ jobs' = [jobs EXCEPT !.at[n] = "failed"]
       \/ jobs.at[n] = "live" /\ Spend("stalls") /\ jobs' = [jobs EXCEPT !.at[n] = "stuck"]
       \/ jobs.at[n] # "gone" /\ Spend("deaths") /\ jobs' = [jobs EXCEPT !.at[n] = "gone"]
    /\ UNCHANGED <<page, server, waits>>

Hosts == Range(HostOf)

UserActs(p) ==
    \/ \E r \in Repos : Download(p, r)
    \/ \E h \in Hosts : AskStopAll(p, h) \/ AskClear(p, h)
    \/ \E c \in DOMAIN page[p].mem.cards :
            StartNow(p, c) \/ Watch(p, c) \/ Reconnect(p, c) \/ RemoveCard(p, c)
                \/ Restart(p, c) \/ ClearPill(p, c)
    \/ CloseCookbook(p) \/ OpenCookbook(p) \/ ShowRunningTab(p) \/ Load(p)

LoopSteps(p, c) ==
    SeesLive(p, c) \/ SeesGone(p, c) \/ SeesStall(p, c) \/ SeesFailure(p, c)
        \/ SeesDone(p, c) \/ LoopEnds(p, c)

\* What a page goes on with once its request, its timer or its dialog answers.
GoesOn(w) ==
    \/ Probed(w) \/ AddAnswered(w) \/ StartAnswered(w) \/ ReplaceAnswered(w)
    \/ RestallAnswered(w) \/ Confirmed(w) \/ StallKilled(w) \/ FailKilled(w)
    \/ RetryTimer(w) \/ ConfirmStopAll(w) \/ Killed(w) \/ Faded(w) \/ RestartKilled(w)
    \/ ConfirmClear(w) \/ Dismiss(w) \/ StateAnswered(w) \/ StatusAnswered(w) \/ Synced(w)

Served(w) == PostHandled(w) \/ Interrupted(w) \/ KillHandled(w)

Next ==
    \/ \E p \in Pages :
        \/ UserActs(p) \/ SyncToServer(p) \/ SyncLost(p) \/ Poll(p)
        \/ \E c \in DOMAIN page[p].mem.cards : LoopSteps(p, c)
        \/ \E id \in Ids(page[p].tasks) : SelfHeal(p, id)
    \/ \E w \in waits : GoesOn(w) \/ Served(w)
    \/ \E n \in DOMAIN jobs.at : JobEnds(n) \/ JobGoesWrong(n)

Spec == Init /\ [][Next]_vars

(***************************************************************************)
(* What the client promises.                                               *)
(***************************************************************************)
\* Unless a poll calls it over meanwhile, a queued download is launched at most
\* once, however many handlers look at the queue while its POST is under way
\* (_startQueuedDownload).
QueuedStartsOnce == \A id \in DOMAIN ghost.starts : ghost.starts[id] <= 1

\* A session that is downloading is in the list of some page, or the answer
\* that will put it there is on its way (_startQueuedDownload, _addTask).
JobIsListed ==
    \A n \in DOMAIN jobs.at : Running(n) =>
        \/ \E p \in Pages : Session(n) \in Ids(page[p].tasks)
        \/ \E w \in waits : w.new = n /\ w.at = "ok"

\* A failing or stalling download is relaunched by itself a bounded number of
\* times: twice after a failure, and once per row after a stall (_reconnectTask).
BoundedRelaunches ==
    \A r \in Repos : \A p \in Pages :
        ghost.auto[p][r] <= 2 * page[p].mem.retries[r] + ghost.asked[r]

\* A row that was removed on a page never comes back to it: sync and polls
\* skip the tombstones (_tombstoneTask).
RemovedStaysRemoved ==
    [][\A p \in Pages : \A id \in page[p].tomb :
            id \notin Ids(page[p].tasks) => id \notin Ids(page'[p].tasks)]_vars

NextPollSettles(p) ==
    \A t \in Range(Reconcile(State(p), Statuses)) : t.status = "running" => Alive(t.id)

Idle(p) == page[p].mem.up /\ ~page[p].mem.due /\ \A w \in waits : w.p # p

\* When a page awaits nothing and what it had has reached the server, its next poll
\* settles every row whose session has gone: none stays 'running'
\* (_pollBackgroundStatus).
PollsSettle == \A p \in Pages : Idle(p) /\ ~page[p].mem.dirty => NextPollSettles(p)

\* The same wherever a page awaits nothing.  Refuted: a push that is lost is not
\* repeated, and of a row the server does not have no poll says anything.
IdleSettles == \A p \in Pages : Idle(p) => NextPollSettles(p)

\* A queued row waits for the current download: it is started or removed.
QueueIsKept ==
    [][\A p \in Pages : \A id \in Ids(page[p].tasks) \cap Ids(page'[p].tasks) :
            Row(page[p].tasks, id).status = "queued"
                => Row(page'[p].tasks, id).status \in {"queued", "running"}]_vars
=============================================================================
