--------------------------- MODULE DocumentEditor ---------------------------
(***************************************************************************)
(* The document editor of the browser client: static/js/document.js.       *)
(*                                                                         *)
(* One textarea is shared by every open document.  docs (the tabs) holds   *)
(* what each document was when it was last left, an autosave timer writes  *)
(* whatever document is active when it fires, and the agent opens, streams *)
(* and replaces documents from the chat stream while the user types,       *)
(* switches, reviews a diff or leafs through versions.                     *)
(*                                                                         *)
(* A text is the set of marks it contains.  A mark <<d, n>> is the n-th    *)
(* piece of text of the behaviour, written by the user or by the agent for *)
(* document d, so a foreign text is seen by its marks; the empty set is    *)
(* the empty editor.  Titles are distinct and never empty.                 *)
(*                                                                         *)
(* Of the server there is what the routes and the agent's tools do to a    *)
(* document's text: a PUT of an unknown id answers 404, the agent streams  *)
(* a new document and edits an existing one.                               *)
(***************************************************************************)
EXTENDS Naturals, Sequences, SequencesExt, Functions

CONSTANTS Docs,      \* the documents of the chat, stored or yet to be created
          Stored,    \* those the server has at the start
          Temps,     \* the ids '_streaming_<time>' the page makes up
          MaxMarks,  \* how many pieces of text a behaviour writes
          MaxFlight, \* how many saves may be unanswered when another is made
          Budgets    \* how often it types, switches, closes, ...

None == "none"

Spendable == {"typed", "saves", "switches", "closes", "docks", "opens", "leaves",
              "streams", "edits", "smalls", "repeats", "compares", "versions",
              "deletes", "errors"}

ASSUME DocumentEditorAssumption ==
    /\ Stored \subseteq Docs /\ Stored # {}
    /\ Docs \cap Temps = {} /\ None \notin Docs \cup Temps
    /\ MaxMarks \in Nat /\ MaxFlight \in Nat \ {0}
    /\ Budgets \subseteq [Spendable -> 0 .. MaxMarks]

Ids == Docs \cup Temps
Marks == Docs \X (0 .. MaxMarks)

VARIABLES
    page,     \* the module's globals: see Init
    server,   \* text, previous text, which exist, which were deleted
    agent,    \* the run of the chat: its tool call, its doc_update events,
              \* and the _backgroundStreams entry once the user has left, whose
              \* doc is the title doc_stream_open gave
    waits,    \* the fetches and the dialog some handler awaits
    away,     \* whether another chat is open
    ghost     \* what is left of the budget, the marks and ids used, what was
              \* typed, which deletions were confirmed

vars == <<page, server, agent, waits, away, ghost>>

NoDiff == [on |-> FALSE, doc |-> None, asked |-> FALSE, old |-> {}, new |-> {},
           resolved |-> {}, accepted |-> {}]
NoAnim == [on |-> FALSE, new |-> {}]
NoStash == [on |-> FALSE, shown |-> FALSE, text |-> {}]
NoCall == [doc |-> None, opened |-> FALSE, text |-> {}]

Init ==
    /\ \E d \in Stored :
        page = [active |-> d, tabs |-> [e \in Stored |-> {<<e, 0>>}],
                text |-> {<<d, 0>>}, open |-> TRUE, docked |-> None,
                timer |-> FALSE, puts |-> <<>>, acks |-> <<>>,
                diff |-> NoDiff, later |-> FALSE, anim |-> NoAnim,
                stream |-> None, stash |-> NoStash]
    /\ server = [text |-> [d \in Docs |-> IF d \in Stored THEN {<<d, 0>>} ELSE {}],
                 prev |-> [d \in Docs |-> {}],
                 known |-> Stored, gone |-> {}]
    /\ agent = [running |-> FALSE, call |-> NoCall, events |-> <<>>,
                bg |-> FALSE, entry |-> NoCall, replayed |-> FALSE]
    /\ waits = {}
    /\ away = FALSE
    /\ \E b \in Budgets : ghost = [left |-> b, budget |-> b, n |-> 0,
                                 used |-> {}, typed |-> {}, confirmed |-> {}]

Can(what) == ghost.left[what] > 0
Spent(what) == [ghost EXCEPT !.left[what] = @ - 1]
Fresh(d) == <<d, ghost.n + 1>>
SpentMark(what) == [ghost EXCEPT !.left[what] = @ - 1, !.n = @ + 1]
CanMark(what) == Can(what) /\ ghost.n < MaxMarks

Room == Len(page.puts) + Len(page.acks) < MaxFlight

Without(f, ids) == Restrict(f, DOMAIN f \ ids)
With(f, d, text) == [e \in DOMAIN f \cup {d} |-> IF e = d THEN text ELSE f[e]]

(***************************************************************************)
(* The blocks the handlers are made of, as functions of the page.          *)
(***************************************************************************)
SaveCurrentToMap(p) ==
    IF p.active \in DOMAIN p.tabs /\ p.open
    THEN [p EXCEPT !.tabs[p.active] = p.text] ELSE p

\* The id and the text of a request are both read before the first await.
SaveDocument(p) ==
    IF p.active = None \/ ~p.open THEN p
    ELSE [SaveCurrentToMap(p)
            EXCEPT !.puts = Append(@, [doc |-> p.active, text |-> p.text])]

\* Where every chunk is decided, or read as rejected until it is.
Resolved(diff) ==
    {m \in diff.old : m \in diff.new \/ m \notin diff.accepted}
        \cup {m \in diff.new : m \in diff.old \/ m \in diff.accepted}

Chunks(diff) == (diff.old \ diff.new) \cup (diff.new \ diff.old)

\* Mutant: leaving the review does not save.
ExitUnsaved(p, discard) ==
    IF ~p.diff.on THEN p
    ELSE [p EXCEPT !.diff = NoDiff,
                   !.text = IF ~p.open THEN @
                            ELSE IF discard THEN p.diff.old
                            ELSE Resolved(p.diff)]

ExitDiffMode(p, discard) ==
    IF ~p.diff.on THEN p
    ELSE SaveDocument([p EXCEPT !.diff = NoDiff,
                                !.text = IF ~p.open THEN @
                                         ELSE IF discard THEN p.diff.old
                                         ELSE Resolved(p.diff)])

\* A review of two texts of the document d: of an edit, or a comparison the user asked
\* for.  The code keeps the texts only, and takes them for the active document's.
Between(d, asked, old, new) ==
    [NoDiff EXCEPT !.on = TRUE, !.doc = d, !.asked = asked, !.old = old, !.new = new]

\* The textarea shows both texts, line by line, while they are compared.
EnterDiffMode(p, diff) ==
    LET q == ExitDiffMode(p, TRUE) IN
    IF diff.old = diff.new THEN q
    ELSE [q EXCEPT !.text = diff.old \cup diff.new, !.diff = diff]

SwitchToDoc(p, d) ==
    IF d \notin DOMAIN p.tabs THEN p
    ELSE LET q == SaveCurrentToMap(ExitDiffMode(p, TRUE))
         IN [q EXCEPT !.active = d, !.text = q.tabs[d], !.stash.shown = FALSE]

CloseVersionPanel(p) ==
    IF p.stash.on THEN [p EXCEPT !.text = p.stash.text, !.stash = NoStash] ELSE p

OpenPanel(p) ==
    IF p.open THEN p ELSE [p EXCEPT !.open = TRUE, !.docked = None, !.text = {}]

\* The textarea is removed, and the frames of an animation write to it unseen.
ClosePanel(p, down) ==
    IF ~p.open THEN p
    ELSE [SaveCurrentToMap(p)
            EXCEPT !.open = FALSE, !.active = None, !.text = {}, !.anim = NoAnim,
                   !.docked = IF down THEN p.active ELSE None]

\* Mutant: an open diff is left alone, as before issue #2467.
StreamOpenOverDiff(p, d, t) ==
    IF p.stream \in DOMAIN p.tabs THEN p
    ELSE LET id == IF d \in DOMAIN p.tabs THEN d ELSE t
             q == OpenPanel(p)
         IN [q EXCEPT !.tabs = IF id = t THEN With(@, t, {}) ELSE @,
                      !.stream = id, !.active = id, !.text = {}]

\* Mutant: the document already streaming is not looked for.
StreamOpenAlways(p, d, t) ==
    LET q == OpenPanel(ExitDiffMode(p, TRUE))
        id == IF d \in DOMAIN p.tabs THEN d ELSE t
    IN [q EXCEPT !.tabs = IF id = t THEN With(@, t, {}) ELSE @,
                 !.stream = id, !.active = id, !.text = {}]

\* d is the document the title names, t the temporary id.
StreamDocOpen(p, d, t) ==
    LET q == OpenPanel(ExitDiffMode(p, TRUE))
        id == IF d \in DOMAIN p.tabs THEN d ELSE t
    IN IF p.stream \in DOMAIN p.tabs THEN ExitDiffMode(p, TRUE)
       ELSE [q EXCEPT !.tabs = IF id = t THEN With(@, t, {}) ELSE @,
                      !.stream = id, !.active = id, !.text = {}]

StreamDocDelta(p, text) ==
    IF p.stream = None THEN p
    ELSE [p EXCEPT !.tabs = IF p.stream \in DOMAIN @ THEN [@ EXCEPT ![p.stream] = text]
                            ELSE @,
                   !.text = IF p.stream = p.active THEN text ELSE @]

\* The temporary document becomes the real one.
Migrate(p, d, text) ==
    IF p.stream \in Temps \cap DOMAIN p.tabs
    THEN [p EXCEPT !.tabs = With(Without(@, {p.stream}), d, text),
                   !.active = IF @ = p.stream THEN d ELSE @]
    ELSE p

\* The textarea is looked up before the panel is opened.
HandleDocUpdate(p, d, new, small) ==
    LET q == Migrate(ExitDiffMode(p, TRUE), d, new)
        old == IF q.active = d THEN q.text ELSE {}
        edit == d \in DOMAIN q.tabs /\ old # {} /\ old # new /\ p.stream = None
        r == [OpenPanel(q) EXCEPT !.tabs = With(@, d, new), !.active = d,
                                  !.stream = None]
    IN IF edit /\ small THEN [r EXCEPT !.anim = [on |-> TRUE, new |-> new]]
       ELSE IF edit THEN EnterDiffMode(r, Between(d, FALSE, old, new))
       ELSE IF q.open THEN [r EXCEPT !.text = new]
       ELSE r

(***************************************************************************)
(* The user at the tabs.  A click outside the version panel closes it.     *)
(***************************************************************************)
Writable == page.open /\ page.active # None /\ ~page.diff.on

Owner(id) == IF id \in Docs THEN id ELSE agent.call.doc

Type ==
    /\ CanMark("typed") /\ Writable /\ Owner(page.active) # None
    /\ LET p == CloseVersionPanel(page)
       IN page' = [p EXCEPT !.text = @ \cup {Fresh(Owner(p.active))}, !.timer = TRUE]
    /\ ghost' = [SpentMark("typed") EXCEPT !.typed = @ \cup {Fresh(Owner(page.active))}]
    /\ UNCHANGED <<server, agent, waits, away>>

\* The timer does not know for which document it was started.
AutoSave ==
    /\ page.timer /\ Room
    /\ page' = SaveDocument([page EXCEPT !.timer = FALSE])
    /\ UNCHANGED <<server, agent, waits, away, ghost>>

\* The save button, and a message sent with the document open.
UserSaves ==
    /\ Can("saves") /\ Room /\ page.open /\ page.active # None
    /\ page' = SaveDocument(CloseVersionPanel(page))
    /\ ghost' = Spent("saves")
    /\ UNCHANGED <<server, agent, waits, away>>

ClickTab(d) ==
    /\ Can("switches") /\ page.open /\ d \in DOMAIN page.tabs
    /\ page' = SwitchToDoc(CloseVersionPanel(page), d)
    /\ ghost' = Spent("switches")
    /\ UNCHANGED <<server, agent, waits, away>>

\* The text saved is the active document's, whichever tab is closed.
CloseTab(d) ==
    /\ Can("closes") /\ page.open /\ d \in DOMAIN page.tabs
    /\ LET p == SaveCurrentToMap(CloseVersionPanel(page))
           q == [(IF p.tabs[d] = {} THEN p ELSE SaveDocument(p))
                    EXCEPT !.tabs = Without(@, {d})]
       IN /\ server' = IF p.tabs[d] = {} /\ d \in Docs
                       THEN [server EXCEPT !.gone = @ \cup {d}] ELSE server
          /\ IF DOMAIN q.tabs = {} THEN page' = ClosePanel([q EXCEPT !.active = None], FALSE)
             ELSE IF q.active = d THEN \E e \in DOMAIN q.tabs : page' = SwitchToDoc(q, e)
             ELSE page' = q
    /\ ghost' = Spent("closes")
    /\ UNCHANGED <<agent, waits, away>>

Minimise ==
    /\ Can("docks") /\ page.open
    /\ page' = ClosePanel(CloseVersionPanel(page), TRUE)
    /\ ghost' = Spent("docks")
    /\ UNCHANGED <<server, agent, waits, away>>

RestoreChip ==
    /\ ~page.open /\ page.docked # None
    /\ page' = SwitchToDoc(OpenPanel(page), page.docked)
    /\ UNCHANGED <<server, agent, waits, away, ghost>>

\* A link or the library: at once when the tab exists, otherwise after a fetch.
LoadDocument(d) ==
    /\ Can("opens") /\ d \in server.known
    /\ IF d \in DOMAIN page.tabs
       THEN page' = SwitchToDoc(OpenPanel(CloseVersionPanel(page)), d) /\ UNCHANGED waits
       ELSE /\ page' = CloseVersionPanel(page)
            /\ waits' = waits \cup {[what |-> "load", doc |-> d]}
    /\ ghost' = Spent("opens")
    /\ UNCHANGED <<server, agent, away>>

LoadAnswered(w) ==
    /\ w \in waits /\ w.what = "load"
    /\ LET p == OpenPanel([page EXCEPT !.tabs = With(@, w.doc, server.text[w.doc])])
       IN page' = SwitchToDoc(p, w.doc)
    /\ waits' = waits \ {w}
    /\ UNCHANGED <<server, agent, away, ghost>>

\* The cross of the chip: the editor is gone, so nothing is saved.
CloseChip ==
    /\ Can("closes") /\ ~page.open /\ page.docked \in DOMAIN page.tabs
    /\ page' = [page EXCEPT !.tabs = Without(@, {page.docked}), !.docked = None]
    /\ server' = IF page.tabs[page.docked] = {} /\ page.docked \in Docs
                 THEN [server EXCEPT !.gone = @ \cup {page.docked}] ELSE server
    /\ ghost' = Spent("closes")
    /\ UNCHANGED <<agent, waits, away>>

(***************************************************************************)
(* The document routes: requests are taken to be handled in the order they *)
(* were sent, which HTTP does not promise; answers may overtake.           *)
(***************************************************************************)
Write(srv, d, text) ==
    IF srv.text[d] = text THEN srv
    ELSE [srv EXCEPT !.prev[d] = srv.text[d], !.text[d] = text]

PutHandled ==
    /\ page.puts # <<>>
    /\ LET put == Head(page.puts)
           known == put.doc \in server.known
       IN /\ server' = IF known THEN Write(server, put.doc, put.text) ELSE server
          /\ page' = [page EXCEPT !.puts = Tail(@),
                        !.acks = Append(@, [doc |-> put.doc, text |-> put.text,
                                            ok |-> known])]
    /\ UNCHANGED <<agent, waits, away, ghost>>

PutFails ==
    /\ Can("errors") /\ page.puts # <<>>
    /\ page' = [page EXCEPT !.puts = Tail(@)]
    /\ ghost' = Spent("errors")
    /\ UNCHANGED <<server, agent, waits, away>>

\* Mutant: the answer is written to the document active when it arrives.
AckToActive(p, ack) ==
    IF ack.ok
    THEN IF p.active \in DOMAIN p.tabs THEN [p EXCEPT !.tabs[p.active] = ack.text] ELSE p
    ELSE [p EXCEPT !.tabs = Without(@, {ack.doc}),
                   !.active = IF @ = ack.doc THEN None ELSE @]

\* The answer to a save: a text typed since is put back, an unknown tab dropped.
Acknowledged(p, ack) ==
    IF ack.ok
    THEN IF ack.doc \in DOMAIN p.tabs THEN [p EXCEPT !.tabs[ack.doc] = ack.text] ELSE p
    ELSE [p EXCEPT !.tabs = Without(@, {ack.doc}),
                   !.active = IF @ = ack.doc THEN None ELSE @]

PutAnswered ==
    /\ \E i \in DOMAIN page.acks :
        page' = Acknowledged([page EXCEPT !.acks = RemoveAt(@, i)], page.acks[i])
    /\ UNCHANGED <<server, agent, waits, away, ghost>>

(***************************************************************************)
(* The agent.  Its events reach the editor unless the user left the chat   *)
(* during the run: then they are dropped for good, but for what was        *)
(* streamed, which is replayed from the background entry on return.        *)
(***************************************************************************)
MayCall(d) ==
    /\ agent.running \/ ~away
    /\ agent.call = NoCall /\ agent.events = <<>> /\ d \notin server.gone

Started == [agent EXCEPT !.running = TRUE]

NextTemp == CHOOSE t \in Temps : t \notin ghost.used

\* doc_stream_open: create_document, or update_document (which has no title).
CallOpens(d) ==
    /\ Can("streams") /\ MayCall(d) /\ Temps # ghost.used
    /\ LET title == IF d \in server.known THEN None ELSE d
           entry == [NoCall EXCEPT !.doc = title, !.opened = TRUE]
       IN /\ agent' = [Started EXCEPT !.call = [entry EXCEPT !.doc = d],
                                      !.entry = IF agent.bg THEN entry ELSE @]
          /\ page' = IF agent.bg THEN page ELSE StreamDocOpen(page, title, NextTemp)
    /\ ghost' = [Spent("streams") EXCEPT !.used = @ \cup {NextTemp}]
    /\ UNCHANGED <<server, waits, away>>

\* doc_stream_delta: the whole content so far.
CallStreams ==
    /\ agent.call.opened /\ agent.call.text = {} /\ ghost.n < MaxMarks
    /\ LET text == {Fresh(agent.call.doc)}
       IN /\ agent' = [agent EXCEPT !.call.text = text,
                                    !.entry.text = IF agent.bg THEN text ELSE @]
          /\ page' = IF agent.bg THEN page ELSE StreamDocDelta(page, text)
    /\ ghost' = [ghost EXCEPT !.n = @ + 1]
    /\ UNCHANGED <<server, waits, away>>

\* A tool reports what it wrote in doc_update, and at times in tool_output too.
Times == {1} \cup (IF Can("repeats") THEN {2} ELSE {})

Report(d, text, times) == [i \in 1 .. times |-> [doc |-> d, text |-> text]]

CallWrites ==
    /\ agent.call.text # {}
    /\ LET d == agent.call.doc IN
       /\ server' = [Write(server, d, agent.call.text) EXCEPT !.known = @ \cup {d}]
       /\ \E k \in Times :
            agent' = [agent EXCEPT !.call = NoCall,
                                   !.events = Report(d, agent.call.text, k)]
    /\ UNCHANGED <<page, waits, away, ghost>>

\* edit_document, which is not streamed.
EditWrites(d) ==
    /\ CanMark("edits") /\ MayCall(d) /\ d \in server.known
    /\ LET text == server.text[d] \cup {Fresh(d)} IN
       /\ server' = Write(server, d, text)
       /\ \E k \in Times : agent' = [Started EXCEPT !.events = Report(d, text, k)]
    /\ ghost' = SpentMark("edits")
    /\ UNCHANGED <<page, waits, away>>

DocUpdate ==
    /\ agent.events # <<>>
    /\ LET e == Head(agent.events) IN
       \/ /\ page' = IF agent.bg THEN page ELSE HandleDocUpdate(page, e.doc, e.text, FALSE)
          /\ UNCHANGED ghost
       \/ /\ Can("smalls") /\ ~agent.bg
          /\ page' = HandleDocUpdate(page, e.doc, e.text, TRUE)
          /\ ghost' = Spent("smalls")
    /\ agent' = [agent EXCEPT !.events = Tail(@)]
    /\ UNCHANGED <<server, waits, away>>

RunEnds ==
    /\ agent.running /\ agent.call = NoCall /\ agent.events = <<>>
    /\ agent' = [agent EXCEPT !.running = FALSE, !.bg = FALSE, !.entry = NoCall,
                              !.replayed = FALSE]
    /\ UNCHANGED <<page, server, waits, away, ghost>>

AnimationFrame ==
    /\ page.anim.on /\ ~(page.text \subseteq page.anim.new)
    /\ page' = [page EXCEPT !.text = @ \cap page.anim.new]
    /\ UNCHANGED <<server, agent, waits, away, ghost>>

AnimationEnds ==
    /\ page.anim.on
    /\ page' = [page EXCEPT !.text = page.anim.new, !.anim = NoAnim]
    /\ UNCHANGED <<server, agent, waits, away, ghost>>

(***************************************************************************)
(* Reviewing a diff.                                                       *)
(***************************************************************************)
Reviewing == page.diff.on /\ page.open

\* What is decided so far is saved at once; the last decision leaves the diff
\* 300 ms later.
ResolveChunk(c, accept) ==
    /\ Reviewing /\ Room /\ c \in Chunks(page.diff) \ page.diff.resolved
    /\ LET p == CloseVersionPanel(page)
           diff == [p.diff EXCEPT !.resolved = @ \cup {c},
                                  !.accepted = IF accept THEN @ \cup {c} ELSE @]
       IN page' = SaveDocument([p EXCEPT !.diff = diff, !.text = Resolved(diff),
                                  !.later = @ \/ diff.resolved = Chunks(diff)])
    /\ UNCHANGED <<server, agent, waits, away, ghost>>

LaterFires ==
    /\ page.later
    /\ page' = ExitDiffMode([page EXCEPT !.later = FALSE], FALSE)
    /\ UNCHANGED <<server, agent, waits, away, ghost>>

ResolveAllChunks(accept) ==
    /\ Reviewing
    /\ LET p == CloseVersionPanel(page)
           rest == Chunks(p.diff) \ p.diff.resolved
       IN page' = ExitDiffMode([p EXCEPT !.diff.accepted = IF accept THEN @ \cup rest ELSE @],
                               FALSE)
    /\ UNCHANGED <<server, agent, waits, away, ghost>>

\* Escape, or the diff button a second time.
DiscardDiff ==
    /\ Reviewing
    /\ page' = ExitDiffMode(page, TRUE)
    /\ UNCHANGED <<server, agent, waits, away, ghost>>

\* The diff button: the text is read before the versions are fetched.
Compare ==
    /\ Can("compares") /\ page.open /\ ~page.diff.on /\ page.active \in Docs
    /\ LET p == CloseVersionPanel(page) IN
       /\ page' = p
       /\ waits' = waits \cup {[what |-> "compare", doc |-> p.active, text |-> p.text]}
    /\ ghost' = Spent("compares")
    /\ UNCHANGED <<server, agent, away>>

Compared(w) ==
    /\ w \in waits /\ w.what = "compare"
    /\ page' = IF server.prev[w.doc] \in {{}, w.text} THEN page
               ELSE EnterDiffMode(page, Between(w.doc, TRUE, server.prev[w.doc], w.text))
    /\ waits' = waits \ {w}
    /\ UNCHANGED <<server, agent, away, ghost>>

(***************************************************************************)
(* Version history.  The text is put aside while versions are shown, and   *)
(* put back by the click that closes the panel.                            *)
(***************************************************************************)
OpenVersions ==
    /\ Can("versions") /\ page.open /\ page.active \in Docs /\ ~page.stash.on
    /\ page' = [page EXCEPT !.stash = [on |-> TRUE, shown |-> TRUE, text |-> page.text]]
    /\ ghost' = Spent("versions")
    /\ UNCHANGED <<server, agent, waits, away>>

CloseVersions ==
    /\ page.stash.on /\ page.open
    /\ page' = CloseVersionPanel(page)
    /\ UNCHANGED <<server, agent, waits, away, ghost>>

AskVersion(what) ==
    /\ page.stash.shown /\ page.open /\ page.active \in Docs
    /\ what = "restore" => server.prev[page.active] # {}
    /\ ~ \E w \in waits : w.what \in {"preview", "restore"}
    /\ waits' = waits \cup {[what |-> what, doc |-> page.active]}
    /\ UNCHANGED <<page, server, agent, away, ghost>>

Previewed(w) ==
    /\ w \in waits /\ w.what = "preview"
    /\ \E text \in {server.text[w.doc], server.prev[w.doc]} \ {{}} :
        page' = IF page.open THEN [page EXCEPT !.text = text] ELSE page
    /\ waits' = waits \ {w}
    /\ UNCHANGED <<server, agent, away, ghost>>

Restored(w) ==
    /\ w \in waits /\ w.what = "restore"
    /\ LET text == server.prev[w.doc] IN
       /\ server' = Write(server, w.doc, text)
       /\ page' = [page EXCEPT !.text = IF page.open THEN text ELSE @,
                               !.stash = NoStash,
                               !.tabs = IF page.active \in DOMAIN @
                                        THEN [@ EXCEPT ![page.active] = text] ELSE @]
    /\ waits' = waits \ {w}
    /\ UNCHANGED <<agent, away, ghost>>

(***************************************************************************)
(* Deleting.  The dialog names the document active when it was opened; the *)
(* request, and then the tab removed, are of the one active at that time.  *)
(***************************************************************************)
AskDelete ==
    /\ Can("deletes") /\ page.open /\ page.active # None
    /\ waits' = waits \cup {[what |-> "confirm", doc |-> page.active]}
    /\ ghost' = Spent("deletes")
    /\ UNCHANGED <<page, server, agent, away>>

ConfirmDelete(w) ==
    /\ w \in waits /\ w.what = "confirm"
    /\ IF page.active \in server.known
       THEN /\ server' = [server EXCEPT !.gone = @ \cup {page.active}]
            /\ waits' = (waits \ {w}) \cup {[what |-> "deleted", doc |-> page.active]}
       ELSE waits' = waits \ {w} /\ UNCHANGED server
    /\ ghost' = [ghost EXCEPT !.confirmed = @ \cup {w.doc}]
    /\ UNCHANGED <<page, agent, away>>

Deleted(w) ==
    /\ w \in waits /\ w.what = "deleted"
    /\ LET q == [page EXCEPT !.tabs = Without(@, {page.active})] IN
       IF DOMAIN q.tabs = {}
       THEN page' = ClosePanel([q EXCEPT !.active = None], FALSE)
       ELSE \E e \in DOMAIN q.tabs : page' = SwitchToDoc(q, e)
    /\ waits' = waits \ {w}
    /\ UNCHANGED <<server, agent, away, ghost>>

(***************************************************************************)
(* Leaving for a chat without documents and coming back.                   *)
(***************************************************************************)
Leave ==
    /\ Can("leaves") /\ ~away
    /\ away' = TRUE
    /\ page' = [ClosePanel(CloseVersionPanel(page), FALSE) EXCEPT !.docked = None]
    /\ agent' = [agent EXCEPT !.bg = agent.running, !.replayed = FALSE]
    /\ ghost' = Spent("leaves")
    /\ UNCHANGED <<server, waits>>

\* loadSessionDocs up to its fetch: no tab is active until it answers.
Return ==
    /\ away
    /\ away' = FALSE
    /\ page' = [page EXCEPT !.active = None]
    /\ waits' = waits \cup {[what |-> "session"]}
    /\ UNCHANGED <<server, agent, ghost>>

SessionLoaded(w) ==
    /\ w \in waits /\ w.what = "session"
    /\ LET listed == server.known \ server.gone
           p == [page EXCEPT !.tabs = [d \in DOMAIN @ \cup listed |->
                                         IF d \in DOMAIN @ THEN @[d] ELSE server.text[d]]]
       IN IF listed = {}
          THEN page' = [OpenPanel(page) EXCEPT !.active = None, !.text = {}]
          ELSE \E d \in listed : page' = SwitchToDoc(OpenPanel(p), d)
    /\ waits' = waits \ {w}
    /\ UNCHANGED <<server, agent, away, ghost>>

\* checkBackgroundStream: what was streamed meanwhile, once, then at each poll.
Replay ==
    /\ agent.bg /\ ~away /\ ~agent.replayed
    /\ agent' = [agent EXCEPT !.replayed = TRUE]
    /\ IF agent.entry.opened /\ Temps # ghost.used
       THEN /\ LET p == StreamDocOpen(page, agent.entry.doc, NextTemp)
               IN page' = IF agent.entry.text = {} THEN p
                          ELSE StreamDocDelta(p, agent.entry.text)
            /\ ghost' = [ghost EXCEPT !.used = @ \cup {NextTemp}]
       ELSE UNCHANGED <<page, ghost>>
    /\ UNCHANGED <<server, waits, away>>

Poll ==
    /\ agent.replayed /\ ~away /\ agent.entry.text # {}
    /\ page' = StreamDocDelta(page, agent.entry.text)
    /\ UNCHANGED <<server, agent, waits, away, ghost>>

Tabs ==
    \/ Type \/ AutoSave \/ UserSaves \/ Minimise \/ RestoreChip \/ CloseChip
    \/ \E d \in Ids : ClickTab(d) \/ CloseTab(d)
    \/ \E d \in Docs : LoadDocument(d)

Requests == PutHandled \/ PutFails \/ PutAnswered

Agent ==
    \/ CallStreams \/ CallWrites \/ DocUpdate \/ RunEnds
    \/ AnimationFrame \/ AnimationEnds
    \/ \E d \in Docs : CallOpens(d) \/ EditWrites(d)

Review ==
    \/ \E c \in Marks, accept \in BOOLEAN : ResolveChunk(c, accept)
    \/ \E accept \in BOOLEAN : ResolveAllChunks(accept)
    \/ LaterFires \/ DiscardDiff \/ Compare \/ OpenVersions \/ CloseVersions
    \/ \E what \in {"preview", "restore"} : AskVersion(what)

Answers ==
    \E w \in waits :
        \/ LoadAnswered(w) \/ Compared(w) \/ Previewed(w) \/ Restored(w)
        \/ ConfirmDelete(w) \/ Deleted(w) \/ SessionLoaded(w)

Chats == Leave \/ Return \/ Replay \/ Poll

Next == Tabs \/ Requests \/ Agent \/ Review \/ AskDelete \/ Answers \/ Chats

\* Timers fire, frames are drawn, requests are answered, events are delivered.
Fairness ==
    /\ WF_vars(AutoSave) /\ WF_vars(LaterFires) /\ WF_vars(AnimationEnds)
    /\ WF_vars(PutHandled) /\ WF_vars(PutAnswered) /\ WF_vars(DocUpdate)

Spec == Init /\ [][Next]_vars /\ Fairness

(***************************************************************************)
(* Properties.                                                             *)
(***************************************************************************)
TypeOK ==
    /\ page.active \in Ids \cup {None} /\ DOMAIN page.tabs \subseteq Ids
    /\ \A d \in DOMAIN page.tabs : page.tabs[d] \subseteq Marks
    /\ page.text \subseteq Marks /\ page.stream \in Ids \cup {None}
    /\ server.known \subseteq Docs /\ server.gone \subseteq Docs

Of(d, text) == \A m \in text : m[1] = d

\* Nothing written for one document ever gets into another: not into its tab,
\* not into a request that saves it, not into what the server holds, however
\* saves, their answers, switches, streams and reviews overlap (issue #2467).
NoForeignContent ==
    /\ \A d \in Docs : Of(d, server.text[d])
    /\ \A d \in Docs \cap DOMAIN page.tabs : Of(d, page.tabs[d])
    /\ \A i \in DOMAIN page.puts :
        page.puts[i].doc \in Docs => Of(page.puts[i].doc, page.puts[i].text)

\* Where no run is left while it streams, and nothing is compared, looked up in
\* the versions or written piece by piece.  Each of these carries a text past a
\* change of document, and without its clause NoForeignContent is refuted.
Orderly ==
    \A budget \in Budgets :
        /\ \A what \in {"compares", "smalls", "versions"} : budget[what] = 0
        /\ 0 \in {budget["leaves"], budget["streams"]}

\* The review of an agent's edit is of the document on screen: accepting it, or
\* losing it to a switch, an update or a stream, writes to no other document.
DiffIsOfActive ==
    page.diff.on /\ ~page.diff.asked => page.active \in {page.diff.doc, None}

\* The same of the comparisons the user asks for.  Refuted: the document may be another
\* when the versions of the one compared are there (document.js:5707-5722).
ComparisonIsOfActive ==
    page.diff.on /\ page.diff.asked => page.active \in {page.diff.doc, None}

\* A made-up id lives only while its document is streamed: reopening a stream,
\* a failed save of the id, the final update and a change of chat leave no
\* second temporary tab behind.
OneTemp == DOMAIN page.tabs \cap Temps \subseteq {page.stream}

OneDocumentOnly ==
    \A what \in Spendable \ {"typed", "saves", "edits", "repeats"} : ghost.budget[what] = 0

\* While one document stays open, whatever the user types and the agent edits,
\* and wherever the timer fires, the server ends with the text on screen, unless
\* a review is left undecided.
SavesSettle ==
    OneDocumentOnly =>
        <>[](page.diff.on \/ (page.active \in Docs => server.text[page.active] = page.text))

\* A document the server holds is never emptied: nobody deletes its text here,
\* so an empty one is work overwritten by a blank editor.  Refuted: an edit that
\* arrives while the panel is closed is not shown in the panel it opens.
NothingWiped == \A d \in server.known : server.text[d] # {}

\* What was typed is somewhere: on screen, in the tab, in a save or on the
\* server.  Refuted: the late answer to a save puts back the text it saved.
TypedIsKept ==
    \A m \in ghost.typed :
        \/ m \in page.text \/ m \in server.text[m[1]]
        \/ m[1] \in DOMAIN page.tabs /\ m \in page.tabs[m[1]]
        \/ \E i \in DOMAIN page.puts : m \in page.puts[i].text
=============================================================================
