------------------------- MODULE DocumentEditorProofs -------------------------
(***************************************************************************)
(* Proofs about DocumentEditor, for every set of documents and every       *)
(* budget: comparisons, versions and small edits in any combination, which *)
(* the runs keep apart.  First the control of the page, then whose text is *)
(* where.                                                                  *)
(***************************************************************************)
EXTENDS DocumentEditor, TLAPS

Fields == {"active", "tabs", "text", "open", "docked", "timer", "puts", "acks", "diff",
           "later", "anim", "stream", "stash"}
Shape(p) == DOMAIN p = Fields /\ {"on", "doc", "asked"} \subseteq DOMAIN p.diff

DiffOf(p) == p.diff.on /\ ~p.diff.asked => p.active \in {p.diff.doc, None}
TempOf(p) == DOMAIN p.tabs \cap Temps \subseteq {p.stream}
Good(p) == Shape(p) /\ DiffOf(p) /\ TempOf(p)

\* q differs from p in nothing that Good speaks of; or in the review alone.
Alike(p, q) ==
  /\ Shape(q) /\ DOMAIN q.tabs = DOMAIN p.tabs
  /\ q.active = p.active /\ q.stream = p.stream
Same(p, q) == Alike(p, q) /\ q.diff = p.diff

\* A save writes to the active tab and to the queue of requests.
LEMMA SaveKeeps ==
  ASSUME NEW p, Shape(p)
  PROVE  Same(p, SaveCurrentToMap(p)) /\ Same(p, SaveDocument(p))
<1>1. Same(p, SaveCurrentToMap(p))
  BY DEF SaveCurrentToMap, Same, Alike, Shape, Fields
<1> DEFINE q == SaveCurrentToMap(p)
<1>2. \/ SaveDocument(p) = p
      \/ SaveDocument(p) = [q EXCEPT !.puts = Append(@, [doc |-> p.active, text |-> p.text])]
  BY DEF SaveDocument
<1> HIDE DEF q
<1>3. Same(p, SaveDocument(p))
  BY <1>1, <1>2 DEF q, Same, Alike, Shape, Fields
<1> QED BY <1>1, <1>3

\* The panel of versions is closed without a change of document.
LEMMA VersionsKeep ==
  ASSUME NEW p, Shape(p)
  PROVE  Same(p, CloseVersionPanel(p)) /\ Same(p, OpenPanel(p))
BY DEF CloseVersionPanel, OpenPanel, Same, Alike, Shape, Fields

\* After it no review is open.
LEMMA ExitKeeps ==
  ASSUME NEW p, Shape(p), NEW discard
  PROVE  Alike(p, ExitDiffMode(p, discard)) /\ ~ExitDiffMode(p, discard).diff.on
<1>1. CASE ~p.diff.on
  BY <1>1 DEF ExitDiffMode, Alike
<1>2. CASE p.diff.on
  <2> DEFINE text == IF ~p.open THEN p.text ELSE IF discard THEN p.diff.old ELSE Resolved(p.diff)
             r == [p EXCEPT !.diff = NoDiff, !.text = text]
  <2>1. ExitDiffMode(p, discard) = SaveDocument(r)
    BY <1>2 DEF ExitDiffMode
  <2> HIDE DEF text
  <2>2. Alike(p, r) /\ r.diff = NoDiff
    BY DEF Alike, Shape, Fields, NoDiff
  <2>3. Same(r, SaveDocument(r))
    BY <2>2, SaveKeeps DEF Alike
  <2> HIDE DEF r
  <2> QED BY <2>1, <2>2, <2>3 DEF Same, Alike, NoDiff
<1> QED BY <1>1, <1>2

\* A review that is entered for the active document is of it.
LEMMA EnterKeeps ==
  ASSUME NEW p, Shape(p), NEW x, NEW asked \in BOOLEAN, asked \/ x = p.active,
         NEW old, NEW new
  PROVE  /\ Alike(p, EnterDiffMode(p, Between(x, asked, old, new)))
         /\ DiffOf(EnterDiffMode(p, Between(x, asked, old, new)))
<1> DEFINE q == ExitDiffMode(p, TRUE)
           d == Between(x, asked, old, new)
           r == [q EXCEPT !.text = d.old \cup d.new, !.diff = d]
<1>1. Alike(p, q) /\ ~q.diff.on
  BY ExitKeeps
<1>2. EnterDiffMode(p, d) = IF d.old = d.new THEN q ELSE r
  BY DEF EnterDiffMode
<1>3. d.doc = x /\ d.asked = asked /\ {"on", "doc", "asked"} \subseteq DOMAIN d
  BY DEF NoDiff, Between
<1> HIDE DEF q, d
<1>4. Alike(p, r) /\ DiffOf(r)
  BY <1>1, <1>3 DEF Alike, Shape, Fields, DiffOf
<1>5. DiffOf(q)
  BY <1>1 DEF DiffOf
<1> HIDE DEF r
<1> QED BY <1>1, <1>2, <1>4, <1>5 DEF d

\* The switch leaves the review of the tab it leaves.
LEMMA SwitchKeeps ==
  ASSUME NEW p, Good(p), NEW d
  PROVE  Good(SwitchToDoc(p, d))
<1> DEFINE e == ExitDiffMode(p, TRUE)
           q == SaveCurrentToMap(e)
           r == [q EXCEPT !.active = d, !.text = q.tabs[d], !.stash.shown = FALSE]
<1>1. Alike(p, e) /\ ~e.diff.on
  BY ExitKeeps DEF Good
<1>2. Same(e, q)
  BY <1>1, SaveKeeps DEF Alike
<1>3. SwitchToDoc(p, d) = IF d \notin DOMAIN p.tabs THEN p ELSE r
  BY DEF SwitchToDoc
<1> HIDE DEF e, q
<1>4. Shape(r) /\ r.tabs = q.tabs /\ r.stream = q.stream /\ r.diff = q.diff
  BY <1>2 DEF Same, Alike, Shape, Fields
<1> HIDE DEF r
<1>5. Good(r)
  BY <1>1, <1>2, <1>4 DEF Good, DiffOf, TempOf, Same, Alike
<1> QED BY <1>3, <1>5

\* A closed panel has no active document.
LEMMA CloseKeeps ==
  ASSUME NEW p, Good(p), NEW down
  PROVE  Good(ClosePanel(p, down))
<1> DEFINE q == SaveCurrentToMap(p)
           r == [q EXCEPT !.open = FALSE, !.active = None, !.text = {}, !.anim = NoAnim,
                          !.docked = IF down THEN p.active ELSE None]
<1>1. Same(p, q)
  BY SaveKeeps DEF Good
<1>2. ClosePanel(p, down) = IF ~p.open THEN p ELSE r
  BY DEF ClosePanel
<1> HIDE DEF q
<1>3. Shape(r) /\ r.tabs = q.tabs /\ r.stream = q.stream /\ r.diff = q.diff /\ r.active = None
  BY <1>1 DEF Same, Alike, Shape, Fields
<1> HIDE DEF r
<1> QED BY <1>1, <1>2, <1>3 DEF Good, DiffOf, TempOf, Same, Alike

\* A stream opens a tab of its own only where no made-up id has one.
LEMMA StreamKeeps ==
  ASSUME NEW p, Good(p), NEW d, NEW t
  PROVE  Good(StreamDocOpen(p, d, t))
<1> DEFINE e == ExitDiffMode(p, TRUE)
           q == OpenPanel(e)
           id == IF d \in DOMAIN p.tabs THEN d ELSE t
           tabs == IF id = t THEN With(q.tabs, t, {}) ELSE q.tabs
           r == [q EXCEPT !.tabs = tabs, !.stream = id, !.active = id, !.text = {}]
<1>1. Alike(p, e) /\ ~e.diff.on
  BY ExitKeeps DEF Good
<1>2. Same(e, q)
  BY <1>1, VersionsKeep DEF Alike
<1>3. DOMAIN tabs = DOMAIN p.tabs \cup (IF id = t THEN {t} ELSE {})
  BY <1>1, <1>2 DEF With, Same, Alike
<1>4. StreamDocOpen(p, d, t) = IF p.stream \in DOMAIN p.tabs THEN e ELSE r
  BY <1>2 DEF StreamDocOpen, Same, Alike, Shape, Fields
<1> HIDE DEF e, q, tabs, id
<1>5. Shape(r) /\ r.tabs = tabs /\ r.stream = id /\ r.diff = q.diff
  BY <1>2 DEF Same, Alike, Shape, Fields
<1> HIDE DEF r
<1>6. CASE p.stream \in DOMAIN p.tabs
  BY <1>1, <1>4, <1>6 DEF Good, DiffOf, TempOf, Alike
<1>7. CASE p.stream \notin DOMAIN p.tabs
  <2>1. DOMAIN p.tabs \cap Temps = {}
    BY <1>7 DEF Good, TempOf
  <2> QED BY <1>1, <1>2, <1>3, <1>4, <1>5, <1>7, <2>1 DEF Good, DiffOf, TempOf, Same
<1> QED BY <1>6, <1>7

\* A chunk goes into a tab that exists.
LEMMA DeltaKeeps ==
  ASSUME NEW p, Shape(p), NEW text
  PROVE  Same(p, StreamDocDelta(p, text))
BY DEF StreamDocDelta, Same, Alike, Shape, Fields

\* The update that ends a stream leaves no made-up id behind.
LEMMA UpdateKeeps ==
  ASSUME NEW p, Good(p), NEW d \in Docs, NEW new, NEW small
  PROVE  Good(HandleDocUpdate(p, d, new, small))
<1> DEFINE e == ExitDiffMode(p, TRUE)
           q == Migrate(e, d, new)
           o == OpenPanel(q)
           old == IF q.active = d THEN q.text ELSE {}
           edit == d \in DOMAIN q.tabs /\ old # {} /\ old # new /\ p.stream = None
           r == [o EXCEPT !.tabs = With(@, d, new), !.active = d, !.stream = None]
<1>1. Alike(p, e) /\ ~e.diff.on
  BY ExitKeeps DEF Good
<1>2. Shape(q) /\ ~q.diff.on /\ DOMAIN q.tabs \cap Temps = {}
  <2>1. DOMAIN e.tabs \cap Temps \subseteq {e.stream} /\ d \notin Temps
    BY <1>1, DocumentEditorAssumption DEF Good, TempOf, Alike
  <2> HIDE DEF e
  <2>2. CASE e.stream \in Temps \cap DOMAIN e.tabs
    <3> DEFINE tabs == With(Without(e.tabs, {e.stream}), d, new)
    <3>1. DOMAIN tabs = (DOMAIN e.tabs \ {e.stream}) \cup {d}
      BY DEF With, Without, Restrict
    <3>2. q = [e EXCEPT !.tabs = tabs, !.active = IF @ = e.stream THEN d ELSE @]
      BY <1>1, <2>2 DEF Migrate, Alike, Shape, Fields
    <3> HIDE DEF tabs
    <3>3. Shape(q) /\ q.tabs = tabs /\ q.diff = e.diff
      BY <1>1, <3>2 DEF Alike, Shape, Fields
    <3> QED BY <1>1, <2>1, <3>1, <3>3
  <2>3. CASE e.stream \notin Temps \cap DOMAIN e.tabs
    <3>1. q = e
      BY <2>3 DEF Migrate
    <3> QED BY <1>1, <2>1, <2>3, <3>1 DEF Alike
  <2> QED BY <2>2, <2>3
<1> HIDE DEF q
<1>3. Same(q, o)
  BY <1>2, VersionsKeep
<1> HIDE DEF o
<1>4. Shape(r) /\ DOMAIN r.tabs = DOMAIN q.tabs \cup {d} /\ r.diff = q.diff
  BY <1>3 DEF Same, Alike, Shape, Fields, With
<1> HIDE DEF r
<1>5. d \notin Temps
  BY DocumentEditorAssumption
<1>6. Good(r) /\ DOMAIN r.tabs \cap Temps = {}
  BY <1>2, <1>4, <1>5 DEF Good, DiffOf, TempOf
<1>7. Good([r EXCEPT !.anim = [on |-> TRUE, new |-> new]]) /\ Good([r EXCEPT !.text = new])
  BY <1>6 DEF Good, Shape, Fields, DiffOf, TempOf
<1>7a. r.active = d
  BY <1>3 DEF r, Same, Alike, Shape, Fields
<1>8. Good(EnterDiffMode(r, Between(d, FALSE, old, new)))
  <2>1. /\ Alike(r, EnterDiffMode(r, Between(d, FALSE, old, new)))
        /\ DiffOf(EnterDiffMode(r, Between(d, FALSE, old, new)))
    BY <1>4, <1>7a, EnterKeeps, Zenon
  <2> QED BY <1>6, <2>1 DEF Good, TempOf, Alike
<1>9. \/ HandleDocUpdate(p, d, new, small) = [r EXCEPT !.anim = [on |-> TRUE, new |-> new]]
      \/ HandleDocUpdate(p, d, new, small) = EnterDiffMode(r, Between(d, FALSE, old, new))
      \/ HandleDocUpdate(p, d, new, small) = [r EXCEPT !.text = new]
      \/ HandleDocUpdate(p, d, new, small) = r
  BY DEF HandleDocUpdate, q, o, r
<1> QED BY <1>6, <1>7, <1>8, <1>9

\* The answer to a save removes at most its own tab.
LEMMA AckKeeps ==
  ASSUME NEW p, Good(p), NEW ack
  PROVE  Good(Acknowledged(p, ack))
BY DEF Acknowledged, Good, Shape, Fields, DiffOf, TempOf, Without, Restrict

\* What the page is told about is a document and never a made-up id.
AgentInv ==
  /\ {"call", "events", "running", "bg", "entry", "replayed"} \subseteq DOMAIN agent
  /\ {"doc", "opened", "text"} \subseteq DOMAIN agent.call
  /\ agent.call = NoCall \/ agent.call.doc \in Docs
  /\ \E E : agent.events \in Seq(E) /\ \A e \in E : e.doc \in Docs
ServerInv ==
  /\ {"text", "prev", "known", "gone"} \subseteq DOMAIN server /\ server.known \subseteq Docs
WaitsInv == \A w \in waits : w.what = "load" => w.doc \in Docs

IndInv == Good(page) /\ AgentInv /\ ServerInv /\ WaitsInv

\* An action that leaves the invariant's fields of the page alone keeps it.
LEMMA EditKeeps ==
  ASSUME NEW p, Good(p), NEW q, Same(p, q)
  PROVE  Good(q)
BY DEF Good, DiffOf, TempOf, Same, Alike

LEMMA InitInv == Init => IndInv
<1> SUFFICES ASSUME Init PROVE IndInv
  OBVIOUS
<1>1. PICK d \in Stored : page =
        [active |-> d, tabs |-> [e \in Stored |-> {<<e, 0>>}],
         text |-> {<<d, 0>>}, open |-> TRUE, docked |-> None,
         timer |-> FALSE, puts |-> <<>>, acks |-> <<>>,
         diff |-> NoDiff, later |-> FALSE, anim |-> NoAnim,
         stream |-> None, stash |-> NoStash]
  BY DEF Init
<1>2. Stored \cap Temps = {} /\ Stored \subseteq Docs
  BY DocumentEditorAssumption
<1>3. Good(page)
  BY <1>1, <1>2 DEF Good, Shape, Fields, DiffOf, TempOf, NoDiff
<1>4. AgentInv
  <2>1. agent.events = <<>> /\ agent.call = NoCall
        /\ {"call", "events", "running", "bg", "entry", "replayed"} \subseteq DOMAIN agent
    BY DEF Init
  <2>2. <<>> \in Seq(Docs \cap {})
    OBVIOUS
  <2>3. \A e \in Docs \cap {} : e.doc \in Docs
    OBVIOUS
  <2>4. {"doc", "opened", "text"} \subseteq DOMAIN NoCall
    BY DEF NoCall
  <2> QED BY <2>1, <2>2, <2>3, <2>4 DEF AgentInv
<1>5. ServerInv
  BY <1>2 DEF Init, ServerInv
<1>6. WaitsInv
  BY DEF Init, WaitsInv
<1> QED BY <1>3, <1>4, <1>5, <1>6 DEF IndInv

\* The actions at the tabs change the page, and at most mark a document deleted
\* or await one of the server's.
LEMMA TabsStep ==
  ASSUME IndInv, Tabs
  PROVE  IndInv'
<1> USE DEF IndInv
<1>1. CASE Type
  <2> DEFINE p == CloseVersionPanel(page)
             q == [p EXCEPT !.text = @ \cup {Fresh(Owner(p.active))}, !.timer = TRUE]
  <2>1. Same(page, p)
    BY VersionsKeep DEF Good
  <2>2. page' = q /\ UNCHANGED <<server, agent, waits>>
    BY <1>1 DEF Type
  <2> HIDE DEF p
  <2>3. Same(page, q)
    BY <2>1 DEF Same, Alike, Shape, Fields
  <2> QED BY <2>2, <2>3, EditKeeps DEF AgentInv, ServerInv, WaitsInv
<1>2. CASE AutoSave
  <2> DEFINE p == [page EXCEPT !.timer = FALSE]
  <2>1. Same(page, p)
    BY DEF Same, Alike, Good, Shape, Fields
  <2>2. page' = SaveDocument(p) /\ UNCHANGED <<server, agent, waits>>
    BY <1>2 DEF AutoSave
  <2> HIDE DEF p
  <2>3. Same(p, SaveDocument(p)) /\ Good(p)
    BY <2>1, SaveKeeps, EditKeeps DEF Same, Alike
  <2> QED BY <2>2, <2>3, EditKeeps DEF AgentInv, ServerInv, WaitsInv
<1>3. CASE UserSaves
  <2> DEFINE p == CloseVersionPanel(page)
  <2>1. Same(page, p)
    BY VersionsKeep DEF Good
  <2>2. page' = SaveDocument(p) /\ UNCHANGED <<server, agent, waits>>
    BY <1>3 DEF UserSaves
  <2> HIDE DEF p
  <2>3. Same(p, SaveDocument(p)) /\ Good(p)
    BY <2>1, SaveKeeps, EditKeeps DEF Same, Alike
  <2> QED BY <2>2, <2>3, EditKeeps DEF AgentInv, ServerInv, WaitsInv
<1>4. CASE Minimise
  <2> DEFINE p == CloseVersionPanel(page)
  <2>1. Same(page, p)
    BY VersionsKeep DEF Good
  <2>2. page' = ClosePanel(p, TRUE) /\ UNCHANGED <<server, agent, waits>>
    BY <1>4 DEF Minimise
  <2> HIDE DEF p
  <2>3. Good(ClosePanel(p, TRUE))
    BY <2>1, CloseKeeps, EditKeeps
  <2> QED BY <2>2, <2>3 DEF AgentInv, ServerInv, WaitsInv
<1>5. CASE RestoreChip
  <2> DEFINE p == OpenPanel(page)
  <2>1. Same(page, p)
    BY VersionsKeep DEF Good
  <2>2. page' = SwitchToDoc(p, page.docked) /\ UNCHANGED <<server, agent, waits>>
    BY <1>5 DEF RestoreChip
  <2> HIDE DEF p
  <2>3. Good(SwitchToDoc(p, page.docked))
    BY <2>1, SwitchKeeps, EditKeeps
  <2> QED BY <2>2, <2>3 DEF AgentInv, ServerInv, WaitsInv
<1>6. CASE CloseChip
  <2>1. /\ page' = [page EXCEPT !.tabs = Without(@, {page.docked}), !.docked = None]
        /\ UNCHANGED <<agent, waits>>
    BY <1>6 DEF CloseChip
  <2>2. Good(page')
    BY <2>1 DEF Good, Shape, Fields, DiffOf, TempOf, Without, Restrict
  <2>3. ServerInv'
    BY <1>6 DEF CloseChip, ServerInv
  <2> QED BY <2>1, <2>2, <2>3 DEF AgentInv, WaitsInv
<1>7. ASSUME NEW d \in Ids, ClickTab(d) PROVE IndInv'
  <2> DEFINE p == CloseVersionPanel(page)
  <2>1. Same(page, p)
    BY VersionsKeep DEF Good
  <2>2. page' = SwitchToDoc(p, d) /\ UNCHANGED <<server, agent, waits>>
    BY <1>7 DEF ClickTab
  <2> HIDE DEF p
  <2>3. Good(SwitchToDoc(p, d))
    BY <2>1, SwitchKeeps, EditKeeps
  <2> QED BY <2>2, <2>3 DEF AgentInv, ServerInv, WaitsInv
<1>8. ASSUME NEW d \in Ids, CloseTab(d) PROVE IndInv'
  <2> DEFINE c == CloseVersionPanel(page)
             p == SaveCurrentToMap(c)
             s == IF p.tabs[d] = {} THEN p ELSE SaveDocument(p)
             q == [s EXCEPT !.tabs = Without(@, {d})]
             r == [q EXCEPT !.active = None]
  <2>1. Same(page, c)
    BY VersionsKeep DEF Good
  <2>2. Same(c, p)
    BY <2>1, SaveKeeps DEF Same, Alike
  <2>3. /\ UNCHANGED <<agent, waits>>
        /\ \/ page' = ClosePanel(r, FALSE)
           \/ \E e \in DOMAIN q.tabs : page' = SwitchToDoc(q, e)
           \/ page' = q
    BY <1>8 DEF CloseTab
  <2>4. ServerInv'
    BY <1>8 DEF CloseTab, ServerInv
  <2> HIDE DEF c, p
  <2>5. Same(p, s)
    BY <2>2, SaveKeeps DEF Same, Alike
  <2> HIDE DEF s
  <2>6. Good(s)
    BY <2>1, <2>2, <2>5, EditKeeps
  <2>7. Good(q) /\ Good(r)
    BY <2>6 DEF Good, Shape, Fields, DiffOf, TempOf, Without, Restrict
  <2> HIDE DEF q, r
  <2>8. Good(page')
    BY <2>3, <2>7, CloseKeeps, SwitchKeeps
  <2> QED BY <2>3, <2>4, <2>8 DEF AgentInv, WaitsInv
<1>9. ASSUME NEW d \in Docs, LoadDocument(d) PROVE IndInv'
  <2> DEFINE c == CloseVersionPanel(page)
             o == OpenPanel(c)
  <2>1. Same(page, c)
    BY VersionsKeep DEF Good
  <2>2. /\ page' = SwitchToDoc(o, d) \/ page' = c
        /\ waits' = waits \/ waits' = waits \cup {[what |-> "load", doc |-> d]}
        /\ UNCHANGED <<server, agent>>
    BY <1>9 DEF LoadDocument
  <2> HIDE DEF c
  <2>3. Same(c, o) /\ Good(c)
    BY <2>1, VersionsKeep, EditKeeps DEF Same, Alike
  <2> HIDE DEF o
  <2>4. Good(page')
    BY <2>2, <2>3, SwitchKeeps, EditKeeps
  <2>5. WaitsInv'
    BY <2>2 DEF WaitsInv
  <2> QED BY <2>2, <2>4, <2>5 DEF AgentInv, ServerInv
<1> QED BY <1>1, <1>2, <1>3, <1>4, <1>5, <1>6, <1>7, <1>8, <1>9 DEF Tabs

\* Requests are handled and answered.
LEMMA RequestsStep ==
  ASSUME IndInv, Requests
  PROVE  IndInv'
<1> USE DEF IndInv
<1>1. CASE PutHandled
  <2>1. Same(page, page') /\ UNCHANGED <<agent, waits>>
    BY <1>1 DEF PutHandled, Same, Alike, Good, Shape, Fields
  <2>2. ServerInv'
    BY <1>1 DEF PutHandled, ServerInv, Write
  <2> QED BY <2>1, <2>2, EditKeeps DEF AgentInv, WaitsInv
<1>2. CASE PutFails
  <2>1. Same(page, page') /\ UNCHANGED <<server, agent, waits>>
    BY <1>2 DEF PutFails, Same, Alike, Good, Shape, Fields
  <2> QED BY <2>1, EditKeeps DEF AgentInv, ServerInv, WaitsInv
<1>3. CASE PutAnswered
  <2>1. PICK i \in DOMAIN page.acks :
          page' = Acknowledged([page EXCEPT !.acks = RemoveAt(@, i)], page.acks[i])
    BY <1>3 DEF PutAnswered
  <2> DEFINE p == [page EXCEPT !.acks = RemoveAt(@, i)]
  <2>2. Good(p)
    BY DEF Good, Shape, Fields, DiffOf, TempOf
  <2> HIDE DEF p
  <2>3. Good(page')
    BY <2>1, <2>2, AckKeeps DEF p
  <2> QED BY <1>3, <2>3 DEF PutAnswered, AgentInv, ServerInv, WaitsInv
<1> QED BY <1>1, <1>2, <1>3 DEF Requests

\* A report holds nothing but the document it was asked to.
LEMMA ReportOk ==
  ASSUME NEW d \in Docs, NEW text, NEW times \in {1, 2}
  PROVE  \E E : Report(d, text, times) \in Seq(E) /\ \A e \in E : e.doc \in Docs
<1> DEFINE E == {[doc |-> d, text |-> text]}
<1>1. Report(d, text, times) \in Seq(E)
  BY DEF Report
<1>2. \A e \in E : e.doc \in Docs
  OBVIOUS
<1> QED BY <1>1, <1>2

LEMMA AgentStep ==
  ASSUME IndInv, Agent
  PROVE  IndInv'
<1> USE DEF IndInv
<1>1. CASE CallStreams
  <2>1. PICK text : /\ agent' = [agent EXCEPT !.call.text = text,
                                              !.entry.text = IF agent.bg THEN text ELSE @]
                    /\ page' \in {page, StreamDocDelta(page, text)}
    BY <1>1 DEF CallStreams
  <2>2. Good(page')
    BY <2>1, DeltaKeeps, EditKeeps DEF Good
  <2>3. agent.call.doc \in Docs
    BY <1>1 DEF CallStreams, AgentInv, NoCall
  <2>4. /\ {"call", "events", "running", "bg", "entry", "replayed"} \subseteq DOMAIN agent'
        /\ agent'.call = [agent.call EXCEPT !.text = text]
        /\ agent'.events = agent.events
    BY <2>1 DEF AgentInv
  <2>5. AgentInv'
    BY <2>3, <2>4 DEF AgentInv
  <2> QED BY <1>1, <2>2, <2>5 DEF CallStreams, ServerInv, WaitsInv
<1>2. CASE CallWrites
  <2>1. agent.call.doc \in Docs
    BY <1>2 DEF CallWrites, AgentInv, NoCall
  <2>2. ServerInv'
    BY <1>2, <2>1 DEF CallWrites, ServerInv, Write
  <2>3. PICK k \in {1, 2} :
          agent' = [agent EXCEPT !.call = NoCall,
                                 !.events = Report(agent.call.doc, agent.call.text, k)]
    BY <1>2 DEF CallWrites, Times
  <2>4. /\ {"call", "events", "running", "bg", "entry", "replayed"} \subseteq DOMAIN agent'
        /\ agent'.call = NoCall
        /\ agent'.events = Report(agent.call.doc, agent.call.text, k)
    BY <2>3 DEF AgentInv
  <2>5. {"doc", "opened", "text"} \subseteq DOMAIN NoCall
    BY DEF NoCall
  <2>6. AgentInv'
    BY <2>1, <2>4, <2>5, ReportOk DEF AgentInv
  <2> QED BY <1>2, <2>2, <2>6 DEF CallWrites, WaitsInv, Good, Shape, DiffOf, TempOf
<1>3. CASE DocUpdate
  <2>1. PICK E : agent.events \in Seq(E) /\ \A e \in E : e.doc \in Docs
    BY DEF AgentInv
  <2>2. agent.events # <<>> /\ agent' = [agent EXCEPT !.events = Tail(@)]
        /\ UNCHANGED <<server, waits>>
    BY <1>3 DEF DocUpdate
  <2>3. Head(agent.events) \in E /\ Tail(agent.events) \in Seq(E)
    BY <2>1, <2>2
  <2> DEFINE e == Head(agent.events)
  <2>4. page' \in {page, HandleDocUpdate(page, e.doc, e.text, FALSE),
                   HandleDocUpdate(page, e.doc, e.text, TRUE)}
    BY <1>3 DEF DocUpdate
  <2>5. Good(page')
    <3>1. e.doc \in Docs
      BY <2>1, <2>3
    <3> HIDE DEF e
    <3> QED BY <2>4, <3>1, UpdateKeeps
  <2>6. /\ {"call", "events", "running", "bg", "entry", "replayed"} \subseteq DOMAIN agent'
        /\ agent'.call = agent.call /\ agent'.events = Tail(agent.events)
    BY <2>2 DEF AgentInv
  <2>7. AgentInv'
    BY <2>1, <2>3, <2>6 DEF AgentInv
  <2> QED BY <2>2, <2>5, <2>7 DEF ServerInv, WaitsInv
<1>4. CASE RunEnds
  <2>1. /\ {"call", "events", "running", "bg", "entry", "replayed"} \subseteq DOMAIN agent'
        /\ agent'.call = agent.call /\ agent'.events = agent.events
    BY <1>4 DEF RunEnds, AgentInv
  <2>2. AgentInv'
    BY <2>1 DEF AgentInv
  <2> QED BY <1>4, <2>2 DEF RunEnds, ServerInv, WaitsInv, Good, Shape, DiffOf, TempOf
<1>5. CASE AnimationFrame
  <2>1. Same(page, page') /\ UNCHANGED <<server, agent, waits>>
    BY <1>5 DEF AnimationFrame, Same, Alike, Good, Shape, Fields
  <2> QED BY <2>1, EditKeeps DEF AgentInv, ServerInv, WaitsInv
<1>6. CASE AnimationEnds
  <2>1. Same(page, page') /\ UNCHANGED <<server, agent, waits>>
    BY <1>6 DEF AnimationEnds, Same, Alike, Good, Shape, Fields
  <2> QED BY <2>1, EditKeeps DEF AgentInv, ServerInv, WaitsInv
<1>7. ASSUME NEW d \in Docs, CallOpens(d) PROVE IndInv'
  <2> DEFINE title == IF d \in server.known THEN None ELSE d
             entry == [NoCall EXCEPT !.doc = title, !.opened = TRUE]
             call == [entry EXCEPT !.doc = d]
  <2>1. page' \in {page, StreamDocOpen(page, title, NextTemp)}
    BY <1>7 DEF CallOpens
  <2>2. Good(page')
    <3> HIDE DEF title
    <3> QED BY <2>1, StreamKeeps
  <2>3. agent' = [Started EXCEPT !.call = call, !.entry = IF agent.bg THEN entry ELSE @]
    BY <1>7 DEF CallOpens
  <2>4. {"doc", "opened", "text"} \subseteq DOMAIN call /\ call.doc \in Docs
    BY DEF NoCall
  <2> HIDE DEF call, entry
  <2>5. /\ {"call", "events", "running", "bg", "entry", "replayed"} \subseteq DOMAIN agent'
        /\ agent'.call = call /\ agent'.events = agent.events
    BY <2>3 DEF Started, AgentInv
  <2>6. AgentInv'
    BY <2>4, <2>5 DEF AgentInv
  <2> QED BY <1>7, <2>2, <2>6 DEF CallOpens, ServerInv, WaitsInv
<1>8. ASSUME NEW d \in Docs, EditWrites(d) PROVE IndInv'
  <2>1. ServerInv'
    BY <1>8 DEF EditWrites, ServerInv, Write
  <2> DEFINE text == server.text[d] \cup {Fresh(d)}
  <2>2. PICK k \in {1, 2} : agent' = [Started EXCEPT !.events = Report(d, text, k)]
    BY <1>8 DEF EditWrites, Times
  <2>3. /\ {"call", "events", "running", "bg", "entry", "replayed"} \subseteq DOMAIN agent'
        /\ agent'.call = agent.call /\ agent'.events = Report(d, text, k)
    BY <2>2 DEF Started, AgentInv
  <2> HIDE DEF text
  <2>4. AgentInv'
    BY <2>3, ReportOk DEF AgentInv
  <2> QED BY <1>8, <2>1, <2>4 DEF EditWrites, WaitsInv, Good, Shape, DiffOf, TempOf
<1> QED BY <1>1, <1>2, <1>3, <1>4, <1>5, <1>6, <1>7, <1>8 DEF Agent

\* Decisions change the review or leave it, and a comparison awaits versions.
LEMMA ReviewStep ==
  ASSUME IndInv, Review
  PROVE  IndInv'
<1> USE DEF IndInv
<1>1. ASSUME NEW c, NEW accept, ResolveChunk(c, accept) PROVE IndInv'
  <2> DEFINE p == CloseVersionPanel(page)
             diff == [p.diff EXCEPT !.resolved = @ \cup {c},
                                    !.accepted = IF accept THEN @ \cup {c} ELSE @]
             q == [p EXCEPT !.diff = diff, !.text = Resolved(diff),
                            !.later = @ \/ diff.resolved = Chunks(diff)]
  <2>1. Same(page, p)
    BY VersionsKeep DEF Good
  <2>2. page' = SaveDocument(q) /\ UNCHANGED <<server, agent, waits>>
    BY <1>1 DEF ResolveChunk
  <2> HIDE DEF p
  <2>3. Good(p)
    BY <2>1, EditKeeps
  <2>4. /\ {"on", "doc", "asked"} \subseteq DOMAIN diff /\ diff.on = p.diff.on
        /\ diff.doc = p.diff.doc /\ diff.asked = p.diff.asked
    BY <2>3 DEF Good, Shape
  <2> HIDE DEF diff
  <2>5. Good(q)
    BY <2>3, <2>4 DEF Good, Shape, Fields, DiffOf, TempOf
  <2> HIDE DEF q
  <2>6. Good(SaveDocument(q))
    BY <2>5, SaveKeeps, EditKeeps DEF Good
  <2> QED BY <2>2, <2>6 DEF AgentInv, ServerInv, WaitsInv
<1>2. ASSUME NEW p, Good(p), NEW discard PROVE Good(ExitDiffMode(p, discard))
  BY <1>2, ExitKeeps DEF Good, Alike, DiffOf, TempOf
<1>3. ASSUME NEW accept, ResolveAllChunks(accept) PROVE IndInv'
  <2> DEFINE p == CloseVersionPanel(page)
             rest == Chunks(p.diff) \ p.diff.resolved
             accepted == IF accept THEN p.diff.accepted \cup rest ELSE p.diff.accepted
             diff == [p.diff EXCEPT !.accepted = accepted]
             q == [p EXCEPT !.diff = diff]
  <2>1. Same(page, p)
    BY VersionsKeep DEF Good
  <2>2. UNCHANGED <<server, agent, waits>>
    BY <1>3 DEF ResolveAllChunks
  <2>3. page' = ExitDiffMode(q, FALSE)
    BY <1>3 DEF ResolveAllChunks
  <2> HIDE DEF p, accepted
  <2>4. Good(p)
    BY <2>1, EditKeeps
  <2>5. /\ {"on", "doc", "asked"} \subseteq DOMAIN diff /\ diff.on = p.diff.on
        /\ diff.doc = p.diff.doc /\ diff.asked = p.diff.asked
    BY <2>4 DEF Good, Shape
  <2> HIDE DEF diff
  <2>6. Good(q)
    BY <2>4, <2>5 DEF Good, Shape, Fields, DiffOf, TempOf
  <2> HIDE DEF q
  <2>7. Good(page')
    BY <1>2, <2>3, <2>6
  <2> QED BY <2>2, <2>7 DEF AgentInv, ServerInv, WaitsInv
<1>4. CASE LaterFires
  <2> DEFINE p == [page EXCEPT !.later = FALSE]
  <2>1. Good(p)
    BY DEF Good, Shape, Fields, DiffOf, TempOf
  <2>2. page' = ExitDiffMode(p, FALSE) /\ UNCHANGED <<server, agent, waits>>
    BY <1>4 DEF LaterFires
  <2> HIDE DEF p
  <2> QED BY <1>2, <2>1, <2>2 DEF AgentInv, ServerInv, WaitsInv
<1>5. CASE DiscardDiff
  BY <1>2, <1>5 DEF DiscardDiff, AgentInv, ServerInv, WaitsInv
<1>6. CASE Compare
  <2>1. /\ page' = CloseVersionPanel(page) /\ UNCHANGED <<server, agent>>
        /\ \E w : w.what = "compare" /\ waits' = waits \cup {w}
    <3> DEFINE w == [what |-> "compare", doc |-> CloseVersionPanel(page).active,
                     text |-> CloseVersionPanel(page).text]
    <3>1. w.what = "compare"
      OBVIOUS
    <3>2. page' = CloseVersionPanel(page) /\ UNCHANGED <<server, agent>>
          /\ waits' = waits \cup {w}
      BY <1>6 DEF Compare
    <3> QED BY <3>1, <3>2
  <2>2. Good(page')
    BY <2>1, VersionsKeep, EditKeeps DEF Good
  <2>3. WaitsInv'
    BY <2>1 DEF WaitsInv
  <2> QED BY <2>1, <2>2, <2>3 DEF AgentInv, ServerInv
<1>7. CASE OpenVersions
  <2>1. Same(page, page') /\ UNCHANGED <<server, agent, waits>>
    BY <1>7 DEF OpenVersions, Same, Alike, Good, Shape, Fields
  <2> QED BY <2>1, EditKeeps DEF AgentInv, ServerInv, WaitsInv
<1>8. CASE CloseVersions
  <2>1. Same(page, page') /\ UNCHANGED <<server, agent, waits>>
    BY <1>8, VersionsKeep DEF CloseVersions, Good
  <2> QED BY <2>1, EditKeeps DEF AgentInv, ServerInv, WaitsInv
<1>9. ASSUME NEW what \in {"preview", "restore"}, AskVersion(what) PROVE IndInv'
  <2>1. WaitsInv'
    BY <1>9 DEF AskVersion, WaitsInv
  <2> QED BY <1>9, <2>1 DEF AskVersion, AgentInv, ServerInv, Good, Shape, DiffOf, TempOf
<1> QED BY <1>1, <1>3, <1>4, <1>5, <1>6, <1>7, <1>8, <1>9 DEF Review

\* An answer finds another page than the one that asked.
LEMMA AnswersStep ==
  ASSUME IndInv, Answers
  PROVE  IndInv'
<1> USE DEF IndInv
<1> SUFFICES ASSUME NEW w \in waits,
                    \/ LoadAnswered(w) \/ Compared(w) \/ Previewed(w) \/ Restored(w)
                    \/ ConfirmDelete(w) \/ Deleted(w) \/ SessionLoaded(w)
             PROVE  IndInv'
  BY DEF Answers
<1>1. CASE LoadAnswered(w)
  <2> DEFINE p == [page EXCEPT !.tabs = With(@, w.doc, server.text[w.doc])]
  <2>1. w.doc \in Docs /\ w.doc \notin Temps
    BY <1>1, DocumentEditorAssumption DEF LoadAnswered, WaitsInv
  <2>2. Good(p)
    BY <2>1 DEF Good, Shape, Fields, DiffOf, TempOf, With
  <2>3. /\ page' = SwitchToDoc(OpenPanel(p), w.doc)
        /\ UNCHANGED <<server, agent>> /\ waits' \subseteq waits
    BY <1>1 DEF LoadAnswered
  <2> HIDE DEF p
  <2>4. Good(page')
    BY <2>2, <2>3, VersionsKeep, EditKeeps, SwitchKeeps DEF Good
  <2> QED BY <2>3, <2>4 DEF AgentInv, ServerInv, WaitsInv
<1>2. CASE Compared(w)
  <2>1. /\ page' \in {page,
                     EnterDiffMode(page, Between(w.doc, TRUE, server.prev[w.doc], w.text))}
        /\ UNCHANGED <<server, agent>> /\ waits' \subseteq waits
    BY <1>2 DEF Compared
  <2> DEFINE q == EnterDiffMode(page, Between(w.doc, TRUE, server.prev[w.doc], w.text))
  <2>2. Alike(page, q) /\ DiffOf(q)
    <3>1. Shape(page)
      BY DEF Good
    <3> QED BY <3>1, EnterKeeps
  <2>3. page' \in {page, q}
    BY <2>1
  <2> HIDE DEF q
  <2>4. Good(page')
    BY <2>2, <2>3 DEF Good, TempOf, Alike
  <2> QED BY <2>1, <2>4 DEF AgentInv, ServerInv, WaitsInv
<1>3. CASE Previewed(w)
  <2>1. Same(page, page') /\ UNCHANGED <<server, agent>> /\ waits' \subseteq waits
    BY <1>3 DEF Previewed, Same, Alike, Good, Shape, Fields
  <2> QED BY <2>1, EditKeeps DEF AgentInv, ServerInv, WaitsInv
<1>4. CASE Restored(w)
  <2>1. Same(page, page') /\ UNCHANGED agent /\ waits' \subseteq waits
    BY <1>4 DEF Restored, Same, Alike, Good, Shape, Fields
  <2>2. ServerInv'
    BY <1>4 DEF Restored, ServerInv, Write
  <2> QED BY <2>1, <2>2, EditKeeps DEF AgentInv, WaitsInv
<1>5. CASE ConfirmDelete(w)
  <2>1. UNCHANGED <<page, agent>>
    BY <1>5 DEF ConfirmDelete
  <2>2. ServerInv' /\ WaitsInv'
    BY <1>5 DEF ConfirmDelete, ServerInv, WaitsInv
  <2> QED BY <2>1, <2>2 DEF AgentInv, Good, Shape, DiffOf, TempOf
<1>6. CASE Deleted(w)
  <2> DEFINE q == [page EXCEPT !.tabs = Without(@, {page.active})]
             r == [q EXCEPT !.active = None]
  <2>1. Good(q) /\ Good(r)
    BY DEF Good, Shape, Fields, DiffOf, TempOf, Without, Restrict
  <2>2. /\ \/ page' = ClosePanel(r, FALSE)
           \/ \E e \in DOMAIN q.tabs : page' = SwitchToDoc(q, e)
        /\ UNCHANGED <<server, agent>> /\ waits' \subseteq waits
    BY <1>6 DEF Deleted
  <2> HIDE DEF q, r
  <2>3. Good(page')
    BY <2>1, <2>2, CloseKeeps, SwitchKeeps
  <2> QED BY <2>2, <2>3 DEF AgentInv, ServerInv, WaitsInv
<1>7. CASE SessionLoaded(w)
  <2> DEFINE listed == server.known \ server.gone
             tabs == [d \in DOMAIN page.tabs \cup listed |->
                        IF d \in DOMAIN page.tabs THEN page.tabs[d] ELSE server.text[d]]
             p == [page EXCEPT !.tabs = tabs]
             o == OpenPanel(page)
             q == [o EXCEPT !.active = None, !.text = {}]
  <2>1. listed \cap Temps = {}
    BY DocumentEditorAssumption DEF ServerInv
  <2>2. Good(p)
    <3>1. DOMAIN tabs = DOMAIN page.tabs \cup listed
      OBVIOUS
    <3> HIDE DEF tabs, listed
    <3> QED BY <2>1, <3>1 DEF Good, Shape, Fields, DiffOf, TempOf
  <2>3. /\ page' = q \/ \E d \in listed : page' = SwitchToDoc(OpenPanel(p), d)
        /\ UNCHANGED <<server, agent>> /\ waits' \subseteq waits
    BY <1>7 DEF SessionLoaded
  <2>4. Same(page, o)
    BY VersionsKeep DEF Good
  <2> HIDE DEF p, o
  <2>5. Good(o)
    BY <2>4, EditKeeps
  <2>6. Good(q)
    BY <2>5 DEF Good, Shape, Fields, DiffOf, TempOf
  <2> HIDE DEF q, listed
  <2>7. Good(page')
    BY <2>2, <2>3, <2>6, VersionsKeep, EditKeeps, SwitchKeeps DEF Good
  <2> QED BY <2>3, <2>7 DEF AgentInv, ServerInv, WaitsInv
<1> QED BY <1>1, <1>2, <1>3, <1>4, <1>5, <1>6, <1>7

\* Leaving the chat, coming back, and what is replayed then.
LEMMA ChatsStep ==
  ASSUME IndInv, Chats \/ AskDelete
  PROVE  IndInv'
<1> USE DEF IndInv
<1>1. CASE Leave
  <2> DEFINE c == CloseVersionPanel(page)
             p == ClosePanel(c, FALSE)
  <2>1. Good(c)
    BY VersionsKeep, EditKeeps DEF Good
  <2>2. /\ page' = [p EXCEPT !.docked = None] /\ UNCHANGED <<server, waits>>
        /\ agent' = [agent EXCEPT !.bg = agent.running, !.replayed = FALSE]
    BY <1>1 DEF Leave
  <2> HIDE DEF c
  <2>3. Good(p)
    BY <2>1, CloseKeeps
  <2> HIDE DEF p
  <2>4. Good(page')
    BY <2>2, <2>3 DEF Good, Shape, Fields, DiffOf, TempOf
  <2>5. /\ {"call", "events", "running", "bg", "entry", "replayed"} \subseteq DOMAIN agent'
        /\ agent'.call = agent.call /\ agent'.events = agent.events
    BY <2>2 DEF AgentInv
  <2>6. AgentInv'
    BY <2>5 DEF AgentInv
  <2> QED BY <2>2, <2>4, <2>6 DEF ServerInv, WaitsInv
<1>2. CASE Return
  <2>1. page' = [page EXCEPT !.active = None] /\ UNCHANGED <<server, agent>>
    BY <1>2 DEF Return
  <2>2. Good(page')
    BY <2>1 DEF Good, Shape, Fields, DiffOf, TempOf
  <2>3. WaitsInv'
    BY <1>2 DEF Return, WaitsInv
  <2> QED BY <2>1, <2>2, <2>3 DEF AgentInv, ServerInv
<1>3. CASE Replay
  <2> DEFINE p == StreamDocOpen(page, agent.entry.doc, NextTemp)
  <2>1. /\ page' \in {page, p, StreamDocDelta(p, agent.entry.text)}
        /\ agent' = [agent EXCEPT !.replayed = TRUE] /\ UNCHANGED <<server, waits>>
    BY <1>3 DEF Replay
  <2>2. Good(p)
    BY StreamKeeps
  <2> HIDE DEF p
  <2>3. Good(page')
    BY <2>1, <2>2, DeltaKeeps, EditKeeps DEF Good
  <2>4. /\ {"call", "events", "running", "bg", "entry", "replayed"} \subseteq DOMAIN agent'
        /\ agent'.call = agent.call /\ agent'.events = agent.events
    BY <2>1 DEF AgentInv
  <2>5. AgentInv'
    BY <2>4 DEF AgentInv
  <2> QED BY <2>1, <2>3, <2>5 DEF ServerInv, WaitsInv
<1>4. CASE Poll
  <2>1. Good(page')
    BY <1>4, DeltaKeeps, EditKeeps DEF Poll, Good
  <2> QED BY <1>4, <2>1 DEF Poll, AgentInv, ServerInv, WaitsInv
<1>5. CASE AskDelete
  <2>1. WaitsInv'
    BY <1>5 DEF AskDelete, WaitsInv
  <2> QED BY <1>5, <2>1 DEF AskDelete, AgentInv, ServerInv, Good, Shape, DiffOf, TempOf
<1> QED BY <1>1, <1>2, <1>3, <1>4, <1>5 DEF Chats

\* The invariant of every behaviour, from which the rest follows: the shape of
\* the page, the two properties below, and that updates and fetches concern
\* documents and never a made-up id.
THEOREM Inductive == Spec => []IndInv
<1>1. IndInv /\ [Next]_vars => IndInv'
  <2> SUFFICES ASSUME IndInv, [Next]_vars PROVE IndInv'
    OBVIOUS
  <2>1. CASE UNCHANGED vars
    BY <2>1 DEF vars, IndInv, Good, Shape, DiffOf, TempOf, AgentInv, ServerInv, WaitsInv
  <2>2. CASE Next
    BY <2>2, TabsStep, RequestsStep, AgentStep, ReviewStep, AnswersStep, ChatsStep DEF Next
  <2> QED BY <2>1, <2>2
<1> QED BY <1>1, InitInv, PTL DEF Spec

\* The review of an agent's edit is of the document on screen, whatever switches,
\* streams, updates, fetches, comparisons and restorations come between.
THEOREM ReviewIsOfActive == Spec => []DiffIsOfActive
<1>1. IndInv => DiffIsOfActive
  BY DEF IndInv, Good, DiffOf, DiffIsOfActive
<1> QED BY <1>1, Inductive, PTL

\* However often streams are opened, replayed, saved and replaced, at most one
\* tab has a made-up id, and it is the one being streamed.
THEOREM StreamsLeaveNoTab == Spec => []OneTemp
<1>1. IndInv => OneTemp
  BY DEF IndInv, Good, TempOf, OneTemp
<1> QED BY <1>1, Inductive, PTL

(***************************************************************************)
(* Whose text is where.  R says which marks each text may hold: anyone's,  *)
(* which gives type correctness, or those of its own document alone, which *)
(* gives NoForeignContent; the steps are proved once, for both.            *)
(***************************************************************************)
\* Whose marks each text may hold: anyone's, or a document's own.
Everything == [id \in Ids \cup {None} |-> Marks]
OwnOnly == [id \in Ids \cup {None} |-> IF id \in Docs THEN {m \in Marks : m[1] = id} ELSE Marks]

Named(S, R) == {e \in [doc : S, text : SUBSET Marks] : e.text \subseteq R[e.doc]}
Answered(R) == {e \in [doc : Ids, text : SUBSET Marks, ok : BOOLEAN] : e.text \subseteq R[e.doc]}

\* The texts of the page are where R allows them.
Held(p, R) ==
  /\ p.active \in Ids \cup {None} /\ p.stream \in Ids \cup {None}
  /\ p.text \subseteq R[p.active]
  /\ DOMAIN p.tabs \subseteq Ids /\ \A d \in DOMAIN p.tabs : p.tabs[d] \subseteq R[d]
  /\ p.puts \in Seq(Named(Ids, R)) /\ p.acks \in Seq(Answered(R))
  /\ {"on", "doc", "asked", "old", "new", "accepted", "resolved"} \subseteq DOMAIN p.diff
  /\ p.diff.doc \in Ids \cup {None}
  /\ p.diff.old \subseteq R[p.diff.doc] /\ p.diff.new \subseteq R[p.diff.doc]
  /\ p.anim.new \subseteq Marks
  /\ {"on", "shown", "text"} \subseteq DOMAIN p.stash /\ p.stash.text \subseteq Marks

\* Nothing on the page can carry a text from one document to another.
Calm(p, known) ==
  /\ p.anim.on = FALSE /\ p.stash.on = FALSE /\ p.stash.shown = FALSE /\ ~p.diff.asked
  /\ p.stream \notin Docs /\ DOMAIN p.tabs \cap Docs \subseteq known

Fit(p, R, known) == Held(p, R) /\ (R # Everything => Calm(p, known))

Quiet ==
  /\ \A what \in {"compares", "smalls", "versions"} : ghost.left[what] = 0
  /\ \/ ghost.left["leaves"] = 0 /\ agent.bg = FALSE
     \/ ghost.left["streams"] = 0 /\ agent.call = NoCall /\ agent.entry = NoCall
  /\ \A e \in Range(agent.events) : e.doc \in server.known
  /\ \A w \in waits : /\ w.what \notin {"compare", "preview", "restore"}
                      /\ w.what = "load" => w.doc \in server.known

AgentText(R) ==
  /\ agent.call.doc \in Docs \cup {None} /\ agent.call.text \subseteq R[agent.call.doc]
  /\ {"doc", "opened", "text"} \subseteq DOMAIN agent.entry
  /\ agent.entry.doc \in Docs \cup {None} /\ agent.entry.text \subseteq Marks
  /\ agent.events \in Seq(Named(Docs, R))
ServerText(R) ==
  /\ server.text \in [Docs -> SUBSET Marks] /\ server.prev \in [Docs -> SUBSET Marks]
  /\ \A d \in Docs : server.text[d] \subseteq R[d] /\ server.prev[d] \subseteq R[d]
  /\ server.gone \subseteq Docs
WaitsText ==
  \A w \in waits :
    /\ w.what \in {"compare", "preview", "restore"} => w.doc \in Docs
    /\ w.what = "compare" => w.text \subseteq Marks
GhostInv ==
  /\ {"left", "budget", "n", "used", "typed", "confirmed"} \subseteq DOMAIN ghost
  /\ ghost.n \in 0 .. MaxMarks /\ ghost.left \in [Spendable -> Int] /\ ghost.used \subseteq Temps

Kept(R) ==
  /\ Fit(page, R, server.known) /\ AgentText(R) /\ ServerText(R) /\ WaitsText /\ GhostInv
  /\ R # Everything => Quiet

Rule(R) ==
  /\ \A id \in Ids \cup {None} : R[id] \subseteq Marks
  /\ \A id \in Temps \cup {None} : R[id] = Marks
  /\ \A d \in Docs, n \in 0 .. MaxMarks : <<d, n>> \in R[d]

\* Both rules leave made-up ids free and allow a document its own marks.
LEMMA Rules ==
  ASSUME NEW R \in {Everything, OwnOnly}
  PROVE  Rule(R)
<1>1. Docs \cap (Temps \cup {None}) = {}
  BY DocumentEditorAssumption
<1>2. \A id \in Ids \cup {None} : Everything[id] = Marks
  BY DEF Everything
<1>3. \A d \in Docs : OwnOnly[d] = {m \in Marks : m[1] = d}
  BY DEF OwnOnly, Ids
<1>4. \A id \in Temps \cup {None} : OwnOnly[id] = Marks
  BY <1>1 DEF OwnOnly, Ids
<1>5. \A d \in Docs, n \in 0 .. MaxMarks : <<d, n>> \in Marks /\ <<d, n>>[1] = d
  BY DEF Marks
<1>6. Rule(Everything)
  BY <1>2, <1>5 DEF Rule, Ids
<1>7. Rule(OwnOnly)
  BY <1>3, <1>4, <1>5 DEF Rule, Ids
<1> QED BY <1>6, <1>7

\* Where anyone's marks are allowed, any text is.
LEMMA Free ==
  ASSUME NEW R, R = Everything, NEW id \in Ids \cup {None}
  PROVE  R[id] = Marks
BY DEF Everything

\* A save asks for the text of the active document.
LEMMA SaveFits ==
  ASSUME NEW R, Rule(R), NEW K, NEW p, Shape(p), Fit(p, R, K)
  PROVE  Fit(SaveCurrentToMap(p), R, K) /\ Fit(SaveDocument(p), R, K)
<1> DEFINE q == SaveCurrentToMap(p)
<1>1. Shape(q) /\ Fit(q, R, K) /\ q.active = p.active /\ q.text = p.text /\ q.puts = p.puts
  <2>1. \/ q = p
        \/ p.active \in DOMAIN p.tabs /\ q = [p EXCEPT !.tabs = [@ EXCEPT ![p.active] = p.text]]
    BY DEF SaveCurrentToMap
  <2>2. CASE q = p
    BY <2>2
  <2>3. CASE p.active \in DOMAIN p.tabs /\ q = [p EXCEPT !.tabs = [@ EXCEPT ![p.active] = p.text]]
    <3> DEFINE tabs == [p.tabs EXCEPT ![p.active] = p.text]
    <3>1. DOMAIN tabs = DOMAIN p.tabs /\ \A d \in DOMAIN p.tabs : tabs[d] \subseteq R[d]
      BY DEF Fit, Held
    <3>2. q = [p EXCEPT !.tabs = tabs]
      BY <2>3
    <3> HIDE DEF tabs
    <3>3. /\ Shape(q) /\ q.tabs = tabs /\ q.active = p.active /\ q.text = p.text
          /\ q.puts = p.puts /\ q.acks = p.acks /\ q.stream = p.stream /\ q.diff = p.diff
          /\ q.anim = p.anim /\ q.stash = p.stash
      BY <3>2 DEF Shape, Fields
    <3> HIDE DEF q
    <3> QED BY <3>1, <3>3 DEF Fit, Held, Calm
  <2> QED BY <2>1, <2>2, <2>3
<1> HIDE DEF q
<1>2. CASE p.active = None \/ ~p.open
  BY <1>1, <1>2 DEF SaveDocument, q
<1>3. CASE p.active # None /\ p.open
  <2> DEFINE put == [doc |-> p.active, text |-> p.text]
             r == [q EXCEPT !.puts = Append(@, put)]
  <2>1. SaveDocument(p) = r
    BY <1>3 DEF SaveDocument, q
  <2>2. put \in Named(Ids, R)
    <3>1. p.active \in Ids /\ p.text \subseteq R[p.active] /\ p.text \in SUBSET Marks
      BY <1>3 DEF Fit, Held, Rule
    <3> QED BY <3>1 DEF Named
  <2> HIDE DEF put
  <2>3. Append(q.puts, put) \in Seq(Named(Ids, R))
    BY <1>1, <2>2 DEF Fit, Held
  <2>4. /\ r.active = q.active /\ r.text = q.text /\ r.tabs = q.tabs
        /\ r.puts = Append(q.puts, put) /\ r.acks = q.acks /\ r.stream = q.stream
        /\ r.diff = q.diff /\ r.anim = q.anim /\ r.stash = q.stash
    BY <1>1 DEF Shape, Fields
  <2> HIDE DEF r
  <2>5. Fit(r, R, K)
    BY <1>1, <2>3, <2>4 DEF Fit, Held, Calm
  <2> QED BY <1>1, <2>1, <2>5 DEF q
<1> QED BY <1>2, <1>3

\* What the version panel puts back is a text of the active document only where
\* no text was put aside.
LEMMA VersionsFit ==
  ASSUME NEW R, Rule(R), NEW K, NEW p, Shape(p), Fit(p, R, K)
  PROVE  Fit(CloseVersionPanel(p), R, K) /\ Fit(OpenPanel(p), R, K)
<1>1. Fit(OpenPanel(p), R, K)
  <2> DEFINE q == [p EXCEPT !.open = TRUE, !.docked = None, !.text = {}]
  <2>1. /\ q.active = p.active /\ q.text = {} /\ q.tabs = p.tabs /\ q.puts = p.puts
        /\ q.acks = p.acks /\ q.stream = p.stream /\ q.diff = p.diff /\ q.anim = p.anim
        /\ q.stash = p.stash
    BY DEF Shape, Fields
  <2>2. OpenPanel(p) = p \/ OpenPanel(p) = q
    BY DEF OpenPanel
  <2> HIDE DEF q
  <2>3. Fit(q, R, K)
    BY <2>1 DEF Fit, Held, Calm
  <2> QED BY <2>2, <2>3
<1>2. Fit(CloseVersionPanel(p), R, K)
  <2>1. CASE ~p.stash.on
    BY <2>1 DEF CloseVersionPanel
  <2>2. CASE p.stash.on
    <3> DEFINE q == [p EXCEPT !.text = p.stash.text, !.stash = NoStash]
    <3>1. CloseVersionPanel(p) = q
      BY <2>2 DEF CloseVersionPanel
    <3>2. R = Everything
      BY <2>2 DEF Fit, Calm
    <3>3. p.stash.text \subseteq R[p.active]
      BY <3>2, Free DEF Fit, Held
    <3>4. /\ q.active = p.active /\ q.text = p.stash.text /\ q.tabs = p.tabs
          /\ q.puts = p.puts /\ q.acks = p.acks /\ q.stream = p.stream /\ q.diff = p.diff
          /\ q.anim = p.anim /\ q.stash = NoStash
      BY DEF Shape, Fields
    <3> HIDE DEF q
    <3> QED BY <3>1, <3>2, <3>3, <3>4 DEF Fit, Held, NoStash
  <2> QED BY <2>1, <2>2
<1> QED BY <1>1, <1>2

\* What a review leaves on screen is made of the two texts it compared.
LEMMA ExitFits ==
  ASSUME NEW R, Rule(R), NEW K, NEW p, Shape(p), DiffOf(p), Fit(p, R, K), NEW discard
  PROVE  Fit(ExitDiffMode(p, discard), R, K)
<1>1. CASE ~p.diff.on
  BY <1>1 DEF ExitDiffMode
<1>2. CASE p.diff.on
  <2> DEFINE text == IF ~p.open THEN p.text ELSE IF discard THEN p.diff.old ELSE Resolved(p.diff)
             r == [p EXCEPT !.diff = NoDiff, !.text = text]
  <2>1. ExitDiffMode(p, discard) = SaveDocument(r)
    BY <1>2 DEF ExitDiffMode
  <2>2. text \subseteq R[p.active]
    <3>1. R[p.diff.doc] \subseteq R[p.active]
      <4>1. R[p.diff.doc] \subseteq Marks /\ R[None] = Marks
        BY DEF Fit, Held, Rule
      <4>2. R = Everything => R[p.active] = Marks
        BY Free DEF Fit, Held
      <4> QED BY <1>2, <4>1, <4>2 DEF DiffOf, Fit, Calm
    <3>2. Resolved(p.diff) \subseteq p.diff.old \cup p.diff.new
      BY DEF Resolved
    <3>3. p.diff.old \cup p.diff.new \subseteq R[p.active]
      BY <3>1 DEF Fit, Held
    <3> QED BY <3>2, <3>3 DEF Fit, Held
  <2> HIDE DEF text
  <2>3. /\ r.active = p.active /\ r.text = text /\ r.tabs = p.tabs
        /\ r.puts = p.puts /\ r.acks = p.acks /\ r.stream = p.stream /\ r.diff = NoDiff
        /\ r.anim = p.anim /\ r.stash = p.stash /\ DOMAIN r = DOMAIN p
    BY DEF Shape, Fields
  <2> HIDE DEF r
  <2>4. Fit(r, R, K)
    BY <2>2, <2>3 DEF Fit, Held, Calm, NoDiff
  <2>5. Shape(r)
    BY <2>3 DEF Shape, NoDiff
  <2> QED BY <2>1, <2>4, <2>5, SaveFits
<1> QED BY <1>1, <1>2

\* A review compares two texts of the active document, or any two where any text may be
\* anywhere.
LEMMA EnterFits ==
  ASSUME NEW R, Rule(R), NEW K, NEW p, Shape(p), DiffOf(p), Fit(p, R, K),
         NEW x \in Ids \cup {None}, NEW asked \in BOOLEAN,
         IF asked THEN R = Everything ELSE x = p.active,
         NEW old, NEW new, old \subseteq R[x], new \subseteq R[x]
  PROVE  Fit(EnterDiffMode(p, Between(x, asked, old, new)), R, K)
<1> DEFINE q == ExitDiffMode(p, TRUE)
           d == Between(x, asked, old, new)
           r == [q EXCEPT !.text = d.old \cup d.new, !.diff = d]
<1>1. Fit(q, R, K) /\ Alike(p, q)
  BY ExitFits, ExitKeeps
<1>2. EnterDiffMode(p, d) = IF d.old = d.new THEN q ELSE r
  BY DEF EnterDiffMode
<1>3. /\ d.doc = x /\ d.asked = asked /\ d.old = old /\ d.new = new
      /\ {"on", "doc", "asked", "old", "new", "accepted", "resolved"} \subseteq DOMAIN d
  BY DEF NoDiff, Between
<1>4. old \cup new \subseteq R[p.active]
  <2>1. R = Everything => R[x] = Marks /\ R[p.active] = Marks
    BY Free DEF Fit, Held
  <2> QED BY <2>1
<1> HIDE DEF q, d
<1>5. /\ r.active = q.active /\ r.text = old \cup new /\ r.tabs = q.tabs
      /\ r.puts = q.puts /\ r.acks = q.acks /\ r.stream = q.stream /\ r.diff = d
      /\ r.anim = q.anim /\ r.stash = q.stash
  BY <1>1, <1>3 DEF Alike, Shape, Fields
<1> HIDE DEF r
<1>6. Fit(r, R, K)
  BY <1>1, <1>3, <1>4, <1>5 DEF Fit, Held, Calm, Alike
<1> QED BY <1>1, <1>2, <1>6 DEF d

\* A switch shows what the tab holds.
LEMMA SwitchFits ==
  ASSUME NEW R, Rule(R), NEW K, NEW p, Good(p), Fit(p, R, K), NEW d
  PROVE  Fit(SwitchToDoc(p, d), R, K)
<1> DEFINE e == ExitDiffMode(p, TRUE)
           q == SaveCurrentToMap(e)
           s == [q EXCEPT !.active = d, !.text = q.tabs[d]]
           r == [q EXCEPT !.active = d, !.text = q.tabs[d], !.stash.shown = FALSE]
<1>1. Fit(e, R, K) /\ Alike(p, e)
  BY ExitFits, ExitKeeps DEF Good
<1>2. Fit(q, R, K) /\ Same(e, q)
  BY <1>1, SaveFits, SaveKeeps DEF Alike
<1>3. SwitchToDoc(p, d) = IF d \notin DOMAIN p.tabs THEN p ELSE r
  BY DEF SwitchToDoc
<1> HIDE DEF e, q
<1>4. CASE d \in DOMAIN p.tabs
  <2>1. d \in DOMAIN q.tabs
    BY <1>1, <1>2, <1>4 DEF Same, Alike
  <2>2. d \in Ids /\ q.tabs[d] \subseteq R[d]
    BY <1>2, <2>1 DEF Fit, Held
  <2> DEFINE stash == [q.stash EXCEPT !.shown = FALSE]
  <2>3. /\ r.active = d /\ r.text = q.tabs[d] /\ r.tabs = q.tabs
        /\ r.puts = q.puts /\ r.acks = q.acks /\ r.stream = q.stream /\ r.diff = q.diff
        /\ r.anim = q.anim /\ r.stash = stash
    BY <1>2 DEF Same, Alike, Shape, Fields
  <2>4. /\ DOMAIN stash = DOMAIN q.stash /\ stash.text = q.stash.text /\ stash.on = q.stash.on
        /\ stash.shown = FALSE
    BY <1>2 DEF Fit, Held
  <2> HIDE DEF r, stash
  <2>5. Fit(r, R, K)
    BY <1>2, <2>2, <2>3, <2>4 DEF Fit, Held, Calm
  <2> QED BY <1>3, <1>4, <2>5
<1> QED BY <1>3, <1>4

\* A closed panel shows nothing.
LEMMA CloseFits ==
  ASSUME NEW R, Rule(R), NEW K, NEW p, Shape(p), Fit(p, R, K), NEW down
  PROVE  Fit(ClosePanel(p, down), R, K)
<1> DEFINE q == SaveCurrentToMap(p)
           r == [q EXCEPT !.open = FALSE, !.active = None, !.text = {}, !.anim = NoAnim,
                          !.docked = IF down THEN p.active ELSE None]
<1>1. Fit(q, R, K) /\ Same(p, q)
  BY SaveFits, SaveKeeps
<1>2. ClosePanel(p, down) = IF ~p.open THEN p ELSE r
  BY DEF ClosePanel
<1> HIDE DEF q
<1>3. /\ r.active = None /\ r.text = {} /\ r.tabs = q.tabs
      /\ r.puts = q.puts /\ r.acks = q.acks /\ r.stream = q.stream /\ r.diff = q.diff
      /\ r.anim = NoAnim /\ r.stash = q.stash
  BY <1>1 DEF Same, Alike, Shape, Fields
<1> HIDE DEF r
<1>4. Fit(r, R, K)
  BY <1>1, <1>3 DEF Fit, Held, Calm, NoAnim
<1> QED BY <1>2, <1>4

\* A stream starts from an empty editor, and in a tab of its own unless anyone's
\* marks are allowed.
LEMMA StreamFits ==
  ASSUME NEW R, Rule(R), NEW K, NEW p, Good(p), Fit(p, R, K), NEW d, NEW t \in Temps,
         R # Everything => d \notin DOMAIN p.tabs
  PROVE  Fit(StreamDocOpen(p, d, t), R, K)
<1> DEFINE e == ExitDiffMode(p, TRUE)
           q == OpenPanel(e)
           id == IF d \in DOMAIN p.tabs THEN d ELSE t
           tabs == IF id = t THEN With(q.tabs, t, {}) ELSE q.tabs
           r == [q EXCEPT !.tabs = tabs, !.stream = id, !.active = id, !.text = {}]
<1>1. Fit(e, R, K) /\ Alike(p, e)
  BY ExitFits, ExitKeeps DEF Good
<1>2. Fit(q, R, K) /\ Same(e, q)
  BY <1>1, VersionsFit, VersionsKeep DEF Alike
<1>3. StreamDocOpen(p, d, t) = IF p.stream \in DOMAIN p.tabs THEN e ELSE r
  BY <1>1, <1>2 DEF StreamDocOpen, Same, Alike, Shape, Fields
<1>4. t \in Ids /\ t \notin Docs
  BY DocumentEditorAssumption DEF Ids
<1>5. id \in Ids /\ (R # Everything => id = t)
  BY <1>4 DEF Fit, Held
<1> HIDE DEF e, q, id
<1>6. /\ DOMAIN tabs \subseteq DOMAIN q.tabs \cup {t}
      /\ \A x \in DOMAIN tabs : tabs[x] \subseteq R[x]
  BY <1>2 DEF With, Fit, Held
<1> HIDE DEF tabs
<1>7. /\ r.active = id /\ r.text = {} /\ r.tabs = tabs
      /\ r.puts = q.puts /\ r.acks = q.acks /\ r.stream = id /\ r.diff = q.diff
      /\ r.anim = q.anim /\ r.stash = q.stash
  BY <1>2 DEF Same, Alike, Shape, Fields
<1> HIDE DEF r
<1>8. Fit(r, R, K)
  BY <1>2, <1>4, <1>5, <1>6, <1>7 DEF Fit, Held, Calm
<1> QED BY <1>1, <1>3, <1>8

\* A chunk is written where the stream is.
LEMMA DeltaFits ==
  ASSUME NEW R, Rule(R), NEW K, NEW p, Shape(p), Fit(p, R, K), NEW text, text \subseteq Marks
  PROVE  Fit(StreamDocDelta(p, text), R, K)
<1>1. CASE p.stream = None
  BY <1>1 DEF StreamDocDelta
<1>2. CASE p.stream # None
  <2> DEFINE tabs == IF p.stream \in DOMAIN p.tabs THEN [p.tabs EXCEPT ![p.stream] = text]
                     ELSE p.tabs
             shown == IF p.stream = p.active THEN text ELSE p.text
             r == [p EXCEPT !.tabs = tabs, !.text = shown]
  <2>1. StreamDocDelta(p, text) = r
    BY <1>2 DEF StreamDocDelta, Shape, Fields
  <2>2. text \subseteq R[p.stream]
    <3>1. CASE R = Everything
      BY <3>1, Free DEF Fit, Held
    <3>2. CASE R # Everything
      <4>1. p.stream \in Temps
        BY <1>2, <3>2 DEF Fit, Held, Calm, Ids
      <4> QED BY <4>1 DEF Rule
    <3> QED BY <3>1, <3>2
  <2>3. DOMAIN tabs = DOMAIN p.tabs /\ \A x \in DOMAIN tabs : tabs[x] \subseteq R[x]
    BY <2>2 DEF Fit, Held
  <2>4. shown \subseteq R[p.active]
    BY <2>2 DEF Fit, Held
  <2> HIDE DEF tabs, shown
  <2>5. /\ r.active = p.active /\ r.text = shown /\ r.tabs = tabs
        /\ r.puts = p.puts /\ r.acks = p.acks /\ r.stream = p.stream /\ r.diff = p.diff
        /\ r.anim = p.anim /\ r.stash = p.stash
    BY DEF Shape, Fields
  <2> HIDE DEF r
  <2> QED BY <2>1, <2>3, <2>4, <2>5 DEF Fit, Held, Calm
<1> QED BY <1>1, <1>2

\* The answer to a save brings its own text back to its own tab.
LEMMA AckFits ==
  ASSUME NEW R, Rule(R), NEW K, NEW p, Shape(p), Fit(p, R, K), NEW ack \in Answered(R)
  PROVE  Fit(Acknowledged(p, ack), R, K)
<1>1. ack.doc \in Ids /\ ack.text \subseteq R[ack.doc]
  BY DEF Answered
<1>2. CASE ack.ok /\ ack.doc \in DOMAIN p.tabs
  <2> DEFINE tabs == [p.tabs EXCEPT ![ack.doc] = ack.text]
             r == [p EXCEPT !.tabs = tabs]
  <2>1. Acknowledged(p, ack) = r
    BY <1>2 DEF Acknowledged, Shape, Fields
  <2>2. DOMAIN tabs = DOMAIN p.tabs /\ \A x \in DOMAIN tabs : tabs[x] \subseteq R[x]
    BY <1>1 DEF Fit, Held
  <2> HIDE DEF tabs
  <2>3. /\ r.active = p.active /\ r.text = p.text /\ r.tabs = tabs
        /\ r.puts = p.puts /\ r.acks = p.acks /\ r.stream = p.stream /\ r.diff = p.diff
        /\ r.anim = p.anim /\ r.stash = p.stash
    BY DEF Shape, Fields
  <2> HIDE DEF r
  <2> QED BY <2>1, <2>2, <2>3 DEF Fit, Held, Calm
<1>3. CASE ack.ok /\ ack.doc \notin DOMAIN p.tabs
  BY <1>3 DEF Acknowledged
<1>4. CASE ~ack.ok
  <2> DEFINE tabs == Without(p.tabs, {ack.doc})
             active == IF p.active = ack.doc THEN None ELSE p.active
             r == [p EXCEPT !.tabs = tabs, !.active = active]
  <2>1. Acknowledged(p, ack) = r
    BY <1>4 DEF Acknowledged, Shape, Fields
  <2>2. DOMAIN tabs \subseteq DOMAIN p.tabs /\ \A x \in DOMAIN tabs : tabs[x] \subseteq R[x]
    BY DEF Fit, Held, Without, Restrict
  <2>3. active \in Ids \cup {None} /\ p.text \subseteq R[active]
    BY DEF Fit, Held, Rule
  <2> HIDE DEF tabs, active
  <2>4. /\ r.active = active /\ r.text = p.text /\ r.tabs = tabs
        /\ r.puts = p.puts /\ r.acks = p.acks /\ r.stream = p.stream /\ r.diff = p.diff
        /\ r.anim = p.anim /\ r.stash = p.stash
    BY DEF Shape, Fields
  <2> HIDE DEF r
  <2> QED BY <2>1, <2>2, <2>3, <2>4 DEF Fit, Held, Calm
<1> QED BY <1>2, <1>3, <1>4

\* The final update writes the text of d, and every other text stays where it is.
LEMMA UpdateFits ==
  ASSUME NEW R, Rule(R), NEW K, NEW p, Good(p), Fit(p, R, K),
         NEW d \in Docs, NEW new, new \subseteq R[d], NEW small \in BOOLEAN,
         R # Everything => d \in K /\ ~small
  PROVE  Fit(HandleDocUpdate(p, d, new, small), R, K)
<1> DEFINE e == ExitDiffMode(p, TRUE)
           q == Migrate(e, d, new)
           o == OpenPanel(q)
           old == IF q.active = d THEN q.text ELSE {}
           edit == d \in DOMAIN q.tabs /\ old # {} /\ old # new /\ p.stream = None
           tabs == With(o.tabs, d, new)
           r == [o EXCEPT !.tabs = tabs, !.active = d, !.stream = None]
<1>1. Fit(e, R, K) /\ Alike(p, e) /\ ~e.diff.on
  BY ExitFits, ExitKeeps DEF Good
<1>2. /\ Shape(q) /\ q.diff = e.diff /\ q.puts = e.puts /\ q.acks = e.acks /\ q.anim = e.anim
      /\ q.stash = e.stash /\ q.text = e.text /\ q.open = e.open
      /\ DOMAIN q.tabs \subseteq DOMAIN e.tabs \cup {d}
      /\ \A x \in DOMAIN q.tabs : q.tabs[x] \subseteq R[x]
      /\ p.stream = None => q = e
  <2>1. CASE e.stream \in Temps \cap DOMAIN e.tabs
    <3> DEFINE moved == With(Without(e.tabs, {e.stream}), d, new)
    <3>1. /\ DOMAIN moved \subseteq DOMAIN e.tabs \cup {d}
          /\ \A x \in DOMAIN moved : moved[x] \subseteq R[x]
      BY <1>1 DEF With, Without, Restrict, Fit, Held
    <3>2. q = [e EXCEPT !.tabs = moved, !.active = IF @ = e.stream THEN d ELSE @]
      BY <1>1, <2>1 DEF Migrate, Alike, Shape, Fields
    <3>3. p.stream # None
      BY <1>1, <2>1, DocumentEditorAssumption DEF Alike
    <3> HIDE DEF moved, e
    <3>4. /\ Shape(q) /\ q.diff = e.diff /\ q.puts = e.puts /\ q.acks = e.acks
          /\ q.anim = e.anim /\ q.stash = e.stash /\ q.text = e.text /\ q.open = e.open
          /\ q.tabs = moved
      BY <1>1, <3>2 DEF Alike, Shape, Fields
    <3> QED BY <3>1, <3>3, <3>4
  <2>2. CASE e.stream \notin Temps \cap DOMAIN e.tabs
    <3>1. q = e
      BY <2>2 DEF Migrate
    <3> QED BY <1>1, <3>1 DEF Alike, Fit, Held
  <2> QED BY <2>1, <2>2
<1>3. edit => old \subseteq R[d] /\ q.text \subseteq R[d]
  BY <1>1, <1>2 DEF Fit, Held
<1> HIDE DEF e, q
<1>4. /\ Shape(o) /\ o.diff = q.diff /\ o.puts = q.puts /\ o.acks = q.acks /\ o.anim = q.anim
      /\ o.stash = q.stash /\ o.tabs = q.tabs
      /\ o.text = IF q.open THEN q.text ELSE {}
  BY <1>2 DEF OpenPanel, Shape, Fields
<1> HIDE DEF o
<1>5. /\ DOMAIN tabs \subseteq DOMAIN p.tabs \cup {d}
      /\ \A x \in DOMAIN tabs : tabs[x] \subseteq R[x]
  BY <1>1, <1>2, <1>4 DEF With, Alike
<1> HIDE DEF tabs
<1>6. /\ Shape(r) /\ r.active = d /\ r.text = o.text /\ r.tabs = tabs
      /\ r.puts = o.puts /\ r.acks = o.acks /\ r.stream = None /\ r.diff = o.diff
      /\ r.anim = o.anim /\ r.stash = o.stash
  BY <1>4 DEF Shape, Fields
<1> HIDE DEF r
<1>7. d \in Ids /\ d # None /\ None \notin Docs /\ R[d] \subseteq Marks
  BY DocumentEditorAssumption DEF Rule, Ids
<1>8. ASSUME NEW x, Shape(x), x.active = d, x.text \subseteq R[d], x.tabs = tabs, x.puts = r.puts,
             x.acks = r.acks, x.stream = None, x.diff = r.diff, x.stash = r.stash,
             x.anim = r.anim \/ (R = Everything /\ x.anim.new \subseteq Marks)
      PROVE  Fit(x, R, K)
  BY <1>1, <1>2, <1>4, <1>5, <1>6, <1>7, <1>8 DEF Fit, Held, Calm
<1>9. /\ edit /\ small =>
           HandleDocUpdate(p, d, new, small) = [r EXCEPT !.anim = [on |-> TRUE, new |-> new]]
      /\ edit /\ ~small => HandleDocUpdate(p, d, new, small) = EnterDiffMode(r, Between(d, FALSE, old, new))
      /\ ~edit => HandleDocUpdate(p, d, new, small) = IF q.open THEN [r EXCEPT !.text = new] ELSE r
  BY DEF HandleDocUpdate, q, o, r, tabs, e
<1> HIDE DEF old, edit
<1>10. CASE edit
  <2>1. r.text \subseteq R[d]
    BY <1>3, <1>4, <1>6, <1>10
  <2>2. Fit(r, R, K)
    BY <1>6, <1>8, <2>1
  <2>3. CASE small
    <3> DEFINE x == [r EXCEPT !.anim = [on |-> TRUE, new |-> new]]
    <3>1. /\ Shape(x) /\ x.active = d /\ x.text = r.text /\ x.tabs = tabs /\ x.puts = r.puts
          /\ x.acks = r.acks /\ x.stream = None /\ x.diff = r.diff /\ x.stash = r.stash
          /\ x.anim.new = new
      BY <1>6 DEF Shape, Fields
    <3> HIDE DEF x
    <3>2. R = Everything /\ new \subseteq Marks
      BY <1>7, <2>3
    <3>3. Fit(x, R, K)
      BY <1>8, <2>1, <3>1, <3>2
    <3> QED BY <1>9, <1>10, <2>3, <3>3 DEF x
  <2>4. CASE ~small
    <3>1. ~r.diff.on
      BY <1>1, <1>2, <1>4, <1>6
    <3>2. Fit(EnterDiffMode(r, Between(d, FALSE, old, new)), R, K)
      BY <1>3, <1>6, <1>7, <1>10, <2>2, <3>1, EnterFits DEF DiffOf
    <3> QED BY <1>9, <1>10, <2>4, <3>2
  <2> QED BY <2>3, <2>4
<1>11. CASE ~edit /\ q.open
  <2> DEFINE x == [r EXCEPT !.text = new]
  <2>1. /\ Shape(x) /\ x.active = d /\ x.text = new /\ x.tabs = tabs /\ x.puts = r.puts
        /\ x.acks = r.acks /\ x.stream = None /\ x.diff = r.diff /\ x.stash = r.stash
        /\ x.anim = r.anim
    BY <1>6 DEF Shape, Fields
  <2> HIDE DEF x
  <2>2. Fit(x, R, K)
    BY <1>8, <2>1
  <2> QED BY <1>9, <1>11, <2>2 DEF x
<1>12. CASE ~edit /\ ~q.open
  <2>1. Fit(r, R, K)
    BY <1>4, <1>6, <1>8, <1>12
  <2> QED BY <1>9, <1>12, <2>1
<1> QED BY <1>10, <1>11, <1>12

\* The budget only falls, and what is spent cannot be spent again.
Spending ==
  GhostInv' /\ \A what \in Spendable : ghost.left[what] = 0 => ghost'.left[what] = 0

LEMMA Spends ==
  ASSUME GhostInv, NEW what \in Spendable, Can(what),
         \/ ghost' = Spent(what)
         \/ CanMark(what) /\ ghost' = SpentMark(what)
         \/ CanMark(what) /\ \E typed : ghost' = [SpentMark(what) EXCEPT !.typed = typed]
         \/ \E used : used \subseteq Temps /\ ghost' = [Spent(what) EXCEPT !.used = used]
  PROVE  Spending
<1>1. /\ DOMAIN ghost' = DOMAIN ghost
      /\ ghost'.left = [ghost.left EXCEPT ![what] = @ - 1]
      /\ ghost'.n = ghost.n \/ (ghost.n < MaxMarks /\ ghost'.n = ghost.n + 1)
      /\ ghost'.used \subseteq Temps
  BY DEF GhostInv, Spent, SpentMark, CanMark
<1>2. ghost.n \in 0 .. MaxMarks /\ MaxMarks \in Nat /\ ghost.left \in [Spendable -> Int]
  BY DocumentEditorAssumption DEF GhostInv
<1>3. ghost'.n \in 0 .. MaxMarks
  BY <1>1, <1>2
<1>4. /\ ghost'.left \in [Spendable -> Int]
      /\ \A w \in Spendable : ghost.left[w] = 0 => ghost'.left[w] = 0
  BY <1>1, <1>2 DEF Can
<1> QED BY <1>1, <1>3, <1>4 DEF Spending, GhostInv

LEMMA SpendsNothing ==
  ASSUME GhostInv, UNCHANGED ghost
  PROVE  Spending
BY DEF Spending, GhostInv

\* A mark that is written next is one of the document's own.
LEMMA NextMark ==
  ASSUME NEW R, Rule(R), GhostInv, ghost.n < MaxMarks, NEW d \in Docs
  PROVE  {Fresh(d)} \subseteq R[d] /\ {Fresh(d)} \subseteq Marks
<1>1. ghost.n + 1 \in 0 .. MaxMarks
  BY DocumentEditorAssumption DEF GhostInv
<1> QED BY <1>1 DEF Rule, Fresh, Marks

\* What a handler may come to await.
Asked(w, R) ==
  \/ w.what \in {"confirm", "deleted", "session"}
  \/ w.what = "load" /\ w.doc \in server.known
  \/ /\ R = Everything /\ w.what \in {"compare", "preview", "restore"} /\ w.doc \in Docs
     /\ w.what = "compare" => w.text \subseteq Marks

\* A step that writes nothing on the server and tells the agent nothing need
\* only leave the texts of the page in place.
LEMMA UserStep ==
  ASSUME NEW R, Kept(R), Spending, UNCHANGED agent,
         server'.text = server.text, server'.prev = server.prev, server'.known = server.known,
         server'.gone \subseteq Docs, \A w \in waits' : w \in waits \/ Asked(w, R),
         Fit(page', R, server.known)
  PROVE  Kept(R)'
<1>1. Fit(page, R, server.known)'
  BY DEF Fit, Held, Calm
<1>2. AgentText(R)' /\ ServerText(R)' /\ GhostInv'
  BY DEF Kept, AgentText, ServerText, Spending
<1>3. WaitsText'
  BY DEF Kept, WaitsText, Asked
<1>4. R # Everything => Quiet'
  <2> SUFFICES ASSUME R # Everything PROVE Quiet'
    OBVIOUS
  <2>1. Quiet
    BY DEF Kept
  <2>2. {"compares", "smalls", "versions", "leaves", "streams"} \subseteq Spendable
    BY DEF Spendable
  <2>3. \A what \in {"compares", "smalls", "versions"} : ghost'.left[what] = 0
    BY <2>1, <2>2 DEF Quiet, Spending
  <2>4. \/ ghost'.left["leaves"] = 0 /\ agent'.bg = FALSE
        \/ ghost'.left["streams"] = 0 /\ agent'.call = NoCall /\ agent'.entry = NoCall
    BY <2>1, <2>2 DEF Quiet, Spending
  <2>5. \A w \in waits' : /\ w.what \notin {"compare", "preview", "restore"}
                          /\ w.what = "load" => w.doc \in server.known
    BY <2>1 DEF Quiet, Asked
  <2> QED BY <2>1, <2>3, <2>4, <2>5 DEF Quiet
<1> QED BY <1>1, <1>2, <1>3, <1>4 DEF Kept

LEMMA PageStep ==
  ASSUME NEW R, Kept(R), Spending, UNCHANGED <<server, agent, waits>>,
         Fit(page', R, server.known)
  PROVE  Kept(R)'
<1>1. server.gone \subseteq Docs
  BY DEF Kept, ServerText
<1> QED BY <1>1, UserStep

LEMMA KeptInit ==
  ASSUME Init, NEW R \in {Everything, OwnOnly}, R = Everything \/ Orderly
  PROVE  Kept(R)
<1>1. PICK d \in Stored : page =
        [active |-> d, tabs |-> [e \in Stored |-> {<<e, 0>>}],
         text |-> {<<d, 0>>}, open |-> TRUE, docked |-> None,
         timer |-> FALSE, puts |-> <<>>, acks |-> <<>>,
         diff |-> NoDiff, later |-> FALSE, anim |-> NoAnim,
         stream |-> None, stash |-> NoStash]
  BY DEF Init
<1>2. /\ Rule(R) /\ Stored \subseteq Docs /\ Stored \subseteq Ids /\ None \notin Docs
      /\ 0 \in 0 .. MaxMarks
  BY Rules, DocumentEditorAssumption DEF Ids
<1>3. \A e \in Docs : {<<e, 0>>} \subseteq R[e] /\ {<<e, 0>>} \subseteq Marks
  BY <1>2 DEF Rule, Marks
<1>4. Fit(page, R, server.known)
  <2>1. Held(page, R)
    BY <1>1, <1>2, <1>3 DEF Held, NoDiff, NoAnim, NoStash
  <2>2. Calm(page, server.known)
    BY <1>1, <1>2 DEF Calm, NoAnim, NoStash, NoDiff, Init
  <2> QED BY <2>1, <2>2 DEF Fit
<1>5. AgentText(R)
  BY DEF Init, AgentText, NoCall
<1>6. ServerText(R) /\ WaitsText
  BY <1>3 DEF Init, ServerText, WaitsText
<1>7. PICK b \in Budgets : ghost = [left |-> b, budget |-> b, n |-> 0,
                                  used |-> {}, typed |-> {}, confirmed |-> {}]
  BY DEF Init
<1>8. b \in [Spendable -> 0 .. MaxMarks]
  BY DocumentEditorAssumption
<1>9. GhostInv
  BY <1>2, <1>7, <1>8 DEF GhostInv
<1>10. R # Everything => Quiet
  <2> SUFFICES ASSUME Orderly PROVE Quiet
    OBVIOUS
  <2>1. /\ \A what \in {"compares", "smalls", "versions"} : ghost.left[what] = 0
        /\ ghost.left["leaves"] = 0 \/ ghost.left["streams"] = 0
    BY <1>7 DEF Orderly
  <2>2. /\ agent.bg = FALSE /\ agent.call = NoCall /\ agent.entry = NoCall /\ agent.events = <<>>
        /\ waits = {}
    BY DEF Init
  <2>3. Range(agent.events) = {}
    BY <2>2 DEF Range
  <2> QED BY <2>1, <2>2, <2>3 DEF Quiet
<1> QED BY <1>4, <1>5, <1>6, <1>9, <1>10 DEF Kept

\* The tabs: what is typed is of the active document, and every other action
\* saves, shows or drops what a tab already holds.
LEMMA TabsKeep ==
  ASSUME IndInv, NEW R \in {Everything, OwnOnly}, Kept(R), Tabs
  PROVE  Kept(R)'
<1>1. Rule(R) /\ Good(page) /\ Shape(page) /\ Fit(page, R, server.known) /\ GhostInv
  BY Rules DEF IndInv, Good, Kept
<1>2. {"typed", "saves", "switches", "closes", "docks", "opens"} \subseteq Spendable
  BY DEF Spendable
<1> DEFINE c == CloseVersionPanel(page)
<1>3. Same(page, c) /\ Good(c) /\ Shape(c) /\ Fit(c, R, server.known)
  BY <1>1, VersionsKeep, VersionsFit, EditKeeps DEF Good
<1> HIDE DEF c
<1>4. CASE Type
  <2> DEFINE text == c.text \cup {Fresh(Owner(c.active))}
             q == [c EXCEPT !.text = text, !.timer = TRUE]
  <2>1. page' = q /\ UNCHANGED <<server, agent, waits>>
    BY <1>3, <1>4 DEF Type, c, Same, Alike, Shape, Fields
  <2>2. CanMark("typed") /\ page.active # None /\ Owner(page.active) # None
        /\ \E typed : ghost' = [SpentMark("typed") EXCEPT !.typed = typed]
    BY <1>4 DEF Type, Writable
  <2>3. Spending
    BY <1>1, <1>2, <2>2, Spends DEF CanMark
  <2>4. c.active = page.active /\ c.active \in Ids /\ Owner(c.active) \in Docs
    BY <1>3, <2>2 DEF Same, Alike, Fit, Held, Owner, Kept, AgentText
  <2>5. {Fresh(Owner(c.active))} \subseteq R[c.active]
    <3>1. CASE c.active \in Docs
      BY <1>1, <2>2, <3>1, NextMark DEF Owner, CanMark
    <3>2. CASE c.active \in Temps
      BY <1>1, <2>2, <2>4, <3>2, NextMark DEF Rule, CanMark
    <3> QED BY <2>4, <3>1, <3>2 DEF Ids
  <2>6. text \subseteq R[c.active]
    BY <1>3, <2>5 DEF Fit, Held
  <2> HIDE DEF text
  <2>7. /\ q.active = c.active /\ q.text = text /\ q.tabs = c.tabs /\ q.puts = c.puts
        /\ q.acks = c.acks /\ q.stream = c.stream /\ q.diff = c.diff /\ q.anim = c.anim
        /\ q.stash = c.stash
    BY <1>3 DEF Shape, Fields
  <2> HIDE DEF q
  <2>8. Fit(q, R, server.known)
    BY <1>3, <2>6, <2>7 DEF Fit, Held, Calm
  <2> QED BY <2>1, <2>3, <2>8, PageStep
<1>5. CASE AutoSave
  <2> DEFINE q == [page EXCEPT !.timer = FALSE]
  <2>1. page' = SaveDocument(q) /\ UNCHANGED <<server, agent, waits, ghost>>
    BY <1>5 DEF AutoSave
  <2>2. /\ Shape(q) /\ q.active = page.active /\ q.text = page.text /\ q.tabs = page.tabs
        /\ q.puts = page.puts /\ q.acks = page.acks /\ q.stream = page.stream
        /\ q.diff = page.diff /\ q.anim = page.anim /\ q.stash = page.stash
    BY <1>1 DEF Shape, Fields
  <2> HIDE DEF q
  <2>3. Fit(q, R, server.known)
    BY <1>1, <2>2 DEF Fit, Held, Calm
  <2>4. Fit(page', R, server.known)
    BY <1>1, <2>1, <2>2, <2>3, SaveFits
  <2> QED BY <1>1, <2>1, <2>4, PageStep, SpendsNothing
<1>6. CASE UserSaves
  <2>1. /\ page' = SaveDocument(c) /\ UNCHANGED <<server, agent, waits>>
        /\ Can("saves") /\ ghost' = Spent("saves")
    BY <1>6 DEF UserSaves, c
  <2>2. Fit(page', R, server.known)
    BY <1>1, <1>3, <2>1, SaveFits
  <2>3. Spending
    BY <1>1, <1>2, <2>1, Spends
  <2> QED BY <2>1, <2>2, <2>3, PageStep
<1>7. CASE Minimise
  <2>1. /\ page' = ClosePanel(c, TRUE) /\ UNCHANGED <<server, agent, waits>>
        /\ Can("docks") /\ ghost' = Spent("docks")
    BY <1>7 DEF Minimise, c
  <2>2. Fit(page', R, server.known)
    BY <1>1, <1>3, <2>1, CloseFits
  <2>3. Spending
    BY <1>1, <1>2, <2>1, Spends
  <2> QED BY <2>1, <2>2, <2>3, PageStep
<1>8. CASE RestoreChip
  <2> DEFINE o == OpenPanel(page)
  <2>1. /\ page' = SwitchToDoc(o, page.docked) /\ UNCHANGED <<server, agent, waits, ghost>>
    BY <1>8 DEF RestoreChip
  <2>2. Good(o) /\ Fit(o, R, server.known)
    BY <1>1, VersionsKeep, VersionsFit, EditKeeps
  <2> HIDE DEF o
  <2>3. Fit(page', R, server.known)
    BY <1>1, <2>1, <2>2, SwitchFits
  <2> QED BY <1>1, <2>1, <2>3, PageStep, SpendsNothing
<1>9. ASSUME NEW d \in Ids, ClickTab(d) PROVE Kept(R)'
  <2>1. /\ page' = SwitchToDoc(c, d) /\ UNCHANGED <<server, agent, waits>>
        /\ Can("switches") /\ ghost' = Spent("switches")
    BY <1>9 DEF ClickTab, c
  <2>2. Fit(page', R, server.known)
    BY <1>1, <1>3, <2>1, SwitchFits
  <2>3. Spending
    BY <1>1, <1>2, <2>1, Spends
  <2> QED BY <2>1, <2>2, <2>3, PageStep
<1>10. ASSUME NEW d \in Ids, CloseTab(d) PROVE Kept(R)'
  <2> DEFINE p == SaveCurrentToMap(c)
             saved == IF p.tabs[d] = {} THEN p ELSE SaveDocument(p)
             q == [saved EXCEPT !.tabs = Without(@, {d})]
             r == [q EXCEPT !.active = None]
  <2>1. /\ \/ page' = ClosePanel(r, FALSE)
           \/ \E e \in DOMAIN q.tabs : page' = SwitchToDoc(q, e)
           \/ page' = q
        /\ UNCHANGED <<agent, waits>> /\ Can("closes") /\ ghost' = Spent("closes")
    BY <1>10 DEF CloseTab, c
  <2>2. /\ server'.text = server.text /\ server'.prev = server.prev
        /\ server'.known = server.known /\ server'.gone \subseteq Docs
    BY <1>10 DEF CloseTab, Kept, ServerText, IndInv, ServerInv
  <2>3. Good(p) /\ Shape(p) /\ Fit(p, R, server.known)
    BY <1>1, <1>3, SaveKeeps, SaveFits, EditKeeps DEF Good
  <2> HIDE DEF p
  <2>4. Good(saved) /\ Shape(saved) /\ Fit(saved, R, server.known)
    BY <1>1, <2>3, SaveKeeps, SaveFits, EditKeeps DEF Good
  <2> HIDE DEF saved
  <2>5. /\ Good(q) /\ Shape(q) /\ Good(r) /\ Shape(r)
    BY <2>4 DEF Good, Shape, Fields, DiffOf, TempOf, Without, Restrict
  <2> DEFINE tabs == Without(saved.tabs, {d})
  <2>6. DOMAIN tabs \subseteq DOMAIN saved.tabs /\ \A x \in DOMAIN tabs : tabs[x] = saved.tabs[x]
    BY DEF Without, Restrict
  <2>7. /\ q.active = saved.active /\ q.text = saved.text /\ q.tabs = tabs /\ q.puts = saved.puts
        /\ q.acks = saved.acks /\ q.stream = saved.stream /\ q.diff = saved.diff
        /\ q.anim = saved.anim /\ q.stash = saved.stash
    BY <2>4 DEF Shape, Fields
  <2> HIDE DEF q, tabs
  <2>8. Fit(q, R, server.known)
    BY <2>4, <2>6, <2>7 DEF Fit, Held, Calm
  <2>9. /\ r.active = None /\ r.text = q.text /\ r.tabs = q.tabs /\ r.puts = q.puts
        /\ r.acks = q.acks /\ r.stream = q.stream /\ r.diff = q.diff
        /\ r.anim = q.anim /\ r.stash = q.stash
    BY <2>5 DEF Shape, Fields
  <2> HIDE DEF r
  <2>10. Fit(r, R, server.known)
    BY <1>1, <2>8, <2>9 DEF Fit, Held, Calm, Rule
  <2>11. Fit(page', R, server.known)
    BY <1>1, <2>1, <2>5, <2>8, <2>10, CloseFits, SwitchFits
  <2>12. Spending
    BY <1>1, <1>2, <2>1, Spends
  <2> QED BY <2>1, <2>2, <2>11, <2>12, UserStep
<1>11. CASE CloseChip
  <2> DEFINE tabs == Without(page.tabs, {page.docked})
             q == [page EXCEPT !.tabs = tabs, !.docked = None]
  <2>1. /\ page' = q /\ UNCHANGED <<agent, waits>> /\ Can("closes") /\ ghost' = Spent("closes")
    BY <1>1, <1>11 DEF CloseChip, Shape, Fields
  <2>2. /\ server'.text = server.text /\ server'.prev = server.prev
        /\ server'.known = server.known /\ server'.gone \subseteq Docs
    BY <1>11 DEF CloseChip, Kept, ServerText, IndInv, ServerInv
  <2>3. DOMAIN tabs \subseteq DOMAIN page.tabs /\ \A x \in DOMAIN tabs : tabs[x] = page.tabs[x]
    BY DEF Without, Restrict
  <2> HIDE DEF tabs
  <2>4. /\ q.active = page.active /\ q.text = page.text /\ q.tabs = tabs /\ q.puts = page.puts
        /\ q.acks = page.acks /\ q.stream = page.stream /\ q.diff = page.diff
        /\ q.anim = page.anim /\ q.stash = page.stash
    BY <1>1 DEF Shape, Fields
  <2> HIDE DEF q
  <2>5. Fit(q, R, server.known)
    BY <1>1, <2>3, <2>4 DEF Fit, Held, Calm
  <2>6. Spending
    BY <1>1, <1>2, <2>1, Spends
  <2> QED BY <2>1, <2>2, <2>5, <2>6, UserStep
<1>12. ASSUME NEW d \in Docs, LoadDocument(d) PROVE Kept(R)'
  <2> DEFINE o == OpenPanel(c)
             w == [what |-> "load", doc |-> d]
  <2>1. /\ page' = SwitchToDoc(o, d) \/ page' = c
        /\ waits' = waits \/ waits' = waits \cup {w}
        /\ UNCHANGED <<server, agent>> /\ d \in server.known
        /\ Can("opens") /\ ghost' = Spent("opens")
    BY <1>12 DEF LoadDocument, c
  <2>2. Good(o) /\ Fit(o, R, server.known)
    BY <1>1, <1>3, VersionsKeep, VersionsFit, EditKeeps
  <2> HIDE DEF o
  <2>3. Fit(page', R, server.known)
    BY <1>1, <1>3, <2>1, <2>2, SwitchFits
  <2>4. Spending
    BY <1>1, <1>2, <2>1, Spends
  <2>5. \A x \in waits' : x \in waits \/ Asked(x, R)
    BY <2>1 DEF Asked
  <2>6. server.gone \subseteq Docs
    BY DEF Kept, ServerText
  <2> QED BY <2>1, <2>3, <2>4, <2>5, <2>6, UserStep
<1> QED BY <1>4, <1>5, <1>6, <1>7, <1>8, <1>9, <1>10, <1>11, <1>12 DEF Tabs

\* The server holds what was written for a document, under that document.
LEMMA WriteKeeps ==
  ASSUME NEW R, Rule(R), IndInv, ServerText(R), NEW d \in Docs, NEW text, text \subseteq R[d]
  PROVE  LET s == Write(server, d, text) IN
         /\ s.text \in [Docs -> SUBSET Marks] /\ s.prev \in [Docs -> SUBSET Marks]
         /\ \A e \in Docs : s.text[e] \subseteq R[e] /\ s.prev[e] \subseteq R[e]
         /\ DOMAIN s = DOMAIN server /\ s.gone = server.gone /\ s.known = server.known
<1> DEFINE s == Write(server, d, text)
           after == [server.text EXCEPT ![d] = text]
           before == [server.prev EXCEPT ![d] = server.text[d]]
<1>1. CASE s = server
  BY <1>1 DEF ServerText
<1>2. CASE s # server
  <2>1. s = [server EXCEPT !.prev = before, !.text = after]
    BY <1>2 DEF Write, IndInv, ServerInv
  <2>2. /\ after \in [Docs -> SUBSET Marks] /\ before \in [Docs -> SUBSET Marks]
        /\ \A e \in Docs : after[e] \subseteq R[e] /\ before[e] \subseteq R[e]
    <3>1. text \in SUBSET Marks
      BY DEF Rule, Ids
    <3> QED BY <3>1 DEF ServerText
  <2> HIDE DEF after, before
  <2>3. /\ s.text = after /\ s.prev = before /\ DOMAIN s = DOMAIN server
        /\ s.gone = server.gone /\ s.known = server.known
    BY <2>1 DEF IndInv, ServerInv
  <2> HIDE DEF s
  <2> QED BY <2>2, <2>3 DEF s
<1> QED BY <1>1, <1>2

\* A step of the server that tells the agent nothing new.
LEMMA ServerStep ==
  ASSUME NEW R, Kept(R), Spending, UNCHANGED <<agent, waits>>,
         ServerText(R)', server'.known = server.known, Fit(page', R, server.known)
  PROVE  Kept(R)'
<1>1. Fit(page, R, server.known)'
  BY DEF Fit, Held, Calm
<1>2. AgentText(R)' /\ WaitsText' /\ GhostInv'
  BY DEF Kept, AgentText, WaitsText, Spending
<1>3. R # Everything => Quiet'
  <2> SUFFICES ASSUME R # Everything PROVE Quiet'
    OBVIOUS
  <2>1. Quiet
    BY DEF Kept
  <2>2. {"compares", "smalls", "versions", "leaves", "streams"} \subseteq Spendable
    BY DEF Spendable
  <2>3. \A what \in {"compares", "smalls", "versions"} : ghost'.left[what] = 0
    BY <2>1, <2>2 DEF Quiet, Spending
  <2>4. \/ ghost'.left["leaves"] = 0 /\ agent'.bg = FALSE
        \/ ghost'.left["streams"] = 0 /\ agent'.call = NoCall /\ agent'.entry = NoCall
    BY <2>1, <2>2 DEF Quiet, Spending
  <2> QED BY <2>1, <2>3, <2>4 DEF Quiet
<1> QED BY <1>1, <1>2, <1>3 DEF Kept

\* A request is written under the id it names, and answered with its own text.
LEMMA RequestsKeep ==
  ASSUME IndInv, NEW R \in {Everything, OwnOnly}, Kept(R), Requests
  PROVE  Kept(R)'
<1>1. /\ Rule(R) /\ Good(page) /\ Shape(page) /\ Fit(page, R, server.known) /\ GhostInv
      /\ ServerText(R) /\ page.puts \in Seq(Named(Ids, R)) /\ page.acks \in Seq(Answered(R))
  BY Rules DEF IndInv, Good, Kept, Fit, Held
<1>2. CASE PutHandled
  <2> DEFINE put == Head(page.puts)
             known == put.doc \in server.known
             ack == [doc |-> put.doc, text |-> put.text, ok |-> known]
             puts == Tail(page.puts)
             acks == Append(page.acks, ack)
             q == [page EXCEPT !.puts = puts, !.acks = acks]
  <2>1. /\ page' = q /\ UNCHANGED <<agent, waits, ghost>>
        /\ server' = IF known THEN Write(server, put.doc, put.text) ELSE server
    BY <1>1, <1>2 DEF PutHandled, Shape, Fields
  <2>2. put \in Named(Ids, R) /\ puts \in Seq(Named(Ids, R))
    BY <1>1, <1>2 DEF PutHandled
  <2>3. put.doc \in Ids /\ put.text \in SUBSET Marks /\ put.text \subseteq R[put.doc]
    BY <2>2 DEF Named
  <2> HIDE DEF put
  <2>4. known \in BOOLEAN
    BY SMT
  <2> HIDE DEF known
  <2>5. ack \in Answered(R)
    BY <2>3, <2>4 DEF Answered
  <2> HIDE DEF ack
  <2>6. acks \in Seq(Answered(R))
    BY <1>1, <2>5
  <2> HIDE DEF puts, acks
  <2>7. /\ q.active = page.active /\ q.text = page.text /\ q.tabs = page.tabs /\ q.puts = puts
        /\ q.acks = acks /\ q.stream = page.stream /\ q.diff = page.diff
        /\ q.anim = page.anim /\ q.stash = page.stash
    BY <1>1 DEF Shape, Fields
  <2> HIDE DEF q
  <2>8. Fit(q, R, server.known)
    BY <1>1, <2>2, <2>6, <2>7 DEF Fit, Held, Calm
  <2>9. ServerText(R)' /\ server'.known = server.known
    <3>1. CASE known
      <4>1. put.doc \in Docs
        BY <3>1 DEF known, IndInv, ServerInv
      <4> QED BY <1>1, <2>1, <2>3, <3>1, <4>1, WriteKeeps DEF ServerText
    <3>2. CASE ~known
      BY <1>1, <2>1, <3>2 DEF ServerText
    <3> QED BY <3>1, <3>2
  <2>10. Spending
    BY <1>1, <2>1, SpendsNothing
  <2> QED BY <2>1, <2>8, <2>9, <2>10, ServerStep
<1>3. CASE PutFails
  <2> DEFINE puts == Tail(page.puts)
             q == [page EXCEPT !.puts = puts]
  <2>1. /\ page' = q /\ UNCHANGED <<server, agent, waits>>
        /\ Can("errors") /\ ghost' = Spent("errors")
    BY <1>1, <1>3 DEF PutFails, Shape, Fields
  <2>2. puts \in Seq(Named(Ids, R))
    BY <1>1, <1>3 DEF PutFails
  <2> HIDE DEF puts
  <2>3. /\ q.active = page.active /\ q.text = page.text /\ q.tabs = page.tabs /\ q.puts = puts
        /\ q.acks = page.acks /\ q.stream = page.stream /\ q.diff = page.diff
        /\ q.anim = page.anim /\ q.stash = page.stash
    BY <1>1 DEF Shape, Fields
  <2> HIDE DEF q
  <2>4. Fit(q, R, server.known)
    BY <1>1, <2>2, <2>3 DEF Fit, Held, Calm
  <2>5. Spending
    BY <1>1, <2>1, Spends DEF Spendable
  <2> QED BY <2>1, <2>4, <2>5, PageStep
<1>4. CASE PutAnswered
  <2>1. PICK i \in DOMAIN page.acks :
          page' = Acknowledged([page EXCEPT !.acks = RemoveAt(@, i)], page.acks[i])
    BY <1>4 DEF PutAnswered
  <2> DEFINE ack == page.acks[i]
             acks == RemoveAt(page.acks, i)
             q == [page EXCEPT !.acks = acks]
  <2>2. page' = Acknowledged(q, ack) /\ UNCHANGED <<server, agent, waits, ghost>>
    BY <1>1, <1>4, <2>1 DEF PutAnswered, Shape, Fields
  <2>3. ack \in Answered(R)
    BY <1>1
  <2>4. acks \in Seq(Answered(R))
    BY <1>1 DEF RemoveAt
  <2> HIDE DEF ack, acks
  <2>5. /\ Shape(q) /\ q.active = page.active /\ q.text = page.text /\ q.tabs = page.tabs
        /\ q.puts = page.puts /\ q.acks = acks /\ q.stream = page.stream /\ q.diff = page.diff
        /\ q.anim = page.anim /\ q.stash = page.stash
    BY <1>1 DEF Shape, Fields
  <2> HIDE DEF q
  <2>6. Fit(q, R, server.known)
    BY <1>1, <2>4, <2>5 DEF Fit, Held, Calm
  <2>7. Fit(page', R, server.known)
    BY <1>1, <2>2, <2>3, <2>5, <2>6, AckFits
  <2> QED BY <1>1, <2>2, <2>7, PageStep, SpendsNothing
<1> QED BY <1>2, <1>3, <1>4 DEF Requests

LEMMA FitGrows ==
  ASSUME NEW R, NEW K, NEW L, K \subseteq L, NEW p, Fit(p, R, K)
  PROVE  Fit(p, R, L)
BY DEF Fit, Calm

\* Whoever streams while no one may leave is not in the background.
Attended ==
  \/ ghost.left["leaves"] = 0 /\ agent'.bg = FALSE
  \/ ghost.left["streams"] = 0 /\ agent'.call = NoCall /\ agent'.entry = NoCall

LEMMA RunStep ==
  ASSUME NEW R, Kept(R), Spending, UNCHANGED waits, server.known \subseteq server'.known,
         Fit(page', R, server'.known), AgentText(R)', ServerText(R)',
         R # Everything =>
           Attended /\ \A i \in DOMAIN agent'.events : agent'.events[i].doc \in server'.known
  PROVE  Kept(R)'
<1>1. Fit(page, R, server.known)'
  BY DEF Fit, Held, Calm
<1>2. WaitsText' /\ GhostInv'
  BY DEF Kept, WaitsText, Spending
<1>3. R # Everything => Quiet'
  <2> SUFFICES ASSUME R # Everything PROVE Quiet'
    OBVIOUS
  <2>1. Quiet
    BY DEF Kept
  <2>2. {"compares", "smalls", "versions", "leaves", "streams"} \subseteq Spendable
    BY DEF Spendable
  <2>3. \A what \in {"compares", "smalls", "versions"} : ghost'.left[what] = 0
    BY <2>1, <2>2 DEF Quiet, Spending
  <2>4. \/ ghost'.left["leaves"] = 0 /\ agent'.bg = FALSE
        \/ ghost'.left["streams"] = 0 /\ agent'.call = NoCall /\ agent'.entry = NoCall
    BY <2>2 DEF Attended, Spending
  <2>5. \A e \in Range(agent'.events) : e.doc \in server'.known
    BY DEF Range
  <2>6. \A w \in waits' : /\ w.what \notin {"compare", "preview", "restore"}
                          /\ w.what = "load" => w.doc \in server'.known
    BY <2>1 DEF Quiet
  <2> QED BY <2>3, <2>4, <2>5, <2>6 DEF Quiet
<1> QED BY <1>1, <1>2, <1>3 DEF Kept

LEMMA ReportFits ==
  ASSUME NEW R, NEW d \in Docs, NEW text \in SUBSET Marks, text \subseteq R[d], NEW k \in {1, 2}
  PROVE  /\ Report(d, text, k) \in Seq(Named(Docs, R))
         /\ \A i \in DOMAIN Report(d, text, k) : Report(d, text, k)[i].doc = d
<1>1. [doc |-> d, text |-> text] \in Named(Docs, R)
  BY DEF Named
<1> QED BY <1>1 DEF Report

\* The agent: what it writes for a document is reported, streamed and replayed
\* under that document.
LEMMA AgentKeeps ==
  ASSUME IndInv, NEW R \in {Everything, OwnOnly}, Kept(R), Agent
  PROVE  Kept(R)'
<1>1. /\ Rule(R) /\ Good(page) /\ Shape(page) /\ Fit(page, R, server.known) /\ GhostInv
      /\ ServerText(R) /\ AgentText(R) /\ AgentInv /\ ServerInv
  BY Rules DEF IndInv, Good, Kept
<1>2. /\ R # Everything => Quiet
      /\ {"streams", "edits", "smalls", "leaves"} \subseteq Spendable
  BY DEF Kept, Spendable
<1>3. /\ {"call", "events", "running", "bg", "entry", "replayed"} \subseteq DOMAIN agent
      /\ {"doc", "opened", "text"} \subseteq DOMAIN agent.call
      /\ {"doc", "opened", "text"} \subseteq DOMAIN agent.entry
  BY <1>1 DEF AgentInv, AgentText
<1>4. R # Everything => \A i \in DOMAIN agent.events : agent.events[i].doc \in server.known
  BY <1>2 DEF Quiet, Range
<1>5. CASE CallStreams
  <2> DEFINE text == {Fresh(agent.call.doc)}
             call == [agent.call EXCEPT !.text = text]
             entry == [agent.entry EXCEPT !.text = IF agent.bg THEN text ELSE @]
  <2>1. /\ agent.call.opened /\ ghost.n < MaxMarks /\ UNCHANGED <<server, waits>>
        /\ ghost' = [ghost EXCEPT !.n = @ + 1]
        /\ page' = IF agent.bg THEN page ELSE StreamDocDelta(page, text)
        /\ agent' = [agent EXCEPT !.call = call, !.entry = entry]
    BY <1>3, <1>5 DEF CallStreams
  <2>2. agent.call # NoCall /\ agent.call.doc \in Docs
    BY <1>1, <2>1 DEF AgentInv, NoCall
  <2>3. text \subseteq R[agent.call.doc] /\ text \subseteq Marks
    BY <1>1, <2>1, <2>2, NextMark
  <2> HIDE DEF text
  <2>4. Fit(page', R, server'.known)
    BY <1>1, <2>1, <2>3, DeltaFits
  <2>5. /\ call.doc = agent.call.doc /\ call.text = text
        /\ DOMAIN entry = DOMAIN agent.entry /\ entry.doc = agent.entry.doc
        /\ entry.text \subseteq Marks
    BY <1>1, <1>3, <2>3 DEF AgentText
  <2> HIDE DEF call, entry
  <2>6. agent'.call = call /\ agent'.entry = entry /\ agent'.events = agent.events
        /\ agent'.bg = agent.bg
    BY <1>3, <2>1
  <2>7. AgentText(R)'
    BY <1>1, <1>3, <2>2, <2>3, <2>5, <2>6 DEF AgentText
  <2>8. Spending
    <3>1. /\ DOMAIN ghost' = DOMAIN ghost /\ ghost'.left = ghost.left /\ ghost'.used = ghost.used
          /\ ghost'.n = ghost.n + 1
      BY <1>1, <2>1 DEF GhostInv
    <3>2. ghost'.n \in 0 .. MaxMarks
      BY <1>1, <2>1, <3>1, DocumentEditorAssumption DEF GhostInv
    <3> QED BY <1>1, <3>1, <3>2 DEF Spending, GhostInv
  <2>9. R # Everything => Attended
    BY <1>2, <2>2, <2>6 DEF Quiet, Attended
  <2>10. ServerText(R)'
    BY <1>1, <2>1 DEF ServerText
  <2> QED BY <1>4, <2>1, <2>4, <2>6, <2>7, <2>8, <2>9, <2>10, RunStep
<1>6. CASE CallWrites
  <2> DEFINE d == agent.call.doc
             text == agent.call.text
             srv == Write(server, d, text)
  <2>1. PICK k \in {1, 2} :
          /\ agent' = [agent EXCEPT !.call = NoCall, !.events = Report(d, text, k)]
          /\ server' = [srv EXCEPT !.known = @ \cup {d}]
          /\ UNCHANGED <<page, waits, ghost>> /\ text # {}
    BY <1>6 DEF CallWrites, Times
  <2>2. agent.call # NoCall /\ d \in Docs
    BY <1>1, <2>1 DEF AgentInv, NoCall
  <2>3. text \subseteq R[d] /\ text \in SUBSET Marks
    BY <1>1, <2>2 DEF AgentText, Rule, Ids
  <2>4. /\ agent'.call = NoCall /\ agent'.events = Report(d, text, k)
        /\ agent'.entry = agent.entry /\ agent'.bg = agent.bg
    BY <1>3, <2>1
  <2> HIDE DEF d, text
  <2>5. /\ agent'.events \in Seq(Named(Docs, R))
        /\ \A i \in DOMAIN agent'.events : agent'.events[i].doc = d
    <3>1. /\ Report(d, text, k) \in Seq(Named(Docs, R))
          /\ \A i \in DOMAIN Report(d, text, k) : Report(d, text, k)[i].doc = d
      BY <2>2, <2>3, ReportFits
    <3> QED BY <2>4, <3>1
  <2>6. AgentText(R)'
    BY <1>1, <2>4, <2>5 DEF AgentText, NoCall
  <2>7. /\ server'.text = srv.text /\ server'.prev = srv.prev /\ server'.gone = server.gone
        /\ server'.known = server.known \cup {d} /\ ServerText(R)'
    <3>1. /\ srv.text \in [Docs -> SUBSET Marks] /\ srv.prev \in [Docs -> SUBSET Marks]
          /\ \A e \in Docs : srv.text[e] \subseteq R[e] /\ srv.prev[e] \subseteq R[e]
          /\ DOMAIN srv = DOMAIN server /\ srv.gone = server.gone /\ srv.known = server.known
      BY <1>1, <2>2, <2>3, WriteKeeps
    <3> HIDE DEF srv
    <3>2. /\ server'.text = srv.text /\ server'.prev = srv.prev /\ server'.gone = srv.gone
          /\ server'.known = srv.known \cup {d}
      BY <1>1, <2>1, <3>1 DEF ServerInv
    <3> QED BY <1>1, <3>1, <3>2 DEF ServerText
  <2>8. Fit(page', R, server'.known)
    BY <1>1, <2>1, <2>7, FitGrows
  <2>9. R # Everything => Attended
    BY <1>2, <2>2, <2>4 DEF Quiet, Attended
  <2> QED BY <1>1, <2>1, <2>5, <2>6, <2>7, <2>8, <2>9, RunStep, SpendsNothing
<1>7. CASE DocUpdate
  <2> DEFINE e == Head(agent.events)
             events == Tail(agent.events)
  <2>1. PICK small \in BOOLEAN :
          /\ page' \in {page, HandleDocUpdate(page, e.doc, e.text, small)}
          /\ \/ ~small /\ UNCHANGED ghost
             \/ Can("smalls") /\ ghost' = Spent("smalls")
          /\ agent.events # <<>> /\ agent' = [agent EXCEPT !.events = events]
          /\ UNCHANGED <<server, waits>>
    <3>1. \/ /\ page' \in {page, HandleDocUpdate(page, e.doc, e.text, FALSE)} /\ UNCHANGED ghost
          \/ /\ page' \in {page, HandleDocUpdate(page, e.doc, e.text, TRUE)}
             /\ Can("smalls") /\ ghost' = Spent("smalls")
      BY <1>7 DEF DocUpdate
    <3>2. /\ agent.events # <<>> /\ agent' = [agent EXCEPT !.events = events]
          /\ UNCHANGED <<server, waits>>
      BY <1>7 DEF DocUpdate
    <3> HIDE DEF e, events
    <3> QED BY <3>1, <3>2
  <2>2. e \in Named(Docs, R) /\ events \in Seq(Named(Docs, R))
    BY <1>1, <2>1 DEF AgentText
  <2>3. e.doc \in Docs /\ e.text \in SUBSET Marks /\ e.text \subseteq R[e.doc]
    BY <2>2 DEF Named
  <2>4. R # Everything => e.doc \in server.known /\ ~small
    BY <1>1, <1>2, <1>4, <2>1 DEF Quiet, Can, AgentText
  <2>5. /\ agent'.call = agent.call /\ agent'.events = events
        /\ agent'.entry = agent.entry /\ agent'.bg = agent.bg
    BY <1>3, <2>1
  <2>6. R # Everything => \A i \in DOMAIN events : events[i].doc \in server.known
    BY <1>1, <1>4, <2>1 DEF AgentText
  <2> HIDE DEF e, events
  <2>7. Fit(page', R, server'.known)
    BY <1>1, <2>1, <2>3, <2>4, UpdateFits
  <2>8. AgentText(R)'
    BY <1>1, <2>2, <2>5 DEF AgentText
  <2>9. Spending
    BY <1>1, <1>2, <2>1, Spends, SpendsNothing
  <2>10. R # Everything => Attended
    BY <1>2, <2>5 DEF Quiet, Attended
  <2>11. ServerText(R)'
    BY <1>1, <2>1 DEF ServerText
  <2> QED BY <2>1, <2>5, <2>6, <2>7, <2>8, <2>9, <2>10, <2>11, RunStep
<1>8. CASE RunEnds
  <2>1. /\ agent'.call = agent.call /\ agent'.events = agent.events
        /\ agent'.entry = NoCall /\ agent'.bg = FALSE
        /\ agent.call = NoCall /\ UNCHANGED <<page, server, waits, ghost>>
    BY <1>3, <1>8 DEF RunEnds
  <2>2. AgentText(R)'
    BY <1>1, <2>1 DEF AgentText, NoCall
  <2>3. R # Everything => Attended
    BY <1>2, <2>1 DEF Quiet, Attended
  <2>4. ServerText(R)'
    BY <1>1, <2>1 DEF ServerText
  <2> QED BY <1>1, <1>4, <2>1, <2>2, <2>3, <2>4, RunStep, SpendsNothing
<1>9. ASSUME page.anim.on, NEW text, text \subseteq Marks, NEW anim, anim.new \subseteq Marks,
             page' = [page EXCEPT !.text = text, !.anim = anim],
             UNCHANGED <<server, agent, waits, ghost>>
      PROVE  Kept(R)'
  <2>1. R = Everything
    BY <1>1, <1>9 DEF Fit, Calm
  <2>2. text \subseteq R[page.active]
    BY <1>1, <1>9, <2>1, Free DEF Fit, Held
  <2>3. /\ page'.active = page.active /\ page'.text = text /\ page'.tabs = page.tabs
        /\ page'.puts = page.puts /\ page'.acks = page.acks /\ page'.stream = page.stream
        /\ page'.diff = page.diff /\ page'.anim = anim /\ page'.stash = page.stash
    BY <1>1, <1>9 DEF Shape, Fields
  <2>4. Fit(page', R, server.known)
    BY <1>1, <1>9, <2>1, <2>2, <2>3 DEF Fit, Held
  <2> QED BY <1>1, <1>9, <2>4, PageStep, SpendsNothing
<1>10. page.anim.new \subseteq Marks /\ page.text \subseteq Marks
  BY <1>1 DEF Fit, Held, Rule
<1>11. CASE AnimationFrame
  <2>1. page' = [page EXCEPT !.text = page.text \cap page.anim.new, !.anim = page.anim]
    BY <1>1, <1>11 DEF AnimationFrame, Shape, Fields
  <2>2. page.text \cap page.anim.new \subseteq Marks
    BY <1>10
  <2> QED BY <1>9, <1>10, <1>11, <2>1, <2>2 DEF AnimationFrame
<1>12. CASE AnimationEnds
  <2>1. page' = [page EXCEPT !.text = page.anim.new, !.anim = NoAnim]
    BY <1>12 DEF AnimationEnds
  <2>2. NoAnim.new \subseteq Marks
    BY DEF NoAnim
  <2> QED BY <1>9, <1>10, <1>12, <2>1, <2>2 DEF AnimationEnds
<1>13. ASSUME NEW d \in Docs, CallOpens(d) PROVE Kept(R)'
  <2> DEFINE title == IF d \in server.known THEN None ELSE d
             entry == [NoCall EXCEPT !.doc = title, !.opened = TRUE]
             call == [entry EXCEPT !.doc = d]
             used == ghost.used \cup {NextTemp}
  <2>1. /\ agent' = [Started EXCEPT !.call = call, !.entry = IF agent.bg THEN entry ELSE @]
        /\ page' = IF agent.bg THEN page ELSE StreamDocOpen(page, title, NextTemp)
        /\ ghost' = [Spent("streams") EXCEPT !.used = used]
        /\ UNCHANGED <<server, waits>>
        /\ Can("streams") /\ Temps # ghost.used /\ agent.call = NoCall
    <3>1. ghost' = [Spent("streams") EXCEPT !.used = used]
      BY <1>1, <1>13 DEF CallOpens, Spent, GhostInv
    <3> QED BY <1>13, <3>1 DEF CallOpens, MayCall
  <2>2. NextTemp \in Temps /\ used \subseteq Temps
    BY <1>1, <2>1 DEF NextTemp, GhostInv
  <2>3. /\ call.doc = d /\ call.text = {} /\ entry.doc = title /\ entry.text = {}
        /\ {"doc", "opened", "text"} \subseteq DOMAIN entry
    BY DEF NoCall
  <2>4. title \in Docs \cup {None} /\ (R # Everything => title \notin DOMAIN page.tabs)
    BY <1>1, DocumentEditorAssumption DEF Fit, Held, Calm, Ids
  <2> HIDE DEF call, entry, title, used
  <2>5. /\ agent'.call = call /\ agent'.events = agent.events /\ agent'.bg = agent.bg
        /\ agent'.entry = IF agent.bg THEN entry ELSE agent.entry
    BY <1>3, <2>1 DEF Started
  <2>6. AgentText(R)'
    BY <1>1, <1>3, <2>3, <2>4, <2>5 DEF AgentText
  <2>7. Fit(page', R, server'.known)
    BY <1>1, <2>1, <2>2, <2>4, StreamFits
  <2>8. Spending
    BY <1>1, <1>2, <2>1, <2>2, Spends
  <2>9. R # Everything => Attended
    BY <1>2, <2>1, <2>5 DEF Quiet, Attended, Can
  <2>10. ServerText(R)'
    BY <1>1, <2>1 DEF ServerText
  <2> QED BY <1>4, <2>1, <2>5, <2>6, <2>7, <2>8, <2>9, <2>10, RunStep
<1>14. ASSUME NEW d \in Docs, EditWrites(d) PROVE Kept(R)'
  <2> DEFINE text == server.text[d] \cup {Fresh(d)}
  <2>1. PICK k \in {1, 2} :
          /\ agent' = [Started EXCEPT !.events = Report(d, text, k)]
          /\ server' = Write(server, d, text) /\ UNCHANGED <<page, waits>>
          /\ CanMark("edits") /\ ghost' = SpentMark("edits") /\ d \in server.known
    BY <1>14 DEF EditWrites, Times
  <2>2. text \subseteq R[d] /\ text \in SUBSET Marks
    <3>1. {Fresh(d)} \subseteq R[d] /\ {Fresh(d)} \subseteq Marks
      BY <1>1, <2>1, NextMark DEF CanMark
    <3> QED BY <1>1, <3>1 DEF ServerText
  <2> HIDE DEF text
  <2>3. /\ agent'.call = agent.call /\ agent'.events = Report(d, text, k)
        /\ agent'.entry = agent.entry /\ agent'.bg = agent.bg
    BY <1>3, <2>1 DEF Started
  <2>4. /\ agent'.events \in Seq(Named(Docs, R))
        /\ \A i \in DOMAIN agent'.events : agent'.events[i].doc = d
    <3>1. /\ Report(d, text, k) \in Seq(Named(Docs, R))
          /\ \A i \in DOMAIN Report(d, text, k) : Report(d, text, k)[i].doc = d
      BY <2>2, ReportFits
    <3> QED BY <2>3, <3>1
  <2>5. AgentText(R)'
    BY <1>1, <2>3, <2>4 DEF AgentText
  <2>6. ServerText(R)' /\ server'.known = server.known
    BY <1>1, <2>1, <2>2, WriteKeeps DEF ServerText
  <2>7. Fit(page', R, server'.known)
    BY <1>1, <2>1, <2>6
  <2>8. Spending
    BY <1>1, <1>2, <2>1, Spends DEF CanMark
  <2>9. R # Everything => Attended
    BY <1>2, <2>3 DEF Quiet, Attended
  <2> QED BY <2>1, <2>4, <2>5, <2>6, <2>7, <2>8, <2>9, RunStep
<1> QED BY <1>5, <1>6, <1>7, <1>8, <1>11, <1>12, <1>13, <1>14 DEF Agent

\* A review decides between the two texts of one document.
LEMMA ReviewKeeps ==
  ASSUME IndInv, NEW R \in {Everything, OwnOnly}, Kept(R), Review
  PROVE  Kept(R)'
<1>1. /\ Rule(R) /\ Good(page) /\ Shape(page) /\ Fit(page, R, server.known) /\ GhostInv
      /\ server.gone \subseteq Docs
  BY Rules DEF IndInv, Good, Kept, ServerText
<1>2. /\ R # Everything => Quiet
      /\ {"compares", "versions"} \subseteq Spendable
  BY DEF Kept, Spendable
<1> DEFINE c == CloseVersionPanel(page)
<1>3. Same(page, c) /\ Good(c) /\ Shape(c) /\ Fit(c, R, server.known)
  BY <1>1, VersionsKeep, VersionsFit, EditKeeps DEF Good
<1> HIDE DEF c
\* Whatever is decided, the review is of the same texts.
<1>4. ASSUME NEW p, Good(p), Fit(p, R, server.known), NEW q, Shape(q),
             q.active = p.active, q.tabs = p.tabs, q.puts = p.puts, q.acks = p.acks,
             q.stream = p.stream, q.anim = p.anim, q.stash = p.stash,
             q.text = p.text \/ (p.diff.on /\ q.text \subseteq p.diff.old \cup p.diff.new),
             DOMAIN q.diff = DOMAIN p.diff, q.diff.on = p.diff.on, q.diff.doc = p.diff.doc,
             q.diff.old = p.diff.old, q.diff.new = p.diff.new, q.diff.asked = p.diff.asked
      PROVE  Good(q) /\ Fit(q, R, server.known)
  <2>1. Good(q)
    BY <1>4 DEF Good, DiffOf, TempOf
  <2>2. q.text \subseteq R[q.active]
    <3>1. p.diff.on => R[p.diff.doc] \subseteq R[p.active]
      <4>1. R[p.diff.doc] \subseteq Marks /\ R[None] = Marks
        BY <1>1, <1>4 DEF Fit, Held, Rule
      <4>2. R = Everything => R[p.active] = Marks
        BY <1>4, Free DEF Fit, Held
      <4> QED BY <1>4, <4>1, <4>2 DEF Good, DiffOf, Fit, Calm
    <3> QED BY <1>4, <3>1 DEF Fit, Held
  <2>3. Fit(q, R, server.known)
    BY <1>4, <2>2 DEF Fit, Held, Calm
  <2> QED BY <2>1, <2>3
<1>5. \A diff : Resolved(diff) \subseteq diff.old \cup diff.new
  BY DEF Resolved
<1>6. ASSUME NEW m, NEW accept, ResolveChunk(m, accept) PROVE Kept(R)'
  <2> DEFINE diff == [c.diff EXCEPT !.resolved = @ \cup {m},
                                    !.accepted = IF accept THEN @ \cup {m} ELSE @]
             text == Resolved(diff)
             q == [c EXCEPT !.diff = diff, !.text = text,
                            !.later = @ \/ diff.resolved = Chunks(diff)]
  <2>1. page' = SaveDocument(q) /\ UNCHANGED <<server, agent, waits, ghost>> /\ page.diff.on
    BY <1>6 DEF ResolveChunk, Reviewing, c
  <2>2. /\ DOMAIN diff = DOMAIN c.diff /\ diff.on = c.diff.on /\ diff.doc = c.diff.doc
        /\ diff.old = c.diff.old /\ diff.new = c.diff.new /\ diff.asked = c.diff.asked
    BY <1>3 DEF Fit, Held
  <2>3. text \subseteq c.diff.old \cup c.diff.new
    BY <1>5, <2>2
  <2> HIDE DEF diff, text
  <2>4. /\ DOMAIN q = DOMAIN c /\ q.active = c.active /\ q.text = text /\ q.tabs = c.tabs
        /\ q.puts = c.puts /\ q.acks = c.acks /\ q.stream = c.stream /\ q.diff = diff
        /\ q.anim = c.anim /\ q.stash = c.stash
    BY <1>3 DEF Shape, Fields
  <2> HIDE DEF q
  <2>5. Shape(q) /\ c.diff.on
    BY <1>3, <2>1, <2>2, <2>4 DEF Shape, Same
  <2>6. Good(q) /\ Fit(q, R, server.known)
    BY <1>3, <1>4, <2>2, <2>3, <2>4, <2>5
  <2>7. Fit(page', R, server.known)
    BY <1>1, <2>1, <2>5, <2>6, SaveFits
  <2> QED BY <1>1, <2>1, <2>7, PageStep, SpendsNothing
<1>7. ASSUME NEW accept, ResolveAllChunks(accept) PROVE Kept(R)'
  <2> DEFINE rest == Chunks(c.diff) \ c.diff.resolved
             accepted == IF accept THEN c.diff.accepted \cup rest ELSE c.diff.accepted
             diff == [c.diff EXCEPT !.accepted = accepted]
             q == [c EXCEPT !.diff = diff]
  <2>1. page' = ExitDiffMode(q, FALSE) /\ UNCHANGED <<server, agent, waits, ghost>>
    BY <1>7 DEF ResolveAllChunks, c
  <2> HIDE DEF accepted
  <2>2. /\ DOMAIN diff = DOMAIN c.diff /\ diff.on = c.diff.on /\ diff.doc = c.diff.doc
        /\ diff.old = c.diff.old /\ diff.new = c.diff.new /\ diff.asked = c.diff.asked
    BY <1>3 DEF Fit, Held
  <2> HIDE DEF diff
  <2>3. /\ DOMAIN q = DOMAIN c /\ q.active = c.active /\ q.text = c.text /\ q.tabs = c.tabs
        /\ q.puts = c.puts /\ q.acks = c.acks /\ q.stream = c.stream /\ q.diff = diff
        /\ q.anim = c.anim /\ q.stash = c.stash
    BY <1>3 DEF Shape, Fields
  <2> HIDE DEF q
  <2>4. Shape(q)
    BY <1>3, <2>2, <2>3 DEF Shape
  <2>5. Good(q) /\ Fit(q, R, server.known)
    BY <1>3, <1>4, <2>2, <2>3, <2>4
  <2>6. Fit(page', R, server.known)
    BY <1>1, <2>1, <2>4, <2>5, ExitFits DEF Good
  <2> QED BY <1>1, <2>1, <2>6, PageStep, SpendsNothing
<1>8. CASE LaterFires
  <2> DEFINE q == [page EXCEPT !.later = FALSE]
  <2>1. page' = ExitDiffMode(q, FALSE) /\ UNCHANGED <<server, agent, waits, ghost>>
    BY <1>8 DEF LaterFires
  <2>2. /\ Shape(q) /\ q.active = page.active /\ q.text = page.text /\ q.tabs = page.tabs
        /\ q.puts = page.puts /\ q.acks = page.acks /\ q.stream = page.stream
        /\ q.diff = page.diff /\ q.anim = page.anim /\ q.stash = page.stash
    BY <1>1 DEF Shape, Fields
  <2> HIDE DEF q
  <2>3. Good(q) /\ Fit(q, R, server.known)
    BY <1>1, <1>4, <2>2
  <2>4. Fit(page', R, server.known)
    BY <1>1, <2>1, <2>2, <2>3, ExitFits DEF Good
  <2> QED BY <1>1, <2>1, <2>4, PageStep, SpendsNothing
<1>9. CASE DiscardDiff
  <2>1. page' = ExitDiffMode(page, TRUE) /\ UNCHANGED <<server, agent, waits, ghost>>
    BY <1>9 DEF DiscardDiff
  <2>2. Fit(page', R, server.known)
    BY <1>1, <2>1, ExitFits DEF Good
  <2> QED BY <1>1, <2>1, <2>2, PageStep, SpendsNothing
<1>10. CASE Compare
  <2> DEFINE w == [what |-> "compare", doc |-> c.active, text |-> c.text]
  <2>1. /\ page' = c /\ waits' = waits \cup {w} /\ UNCHANGED <<server, agent>>
        /\ Can("compares") /\ ghost' = Spent("compares") /\ page.active \in Docs
    BY <1>10 DEF Compare, c
  <2>2. R = Everything
    BY <1>2, <2>1 DEF Quiet, Can
  <2>3. c.active \in Docs /\ c.text \subseteq Marks
    BY <1>1, <1>3, <2>1 DEF Fit, Held, Rule, Same, Alike
  <2>4. Asked(w, R)
    BY <2>2, <2>3 DEF Asked
  <2> HIDE DEF w
  <2>5. Spending
    BY <1>1, <1>2, <2>1, Spends
  <2> QED BY <1>1, <1>3, <2>1, <2>4, <2>5, UserStep
<1>11. CASE OpenVersions
  <2> DEFINE stash == [on |-> TRUE, shown |-> TRUE, text |-> page.text]
             q == [page EXCEPT !.stash = stash]
  <2>1. /\ page' = q /\ UNCHANGED <<server, agent, waits>>
        /\ Can("versions") /\ ghost' = Spent("versions")
    BY <1>11 DEF OpenVersions
  <2>2. R = Everything
    BY <1>2, <2>1 DEF Quiet, Can
  <2>3. {"on", "shown", "text"} \subseteq DOMAIN stash /\ stash.text \subseteq Marks
    BY <1>1 DEF Fit, Held, Rule
  <2> HIDE DEF stash
  <2>4. /\ q.active = page.active /\ q.text = page.text /\ q.tabs = page.tabs
        /\ q.puts = page.puts /\ q.acks = page.acks /\ q.stream = page.stream
        /\ q.diff = page.diff /\ q.anim = page.anim /\ q.stash = stash
    BY <1>1 DEF Shape, Fields
  <2> HIDE DEF q
  <2>5. Fit(q, R, server.known)
    BY <1>1, <2>2, <2>3, <2>4 DEF Fit, Held
  <2>6. Spending
    BY <1>1, <1>2, <2>1, Spends
  <2> QED BY <2>1, <2>5, <2>6, PageStep
<1>12. CASE CloseVersions
  <2>1. page' = c /\ UNCHANGED <<server, agent, waits, ghost>>
    BY <1>12 DEF CloseVersions, c
  <2> QED BY <1>1, <1>3, <2>1, PageStep, SpendsNothing
<1>13. ASSUME NEW what \in {"preview", "restore"}, AskVersion(what) PROVE Kept(R)'
  <2> DEFINE w == [what |-> what, doc |-> page.active]
  <2>1. /\ waits' = waits \cup {w} /\ UNCHANGED <<page, server, agent, ghost>>
        /\ page.stash.shown /\ page.active \in Docs
    BY <1>13 DEF AskVersion
  <2>2. R = Everything
    BY <1>1, <2>1 DEF Fit, Calm
  <2>3. Asked(w, R)
    BY <2>1, <2>2 DEF Asked
  <2> HIDE DEF w
  <2> QED BY <1>1, <2>1, <2>3, UserStep, SpendsNothing
<1> QED BY <1>6, <1>7, <1>8, <1>9, <1>10, <1>11, <1>12, <1>13 DEF Review

\* An answer brings what the server holds for the document it was asked for.
LEMMA AnswersKeep ==
  ASSUME IndInv, NEW R \in {Everything, OwnOnly}, Kept(R), Answers
  PROVE  Kept(R)'
<1> SUFFICES ASSUME NEW w \in waits,
                    \/ LoadAnswered(w) \/ Compared(w) \/ Previewed(w) \/ Restored(w)
                    \/ ConfirmDelete(w) \/ Deleted(w) \/ SessionLoaded(w)
             PROVE  Kept(R)'
  BY DEF Answers
<1>1. /\ Rule(R) /\ Good(page) /\ Shape(page) /\ Fit(page, R, server.known) /\ GhostInv
      /\ server.gone \subseteq Docs /\ ServerText(R) /\ server.known \subseteq Docs
      /\ UNCHANGED ghost => Spending
  BY Rules, SpendsNothing DEF IndInv, Good, Kept, ServerText, ServerInv
<1>2. /\ R # Everything => Quiet
      /\ w.what = "load" => w.doc \in Docs
      /\ w.what \in {"compare", "preview", "restore"} => w.doc \in Docs /\ R = Everything
      /\ w.what = "compare" => w.text \subseteq Marks
  BY DEF Kept, Quiet, IndInv, WaitsInv, WaitsText
<1>3. \A d \in Docs : /\ server.text[d] \subseteq R[d] /\ server.prev[d] \subseteq R[d]
                     /\ server.text[d] \subseteq Marks /\ server.prev[d] \subseteq Marks
  <2>1. \A d \in Docs : server.text[d] \in SUBSET Marks /\ server.prev[d] \in SUBSET Marks
    BY <1>1 DEF ServerText
  <2> QED BY <1>1, <2>1 DEF ServerText
<1>4. R = Everything => \A id \in Ids \cup {None} : R[id] = Marks
  BY Free
<1>5. CASE LoadAnswered(w)
  <2> DEFINE tabs == With(page.tabs, w.doc, server.text[w.doc])
             p == [page EXCEPT !.tabs = tabs]
  <2>1. /\ page' = SwitchToDoc(OpenPanel(p), w.doc) /\ w.what = "load"
        /\ UNCHANGED <<server, agent, ghost>> /\ waits' \subseteq waits
    BY <1>1, <1>5 DEF LoadAnswered, Shape, Fields
  <2>2. w.doc \in Docs /\ w.doc \notin Temps /\ (R # Everything => w.doc \in server.known)
    BY <1>2, <2>1, DocumentEditorAssumption DEF Quiet
  <2>3. DOMAIN tabs = DOMAIN page.tabs \cup {w.doc} /\ \A x \in DOMAIN tabs : tabs[x] \subseteq R[x]
    BY <1>1, <1>3, <2>2 DEF With, Fit, Held
  <2> HIDE DEF tabs
  <2>4. /\ Shape(p) /\ p.active = page.active /\ p.text = page.text /\ p.tabs = tabs
        /\ p.puts = page.puts /\ p.acks = page.acks /\ p.stream = page.stream
        /\ p.diff = page.diff /\ p.anim = page.anim /\ p.stash = page.stash
    BY <1>1 DEF Shape, Fields
  <2> HIDE DEF p
  <2>5. Good(p)
    BY <1>1, <2>2, <2>3, <2>4 DEF Good, DiffOf, TempOf
  <2>6. Fit(p, R, server.known)
    BY <1>1, <2>2, <2>3, <2>4 DEF Fit, Held, Calm, Ids
  <2>7. Fit(page', R, server.known)
    BY <1>1, <2>1, <2>4, <2>5, <2>6, VersionsKeep, VersionsFit, EditKeeps, SwitchFits
  <2> QED BY <1>1, <2>1, <2>7, UserStep
<1>6. CASE Compared(w)
  <2>1. /\ page' \in {page,
                     EnterDiffMode(page, Between(w.doc, TRUE, server.prev[w.doc], w.text))}
        /\ UNCHANGED <<server, agent, ghost>> /\ waits' \subseteq waits /\ w.what = "compare"
    BY <1>6 DEF Compared
  <2>2. /\ R = Everything /\ w.doc \in Ids
        /\ server.prev[w.doc] \subseteq R[w.doc] /\ w.text \subseteq R[w.doc]
    BY <1>1, <1>2, <1>3, <1>4, <2>1 DEF Fit, Held, Ids
  <2> DEFINE q == EnterDiffMode(page, Between(w.doc, TRUE, server.prev[w.doc], w.text))
  <2>3. Fit(q, R, server.known)
    <3>1. w.doc \in Ids \cup {None} /\ TRUE \in BOOLEAN /\ DiffOf(page)
      BY <1>1, <2>2 DEF Good
    <3> QED BY <1>1, <2>2, <3>1, EnterFits
  <2>4. page' \in {page, q}
    BY <2>1
  <2> HIDE DEF q
  <2>5. Fit(page', R, server.known)
    BY <1>1, <2>3, <2>4
  <2> QED BY <1>1, <2>1, <2>5, UserStep
<1>7. CASE Previewed(w)
  <2>1. PICK text \in {server.text[w.doc], server.prev[w.doc]} :
          /\ page' = IF page.open THEN [page EXCEPT !.text = text] ELSE page
          /\ UNCHANGED <<server, agent, ghost>> /\ waits' \subseteq waits /\ w.what = "preview"
    BY <1>7 DEF Previewed
  <2>2. R = Everything /\ text \subseteq R[page.active]
    BY <1>1, <1>2, <1>3, <1>4, <2>1 DEF Fit, Held
  <2> DEFINE q == [page EXCEPT !.text = text]
  <2>3. /\ q.active = page.active /\ q.text = text /\ q.tabs = page.tabs
        /\ q.puts = page.puts /\ q.acks = page.acks /\ q.stream = page.stream
        /\ q.diff = page.diff /\ q.anim = page.anim /\ q.stash = page.stash
    BY <1>1 DEF Shape, Fields
  <2>4. page' = page \/ page' = q
    BY <2>1
  <2> HIDE DEF q
  <2>5. Fit(q, R, server.known)
    BY <1>1, <2>2, <2>3 DEF Fit, Held
  <2> QED BY <1>1, <2>1, <2>4, <2>5, UserStep
<1>8. CASE Restored(w)
  <2> DEFINE text == server.prev[w.doc]
             shown == IF page.open THEN text ELSE page.text
             tabs == IF page.active \in DOMAIN page.tabs
                     THEN [page.tabs EXCEPT ![page.active] = text] ELSE page.tabs
             q == [page EXCEPT !.text = shown, !.stash = NoStash, !.tabs = tabs]
  <2>1. /\ page' = q /\ server' = Write(server, w.doc, text)
        /\ UNCHANGED <<agent, ghost>> /\ waits' \subseteq waits /\ w.what = "restore"
    BY <1>1, <1>8 DEF Restored, Shape, Fields
  <2>2. /\ R = Everything /\ w.doc \in Docs /\ text \subseteq R[w.doc] /\ text \subseteq Marks
        /\ shown \subseteq R[page.active]
    BY <1>1, <1>2, <1>3, <1>4, <2>1 DEF Fit, Held
  <2>3. DOMAIN tabs = DOMAIN page.tabs /\ \A x \in DOMAIN tabs : tabs[x] \subseteq R[x]
    BY <1>1, <1>4, <2>2 DEF Fit, Held
  <2> HIDE DEF shown, tabs
  <2>4. /\ q.active = page.active /\ q.text = shown /\ q.tabs = tabs
        /\ q.puts = page.puts /\ q.acks = page.acks /\ q.stream = page.stream
        /\ q.diff = page.diff /\ q.anim = page.anim /\ q.stash = NoStash
    BY <1>1 DEF Shape, Fields
  <2> HIDE DEF q
  <2>5. Fit(q, R, server.known)
    BY <1>1, <2>2, <2>3, <2>4 DEF Fit, Held, NoStash
  <2> HIDE DEF text
  <2>6. ServerText(R)' /\ server'.known = server.known
    BY <1>1, <2>1, <2>2, WriteKeeps DEF ServerText
  <2>7. Fit(page, R, server.known)' /\ AgentText(R)' /\ WaitsText' /\ GhostInv'
    BY <1>1, <2>1, <2>5, <2>6 DEF Kept, AgentText, WaitsText, GhostInv, Fit, Held, Calm
  <2> QED BY <2>2, <2>6, <2>7 DEF Kept
<1>9. CASE ConfirmDelete(w)
  <2>1. /\ UNCHANGED <<page, agent>> /\ \E confirmed : ghost' = [ghost EXCEPT !.confirmed = confirmed]
        /\ server'.text = server.text /\ server'.prev = server.prev
        /\ server'.known = server.known /\ server'.gone \subseteq Docs
        /\ \A x \in waits' : x \in waits \/ x.what = "deleted"
    <3>1. UNCHANGED <<page, agent>> /\ \E confirmed : ghost' = [ghost EXCEPT !.confirmed = confirmed]
      BY <1>9 DEF ConfirmDelete
    <3>2. /\ server'.text = server.text /\ server'.prev = server.prev
          /\ server'.known = server.known /\ server'.gone \subseteq Docs
      <4>1. CASE page.active \in server.known
        <5>1. server' = [server EXCEPT !.gone = @ \cup {page.active}]
          BY <1>9, <4>1 DEF ConfirmDelete
        <5> QED BY <1>1, <4>1, <5>1 DEF IndInv, ServerInv
      <4>2. CASE page.active \notin server.known
        BY <1>1, <1>9, <4>2 DEF ConfirmDelete
      <4> QED BY <4>1, <4>2
    <3>3. \A x \in waits' : x \in waits \/ x.what = "deleted"
      BY <1>9 DEF ConfirmDelete
    <3> QED BY <3>1, <3>2, <3>3
  <2>2. Spending
    BY <1>1, <2>1 DEF Spending, GhostInv
  <2>3. \A x \in waits' : x \in waits \/ Asked(x, R)
    BY <2>1 DEF Asked
  <2> QED BY <1>1, <2>1, <2>2, <2>3, UserStep
<1>10. CASE Deleted(w)
  <2> DEFINE tabs == Without(page.tabs, {page.active})
             q == [page EXCEPT !.tabs = tabs]
             r == [q EXCEPT !.active = None]
  <2>1. /\ \/ page' = ClosePanel(r, FALSE)
           \/ \E e \in DOMAIN q.tabs : page' = SwitchToDoc(q, e)
        /\ UNCHANGED <<server, agent, ghost>> /\ waits' \subseteq waits
    BY <1>1, <1>10 DEF Deleted, Shape, Fields
  <2>2. DOMAIN tabs \subseteq DOMAIN page.tabs /\ \A x \in DOMAIN tabs : tabs[x] = page.tabs[x]
    BY DEF Without, Restrict
  <2> HIDE DEF tabs
  <2>3. /\ Shape(q) /\ q.active = page.active /\ q.text = page.text /\ q.tabs = tabs
        /\ q.puts = page.puts /\ q.acks = page.acks /\ q.stream = page.stream
        /\ q.diff = page.diff /\ q.anim = page.anim /\ q.stash = page.stash
    BY <1>1 DEF Shape, Fields
  <2> HIDE DEF q
  <2>4. Good(q) /\ Fit(q, R, server.known)
    BY <1>1, <2>2, <2>3 DEF Good, DiffOf, TempOf, Fit, Held, Calm
  <2>5. /\ Shape(r) /\ r.active = None /\ r.text = q.text /\ r.tabs = q.tabs /\ r.puts = q.puts
        /\ r.acks = q.acks /\ r.stream = q.stream /\ r.diff = q.diff
        /\ r.anim = q.anim /\ r.stash = q.stash
    BY <2>3 DEF Shape, Fields
  <2> HIDE DEF r
  <2>6. Fit(r, R, server.known)
    BY <1>1, <2>4, <2>5 DEF Fit, Held, Calm, Rule
  <2>7. Fit(page', R, server.known)
    BY <1>1, <2>1, <2>4, <2>5, <2>6, CloseFits, SwitchFits
  <2> QED BY <1>1, <2>1, <2>7, UserStep
<1>11. CASE SessionLoaded(w)
  <2> DEFINE listed == server.known \ server.gone
             tabs == [d \in DOMAIN page.tabs \cup listed |->
                        IF d \in DOMAIN page.tabs THEN page.tabs[d] ELSE server.text[d]]
             p == [page EXCEPT !.tabs = tabs]
             o == OpenPanel(page)
             q == [o EXCEPT !.active = None, !.text = {}]
  <2>1. /\ page' = q \/ \E d \in listed : page' = SwitchToDoc(OpenPanel(p), d)
        /\ UNCHANGED <<server, agent, ghost>> /\ waits' \subseteq waits
    BY <1>1, <1>11 DEF SessionLoaded, Shape, Fields
  <2>2. /\ DOMAIN tabs = DOMAIN page.tabs \cup listed /\ listed \subseteq Docs
        /\ listed \subseteq server.known
        /\ \A x \in DOMAIN tabs : tabs[x] \subseteq R[x]
    <3>1. listed \subseteq Docs /\ listed \subseteq server.known
      BY <1>1
    <3> HIDE DEF listed
    <3>2. \A x \in DOMAIN page.tabs : page.tabs[x] \subseteq R[x]
      BY <1>1 DEF Fit, Held
    <3> QED BY <1>3, <3>1, <3>2
  <2> HIDE DEF tabs, listed
  <2>3. /\ Shape(p) /\ p.active = page.active /\ p.text = page.text /\ p.tabs = tabs
        /\ p.puts = page.puts /\ p.acks = page.acks /\ p.stream = page.stream
        /\ p.diff = page.diff /\ p.anim = page.anim /\ p.stash = page.stash
    BY <1>1 DEF Shape, Fields
  <2> HIDE DEF p
  <2>4. Good(p)
    BY <1>1, <2>2, <2>3, DocumentEditorAssumption DEF Good, DiffOf, TempOf
  <2>5. Fit(p, R, server.known)
    BY <1>1, <2>2, <2>3 DEF Fit, Held, Calm, Ids
  <2>6. Fit(o, R, server.known) /\ Same(page, o)
    BY <1>1, VersionsKeep, VersionsFit
  <2> HIDE DEF o
  <2>7. /\ q.active = None /\ q.text = {} /\ q.tabs = o.tabs /\ q.puts = o.puts
        /\ q.acks = o.acks /\ q.stream = o.stream /\ q.diff = o.diff
        /\ q.anim = o.anim /\ q.stash = o.stash
    BY <2>6 DEF Same, Alike, Shape, Fields
  <2> HIDE DEF q
  <2>8. Fit(q, R, server.known)
    BY <2>6, <2>7 DEF Fit, Held, Calm
  <2>9. Good(OpenPanel(p)) /\ Fit(OpenPanel(p), R, server.known)
    BY <1>1, <2>3, <2>4, <2>5, VersionsKeep, VersionsFit, EditKeeps
  <2>10. Fit(page', R, server.known)
    BY <1>1, <2>1, <2>8, <2>9, SwitchFits
  <2> QED BY <1>1, <2>1, <2>10, UserStep
<1> QED BY <1>5, <1>6, <1>7, <1>8, <1>9, <1>10, <1>11

\* Leaving and coming back: what a stream had written meanwhile goes where the
\* stream goes.
LEMMA ChatsKeep ==
  ASSUME IndInv, NEW R \in {Everything, OwnOnly}, Kept(R), Chats \/ AskDelete
  PROVE  Kept(R)'
<1>1. /\ Rule(R) /\ Good(page) /\ Shape(page) /\ Fit(page, R, server.known) /\ GhostInv
      /\ server.gone \subseteq Docs /\ ServerText(R) /\ AgentText(R) /\ AgentInv
  BY Rules DEF IndInv, Good, Kept, ServerText
<1>2. /\ R # Everything => Quiet
      /\ {"leaves", "deletes"} \subseteq Spendable
  BY DEF Kept, Spendable
<1>3. R # Everything => \A i \in DOMAIN agent.events : agent.events[i].doc \in server.known
  BY <1>2 DEF Quiet, Range
<1>4. CASE Leave
  <2> DEFINE c == CloseVersionPanel(page)
             p == ClosePanel(c, FALSE)
             q == [p EXCEPT !.docked = None]
  <2>1. /\ page' = q /\ UNCHANGED <<server, waits>> /\ Can("leaves") /\ ghost' = Spent("leaves")
        /\ agent' = [agent EXCEPT !.bg = agent.running, !.replayed = FALSE]
    BY <1>4 DEF Leave
  <2>2. Good(c) /\ Shape(c) /\ Fit(c, R, server.known)
    BY <1>1, VersionsKeep, VersionsFit, EditKeeps DEF Good
  <2> HIDE DEF c
  <2>3. Shape(p) /\ Fit(p, R, server.known)
    BY <1>1, <2>2, CloseKeeps, CloseFits DEF Good
  <2> HIDE DEF p
  <2>4. /\ q.active = p.active /\ q.text = p.text /\ q.tabs = p.tabs /\ q.puts = p.puts
        /\ q.acks = p.acks /\ q.stream = p.stream /\ q.diff = p.diff
        /\ q.anim = p.anim /\ q.stash = p.stash
    BY <2>3 DEF Shape, Fields
  <2> HIDE DEF q
  <2>5. Fit(page', R, server'.known)
    BY <2>1, <2>3, <2>4 DEF Fit, Held, Calm
  <2>6. /\ agent'.call = agent.call /\ agent'.events = agent.events /\ agent'.entry = agent.entry
    BY <1>1, <2>1 DEF AgentInv
  <2>7. AgentText(R)' /\ ServerText(R)'
    BY <1>1, <2>1, <2>6 DEF AgentText, ServerText
  <2>8. R # Everything => Attended
    BY <1>2, <2>1, <2>6 DEF Quiet, Attended, Can
  <2>9. Spending
    BY <1>1, <1>2, <2>1, Spends
  <2> QED BY <1>3, <2>1, <2>5, <2>6, <2>7, <2>8, <2>9, RunStep
<1>5. CASE Return
  <2> DEFINE q == [page EXCEPT !.active = None]
             w == [what |-> "session"]
  <2>1. /\ page' = q /\ UNCHANGED <<server, agent, ghost>> /\ waits' = waits \cup {w}
    BY <1>5 DEF Return
  <2>2. /\ q.active = None /\ q.text = page.text /\ q.tabs = page.tabs
        /\ q.puts = page.puts /\ q.acks = page.acks /\ q.stream = page.stream
        /\ q.diff = page.diff /\ q.anim = page.anim /\ q.stash = page.stash
    BY <1>1 DEF Shape, Fields
  <2> HIDE DEF q
  <2>3. Fit(q, R, server.known)
    BY <1>1, <2>2 DEF Fit, Held, Calm, Rule
  <2>4. Asked(w, R)
    BY DEF Asked
  <2> HIDE DEF w
  <2> QED BY <1>1, <2>1, <2>3, <2>4, UserStep, SpendsNothing
<1>6. CASE Replay
  <2> DEFINE p == StreamDocOpen(page, agent.entry.doc, NextTemp)
             used == ghost.used \cup {NextTemp}
  <2>1. /\ agent.bg /\ agent' = [agent EXCEPT !.replayed = TRUE] /\ UNCHANGED <<server, waits>>
        /\ \/ UNCHANGED <<page, ghost>>
           \/ /\ agent.entry.opened /\ Temps # ghost.used
              /\ page' = IF agent.entry.text = {} THEN p ELSE StreamDocDelta(p, agent.entry.text)
              /\ ghost' = [ghost EXCEPT !.used = used]
    BY <1>6 DEF Replay
  <2>2. agent'.call = agent.call /\ agent'.events = agent.events /\ agent'.entry = agent.entry
        /\ agent'.bg = agent.bg
    BY <1>1, <2>1 DEF AgentInv
  <2>3. AgentText(R)' /\ ServerText(R)'
    BY <1>1, <2>1, <2>2 DEF AgentText, ServerText
  <2>4. R # Everything => Attended
    BY <1>2, <2>2 DEF Quiet, Attended
  <2>5. CASE UNCHANGED <<page, ghost>>
    BY <1>1, <1>3, <2>1, <2>2, <2>3, <2>4, <2>5, RunStep, SpendsNothing
  <2>6. CASE /\ agent.entry.opened /\ Temps # ghost.used
             /\ page' = IF agent.entry.text = {} THEN p ELSE StreamDocDelta(p, agent.entry.text)
             /\ ghost' = [ghost EXCEPT !.used = used]
    <3>1. R = Everything
      BY <1>2, <2>1, <2>6 DEF Quiet, NoCall
    <3>2. NextTemp \in Temps /\ used \subseteq Temps
      BY <1>1, <2>6 DEF NextTemp, GhostInv
    <3> HIDE DEF used
    <3>3. Good(p) /\ Fit(p, R, server.known)
      BY <1>1, <3>1, <3>2, StreamKeeps, StreamFits
    <3> HIDE DEF p
    <3>4. Fit(page', R, server'.known)
      BY <1>1, <2>1, <2>6, <3>3, DeltaFits DEF Good, AgentText
    <3>5. Spending
      BY <1>1, <2>6, <3>2 DEF Spending, GhostInv
    <3> QED BY <2>1, <2>2, <2>3, <3>1, <3>4, <3>5, RunStep
  <2> QED BY <2>1, <2>5, <2>6
<1>7. CASE Poll
  <2>1. page' = StreamDocDelta(page, agent.entry.text) /\ UNCHANGED <<server, agent, waits, ghost>>
    BY <1>7 DEF Poll
  <2>2. Fit(page', R, server.known)
    BY <1>1, <2>1, DeltaFits DEF AgentText
  <2> QED BY <1>1, <2>1, <2>2, PageStep, SpendsNothing
<1>8. CASE AskDelete
  <2> DEFINE w == [what |-> "confirm", doc |-> page.active]
  <2>1. /\ waits' = waits \cup {w} /\ UNCHANGED <<page, server, agent>>
        /\ Can("deletes") /\ ghost' = Spent("deletes")
    BY <1>8 DEF AskDelete
  <2>2. Asked(w, R)
    BY DEF Asked
  <2> HIDE DEF w
  <2>3. Spending
    BY <1>1, <1>2, <2>1, Spends
  <2> QED BY <1>1, <2>1, <2>2, <2>3, UserStep
<1> QED BY <1>4, <1>5, <1>6, <1>7, <1>8 DEF Chats

\* A rule that holds of the texts goes on holding: that a text is made of marks,
\* and, where the agent is attended and nothing is compared, that it is made of
\* its own document's.
LEMMA KeptStep ==
  ASSUME IndInv, NEW R \in {Everything, OwnOnly}, Kept(R), [Next]_vars
  PROVE  Kept(R)'
<1>1. CASE UNCHANGED vars
  <2>1. UNCHANGED <<page, server, agent, waits, ghost>>
    BY <1>1 DEF vars
  <2>2. Fit(page', R, server.known) /\ Spending
    BY <2>1, SpendsNothing DEF Kept
  <2> QED BY <2>1, <2>2, PageStep
<1>2. CASE Next
  BY <1>2, TabsKeep, RequestsKeep, AgentKeeps, ReviewKeeps, AnswersKeep, ChatsKeep DEF Next
<1> QED BY <1>1, <1>2

\* The types of the page and of the server, whatever the budgets allow.
THEOREM TypeCorrect == Spec => []TypeOK
<1>1. Init => Kept(Everything)
  BY KeptInit
<1>2. IndInv /\ Kept(Everything) /\ [Next]_vars => Kept(Everything)'
  BY KeptStep
<1>3. IndInv /\ Kept(Everything) => TypeOK
  <2>1. \A id \in Ids : Everything[id] \subseteq Marks
    BY DEF Everything
  <2> SUFFICES ASSUME IndInv, Kept(Everything) PROVE TypeOK
    OBVIOUS
  <2>2. page.text \subseteq Marks
    BY Free DEF Kept, Fit, Held
  <2> QED BY <2>1, <2>2 DEF Kept, Fit, Held, ServerText, IndInv, ServerInv, TypeOK
<1> QED BY <1>1, <1>2, <1>3, Inductive, PTL DEF Spec

\* However many documents are typed in, switched, closed, minimised, deleted,
\* streamed, edited and saved, and in whatever order the requests and events
\* arrive, no text of one gets into another's tab, into a request that saves it,
\* or into what the server holds for it.  Each part of the premise is needed:
\* without it, a comparison, a version, an animation or a replayed stream ends
\* in whatever document is active when it arrives.
THEOREM NoTextStrays == Orderly => (Spec => []NoForeignContent)
<1> SUFFICES ASSUME Orderly PROVE Spec => []NoForeignContent
  OBVIOUS
<1>1. Init => Kept(OwnOnly)
  BY KeptInit
<1>2. IndInv /\ Kept(OwnOnly) /\ [Next]_vars => Kept(OwnOnly)'
  BY KeptStep
<1>3. Kept(OwnOnly) => NoForeignContent
  <2> SUFFICES ASSUME Kept(OwnOnly) PROVE NoForeignContent
    OBVIOUS
  <2>1. \A d \in Docs : \A text : text \subseteq OwnOnly[d] => Of(d, text)
    BY DEF OwnOnly, Of, Ids
  <2>2. \A d \in Docs : Of(d, server.text[d])
    BY <2>1 DEF Kept, ServerText
  <2>3. \A d \in Docs \cap DOMAIN page.tabs : Of(d, page.tabs[d])
    BY <2>1 DEF Kept, Fit, Held
  <2>4. \A i \in DOMAIN page.puts :
          page.puts[i].doc \in Docs => Of(page.puts[i].doc, page.puts[i].text)
    BY <2>1 DEF Kept, Fit, Held, Named
  <2> QED BY <2>2, <2>3, <2>4 DEF NoForeignContent
<1> QED BY <1>1, <1>2, <1>3, Inductive, PTL DEF Spec
=============================================================================
