--------------------------- MODULE ChatClientProofs ---------------------------
(***************************************************************************)
(* Proofs about ChatClient, for every set of chats, every cap on automatic *)
(* recoveries and every budget.                                            *)
(***************************************************************************)
EXTENDS ChatClient, TLAPS

\* What a reader that ends makes of the globals: it keeps their types, and pays
\* for the recovery it announces (_tryAutoRecover).
LEMMA CaughtKeeps ==
  ASSUME NEW u \in Globals, NEW n \in Turns, NEW c, NEW b, NEW a \in Nat,
         Balanced(u, a)
  PROVE  /\ Caught(u, n, c, b) \in Globals
         /\ Balanced(Caught(u, n, c, b), a)
<1> USE ChatClientAssumption DEF ChatClientAssumption, Globals, Balanced
<1>1. \A v \in Globals : /\ DrainQueuedAgentRequests(v) \in Globals
                         /\ DrainQueuedAgentRequests(v).hide = v.hide
                         /\ DrainQueuedAgentRequests(v).nudges = v.nudges
  BY DEF DrainQueuedAgentRequests
<1>2. \A v \in Globals : /\ Idle(v) \in Globals
                         /\ Idle(v).hide = v.hide /\ Idle(v).nudges = v.nudges
  BY DEF Idle
<1>3. CASE IsBg(n, c, b)
  BY <1>1, <1>3 DEF Caught
<1>4. CASE ~IsBg(n, c, b) /\ u.abort # NoTurn /\ u.aborted
  <2> DEFINE v == [u EXCEPT !.abort = NoTurn, !.aborted = FALSE]
  <2>1. v \in Globals /\ v.hide = u.hide /\ v.nudges = u.nudges
    OBVIOUS
  <2>2. Caught(u, n, c, b) = DrainQueuedAgentRequests(Idle(v))
    BY <1>4 DEF Caught, Cancelled
  <2> HIDE DEF v, Globals
  <2> QED BY <1>1, <1>2, <2>1, <2>2
<1>5. CASE ~IsBg(n, c, b) /\ ~(u.abort # NoTurn /\ u.aborted)
  <2> DEFINE v == TryAutoRecover(u, n)
  <2>1. v \in Globals /\ Balanced(v, a)
    <3>1. CASE u.nudges < Cap
      <4>1. v = [u EXCEPT !.nudges = @ + 1, !.hide = TRUE, !.recover = @ \cup {n}]
        BY <3>1 DEF TryAutoRecover
      <4> HIDE DEF v
      <4>2. u.nudges + 1 \in Nat /\ u.recover \cup {n} \in SUBSET Turns
        OBVIOUS
      <4>3. v \in Globals
        BY <4>1, <4>2, Zenon
      <4>4. v.hide = TRUE /\ v.nudges = u.nudges + 1
        BY <4>1
      <4> QED BY <3>1, <4>3, <4>4
    <3>2. CASE ~(u.nudges < Cap)
      BY <3>2 DEF TryAutoRecover
    <3> QED BY <3>1, <3>2
  <2>2. Caught(u, n, c, b) = DrainQueuedAgentRequests(Idle(v))
    BY <1>5 DEF Caught
  <2> HIDE DEF v, Globals
  <2> QED BY <1>1, <1>2, <2>1, <2>2
<1> QED BY <1>3, <1>4, <1>5

\* The same for an error that is only shown, and for a reader that returns.
LEMMA CaughtForGoodKeeps ==
  ASSUME NEW u \in Globals, NEW n \in Turns, NEW c, NEW b, NEW a \in Nat,
         Balanced(u, a)
  PROVE  /\ CaughtForGood(u, n, c, b) \in Globals
         /\ Balanced(CaughtForGood(u, n, c, b), a)
<1>1. \A v \in Globals : /\ DrainQueuedAgentRequests(v) \in Globals
                         /\ DrainQueuedAgentRequests(v).hide = v.hide
                         /\ DrainQueuedAgentRequests(v).nudges = v.nudges
  BY DEF DrainQueuedAgentRequests, Globals
<1>2. Idle(u) \in Globals /\ Idle(u).hide = u.hide /\ Idle(u).nudges = u.nudges
  BY DEF Idle, Globals
<1>3. CASE IsBg(n, c, b) \/ (u.abort # NoTurn /\ u.aborted)
  BY <1>3, CaughtKeeps DEF CaughtForGood
<1>4. CASE ~(IsBg(n, c, b) \/ (u.abort # NoTurn /\ u.aborted))
  <2>1. CaughtForGood(u, n, c, b) = DrainQueuedAgentRequests(Idle(u))
    BY <1>4 DEF CaughtForGood
  <2> QED BY <1>1, <1>2, <2>1 DEF Balanced
<1> QED BY <1>3, <1>4

LEMMA ReturnedKeeps ==
  ASSUME NEW u \in Globals, NEW n \in Turns, NEW a \in Nat, Balanced(u, a)
  PROVE  Returned(u, n) \in Globals /\ Balanced(Returned(u, n), a)
<1>1. \A v \in Globals : /\ DrainQueuedAgentRequests(v) \in Globals
                         /\ DrainQueuedAgentRequests(v).hide = v.hide
                         /\ DrainQueuedAgentRequests(v).nudges = v.nudges
  BY DEF DrainQueuedAgentRequests, Globals
<1>2. Idle(u) \in Globals /\ Idle(u).hide = u.hide /\ Idle(u).nudges = u.nudges
  BY DEF Idle, Globals
<1>3. CASE IsBg(n, cur, bg)
  BY <1>1, <1>3 DEF Returned, Balanced
<1>4. CASE ~IsBg(n, cur, bg)
  BY <1>1, <1>2, <1>4 DEF Returned, Balanced
<1> QED BY <1>3, <1>4

\* The same of the blocks that end no reader.
LEMMA BlocksKeep ==
  ASSUME NEW u \in Globals
  PROVE  /\ DrainQueuedAgentRequests(u) \in Globals
         /\ DrainQueuedAgentRequests(u).hide = u.hide
         /\ DrainQueuedAgentRequests(u).nudges = u.nudges
         /\ Idle(u) \in Globals /\ Idle(u).hide = u.hide /\ Idle(u).nudges = u.nudges
         /\ Aborted(u) \in Globals /\ Aborted(u).hide = u.hide
         /\ Aborted(u).nudges = u.nudges /\ Aborted(u).abort = u.abort
BY DEF Globals, DrainQueuedAgentRequests, Idle, Aborted

\* What it makes of the entries and the pulsing dots.
LEMMA CaughtMarksKeep ==
  ASSUME ReadersType, MarksType, NEW n \in Turns, NEW c, NEW b \in [Sessions -> Statuses]
  PROVE  /\ CaughtBg(n, c, b) \in [Sessions -> Statuses]
         /\ CaughtMarks(marked, n, c, b) \subseteq Sessions
BY DEF ReadersType, MarksType, CaughtBg, CaughtMarks, Statuses

\* The readers that an abort closes are turns, and closing them keeps the types.
LEMMA VictimsKeep ==
  ASSUME NEW u \in Globals, ReadersType
  PROVE  /\ Victims(u) \subseteq Turns
         /\ Victims(u) # {} => u.abort \in Turns
         /\ CloseAll(Victims(u)) \in [Turns -> Calls]
<1>1. Victims(u) \subseteq Turns /\ (Victims(u) # {} => u.abort \in Turns)
  BY DEF Globals, Victims
<1> QED BY <1>1 DEF ReadersType, CloseAll, Calls

\* A holder that leaves the history, as it is or as a reply.
LEMMA BoxKeeps ==
  ASSUME NEW x \in [sess : Sessions, live : SUBSET Turns, replies : SUBSET Turns],
         NEW n \in Turns
  PROVE  /\ [x EXCEPT !.live = @ \ {n}]
              \in [sess : Sessions, live : SUBSET Turns, replies : SUBSET Turns]
         /\ [x EXCEPT !.live = @ \ {n}, !.replies = @ \cup {n}]
              \in [sess : Sessions, live : SUBSET Turns, replies : SUBSET Turns]
<1>1. x.live \ {n} \in SUBSET Turns /\ x.replies \cup {n} \in SUBSET Turns
  OBVIOUS
<1> QED BY <1>1, Zenon

\* Paying from the budget touches nothing else.
LEMMA SpendKeeps ==
  \A y \in Ghosts : \A w \in Spendable :
    LET z == [y EXCEPT !.left[w] = @ - 1]
    IN  z \in Ghosts /\ z.unseen = y.unseen /\ z.automatic = y.automatic
BY DEF Ghosts

\* The POST of a call opens its turn or is refused, and costs neither a switch
\* nor a wait.
LEMMA PostedKeeps ==
  ASSUME ReadersType, ServerType, NEW n \in Turns, NEW c \in Calls, NEW g \in Ghosts,
         Posted(n, c, g)
  PROVE  /\ turn' = [turn EXCEPT ![n] = [c EXCEPT !.phase = "open"]]
            \/ turn' = [turn EXCEPT ![n] = [c EXCEPT !.phase = "refused"]]
         /\ run' = run \/ run' = [run EXCEPT ![c.sess] = n]
         /\ ghost' \in Ghosts
         /\ ghost'.unseen = g.unseen /\ ghost'.automatic = g.automatic
         /\ ghost'.left["selects"] = g.left["selects"]
         /\ ghost'.left["gaps"] = g.left["gaps"]
<1>1. CASE ghost' = g
  BY <1>1 DEF Posted
<1>2. CASE ghost' # g
  <2>1. ghost' = [g EXCEPT !.left["refusals"] = @ - 1]
    BY <1>2 DEF Posted
  <2>2. "refusals" \in Spendable /\ "selects" \in Spendable /\ "gaps" \in Spendable
    BY DEF Spendable
  <2>3. /\ ghost' \in Ghosts
        /\ ghost'.unseen = g.unseen /\ ghost'.automatic = g.automatic
    BY <2>1, <2>2, SpendKeeps
  <2>4. /\ ghost'.left["selects"] = g.left["selects"]
        /\ ghost'.left["gaps"] = g.left["gaps"]
    BY <2>1, <2>2 DEF Ghosts
  <2> QED BY <2>3, <2>4 DEF Posted
<1> QED BY <1>1, <1>2

\* What a send does, whether its POST leaves at once or waits, with a ghost g
\* that it changes by what it costs.
Sends(u, from, g, n, p) ==
  LET fresh == [u EXCEPT !.streaming = TRUE, !.session = cur, !.hide = FALSE,
                         !.nudges = NudgesAfterSend(u)]
  IN  /\ turn[n].phase = "unsent"
      /\ turn' = [turn EXCEPT ![n] = [sess |-> cur, typed |-> from, phase |-> p]]
      /\ run' = run \/ run' = [run EXCEPT ![cur] = n]
      /\ IF p = "preparing" THEN ui' = fresh /\ box' = box /\ Can("gaps")
                            ELSE ui' = Opened(fresh, n) /\ box' = OpenedBox(n)
      /\ ghost' \in Ghosts /\ ghost'.unseen = g.unseen \ {cur}
      /\ ghost'.automatic = IF u.hide THEN g.automatic ELSE 0
      /\ ghost'.left["selects"] = g.left["selects"]
      /\ ghost'.left["gaps"] \in {g.left["gaps"], g.left["gaps"] - 1}
      /\ completed' = completed \ {cur}
      /\ UNCHANGED <<switcher, bg, watchers, marked, saved, stops>>

LEMMA SendShape ==
  ASSUME IndInv, NEW u \in Globals, NEW from \in Sessions, NEW g \in Ghosts,
         Send(u, from, g)
  PROVE  \E n \in Turns, p \in {"open", "refused", "preparing"} : Sends(u, from, g, n, p)
<1> DEFINE call == [sess |-> cur, typed |-> from, phase |-> "preparing"]
           sent == [SentBy(u, g) EXCEPT !.left["turns"] = @ - 1]
           fresh == [u EXCEPT !.streaming = TRUE, !.session = cur, !.hide = FALSE,
                              !.nudges = NudgesAfterSend(u)]
<1>1. PICK n \in Turns :
        /\ turn[n].phase = "unsent"
        /\ \/ /\ Posted(n, call, sent)
              /\ ui' = Opened(fresh, n) /\ box' = OpenedBox(n)
           \/ /\ Can("gaps")
              /\ turn' = [turn EXCEPT ![n] = call]
              /\ ui' = fresh /\ UNCHANGED <<box, run>>
              /\ ghost' = [sent EXCEPT !.left["gaps"] = @ - 1]
        /\ completed' = completed \ {cur}
        /\ UNCHANGED <<switcher, bg, watchers, marked, saved, stops>>
  BY DEF Send
<1>2. /\ ReadersType /\ ServerType /\ cur \in Sessions /\ call \in Calls
  BY DEF IndInv, TypeOK, SwitcherType, Calls
<1>3. /\ sent \in Ghosts /\ sent.unseen = g.unseen \ {cur}
      /\ sent.automatic = IF u.hide THEN g.automatic ELSE 0
      /\ sent.left["selects"] = g.left["selects"] /\ sent.left["gaps"] = g.left["gaps"]
  <2> DEFINE x == SentBy(u, g)
  <2>1. /\ x \in Ghosts /\ x.unseen = g.unseen \ {cur} /\ x.left = g.left
        /\ x.automatic = IF u.hide THEN g.automatic ELSE 0
    BY DEF SentBy, Ghosts
  <2> DEFINE y == [x EXCEPT !.left["turns"] = @ - 1]
  <2>0. sent = y
    OBVIOUS
  <2> HIDE DEF x, sent
  <2>2. /\ y \in Ghosts /\ y.unseen = x.unseen /\ y.automatic = x.automatic
    BY <2>1, SpendKeeps DEF Spendable
  <2>3. y.left["selects"] = x.left["selects"] /\ y.left["gaps"] = x.left["gaps"]
    BY <2>1 DEF Ghosts, Spendable
  <2> HIDE DEF y
  <2> QED BY <2>0, <2>1, <2>2, <2>3
<1> HIDE DEF sent
<1>4. CASE Posted(n, call, sent) /\ ui' = Opened(fresh, n) /\ box' = OpenedBox(n)
  <2>1. /\ ghost' \in Ghosts
        /\ ghost'.unseen = sent.unseen /\ ghost'.automatic = sent.automatic
        /\ ghost'.left["selects"] = sent.left["selects"]
        /\ ghost'.left["gaps"] = sent.left["gaps"]
        /\ run' = run \/ run' = [run EXCEPT ![cur] = n]
        /\ \/ turn' = [turn EXCEPT ![n] = [call EXCEPT !.phase = "open"]]
           \/ turn' = [turn EXCEPT ![n] = [call EXCEPT !.phase = "refused"]]
    <3> HIDE DEF call
    <3>1. call.sess = cur
      BY DEF call
    <3> QED BY <1>2, <1>3, <1>4, <3>1, PostedKeeps
  <2>2. PICK p \in {"open", "refused"} :
          turn' = [turn EXCEPT ![n] = [sess |-> cur, typed |-> from, phase |-> p]]
    BY <2>1
  <2>3. Sends(u, from, g, n, p)
    BY <1>1, <1>3, <1>4, <2>1, <2>2 DEF Sends
  <2> QED BY <2>3
<1>5. CASE /\ Can("gaps") /\ turn' = [turn EXCEPT ![n] = call]
           /\ ui' = fresh /\ UNCHANGED <<box, run>>
           /\ ghost' = [sent EXCEPT !.left["gaps"] = @ - 1]
  <2>1. /\ ghost' \in Ghosts
        /\ ghost'.unseen = sent.unseen /\ ghost'.automatic = sent.automatic
    BY <1>3, <1>5, SpendKeeps DEF Spendable
  <2>2. /\ ghost'.left["selects"] = sent.left["selects"]
        /\ ghost'.left["gaps"] = sent.left["gaps"] - 1
    BY <1>3, <1>5 DEF Ghosts, Spendable
  <2>3. Sends(u, from, g, n, "preparing")
    BY <1>1, <1>3, <1>5, <2>1, <2>2 DEF Sends
  <2> QED BY <2>3
<1> QED BY <1>1, <1>4, <1>5

\* A message goes out with the globals u and the ghost g, which still balance;
\* the recovery that fires brings its own automatic send to be counted.
LEMMA SendKeeps ==
  ASSUME IndInv, NEW u \in Globals, NEW from \in Sessions,
         NEW g \in Ghosts,
         g.unseen = ghost.unseen,
         Balanced(u, ghost.automatic),
         \/ g.automatic = ghost.automatic
         \/ g.automatic = ghost.automatic + 1 /\ (u.hide => g.automatic <= u.nudges),
         Send(u, from, g)
  PROVE  IndInv'
<1> USE ChatClientAssumption DEF ChatClientAssumption
<1>1. PICK n \in Turns, p \in {"open", "refused", "preparing"} : Sends(u, from, g, n, p)
  BY SendShape
<1>2. SwitcherType'
  BY <1>1 DEF Sends, IndInv, TypeOK, SwitcherType, switcher
<1>3. ReadersType'
  <2>1. turn' \in [Turns -> Calls]
    BY <1>1 DEF Sends, IndInv, TypeOK, ReadersType, SwitcherType, Calls
  <2>2. box' \in [sess : Sessions, live : SUBSET Turns, replies : SUBSET Turns]
    BY <1>1 DEF Sends, IndInv, TypeOK, ReadersType, OpenedBox
  <2> QED BY <1>1, <2>1, <2>2 DEF Sends, IndInv, TypeOK, ReadersType, watchers
<1>4. MarksType'
  BY <1>1 DEF Sends, IndInv, TypeOK, MarksType, watchers
<1>5. ServerType'
  BY <1>1 DEF Sends, IndInv, TypeOK, ServerType, SwitcherType
<1>6. /\ ui' \in Globals /\ ui'.hide = FALSE
      /\ ui'.nudges = IF u.hide THEN u.nudges ELSE 0
  <2> DEFINE k == IF u.hide THEN u.nudges ELSE 0
             fresh == [u EXCEPT !.streaming = TRUE, !.session = cur, !.hide = FALSE,
                                !.nudges = NudgesAfterSend(u)]
  <2>1. NudgesAfterSend(u) = k
    BY DEF NudgesAfterSend
  <2>2. k \in Nat /\ cur \in Sessions \cup {NoSession}
    BY DEF Globals, IndInv, TypeOK, SwitcherType
  <2>3. \/ ui' = [fresh EXCEPT !.abort = n, !.aborted = FALSE]
        \/ ui' = fresh
    BY <1>1 DEF Sends, Opened
  <2> HIDE DEF k
  <2>4. fresh \in Globals
    BY <2>1, <2>2, Zenon DEF Globals
  <2>5. fresh.hide = FALSE /\ fresh.nudges = k
    BY <2>1 DEF Globals
  <2> HIDE DEF fresh
  <2>6. ui' \in Globals /\ ui'.hide = fresh.hide /\ ui'.nudges = fresh.nudges
    BY <2>3, <2>4 DEF Globals
  <2> QED BY <2>5, <2>6 DEF k
<1>7. /\ ghost' \in Ghosts /\ ghost'.unseen = g.unseen \ {cur}
      /\ ghost'.automatic = IF u.hide THEN g.automatic ELSE 0
  BY <1>1 DEF Sends
<1>8. UnseenIsMarked'
  BY <1>1, <1>7 DEF Sends, IndInv, UnseenIsMarked
<1>9. Balanced(ui, ghost.automatic)'
  BY <1>6, <1>7 DEF Balanced, IndInv, TypeOK, Ghosts, Globals
<1> QED BY <1>2, <1>3, <1>4, <1>5, <1>6, <1>7, <1>8, <1>9 DEF IndInv, TypeOK

\* A stop, the reader it aborts included.
LEMMA StopKeeps ==
  ASSUME IndInv, NEW u \in Globals, Balanced(u, ghost.automatic),
         NEW g \in Ghosts, g.unseen = ghost.unseen, g.automatic = ghost.automatic,
         StopStreaming(u, g)
  PROVE  IndInv'
<1> DEFINE hit == Victims(u)
<1>1. PICK idle \in {Idle(Aborted(u)), DrainQueuedAgentRequests(Idle(Aborted(u)))} :
        /\ stops' = stops \cup {u.session}
        /\ turn' = CloseAll(hit)
        /\ ui' = IF hit = {} THEN idle ELSE Caught(idle, u.abort, cur, bg)
        /\ bg' = IF hit = {} THEN bg ELSE CaughtBg(u.abort, cur, bg)
        /\ marked' = IF hit = {} THEN marked ELSE CaughtMarks(marked, u.abort, cur, bg)
        /\ ghost' = g
        /\ UNCHANGED <<switcher, box, watchers, completed, run, saved>>
  BY DEF StopStreaming
<1>2. idle \in Globals /\ Balanced(idle, ghost.automatic)
  <2>1. Aborted(u) \in Globals /\ Idle(Aborted(u)) \in Globals
    BY BlocksKeep
  <2>2. /\ idle \in Globals /\ idle.hide = Idle(Aborted(u)).hide
        /\ idle.nudges = Idle(Aborted(u)).nudges
    BY <2>1, BlocksKeep
  <2>3. idle.hide = u.hide /\ idle.nudges = u.nudges
    BY <2>1, <2>2, BlocksKeep
  <2> QED BY <2>2, <2>3 DEF Balanced
<1>3. ghost.automatic \in Nat
  BY DEF IndInv, TypeOK, Ghosts
<1>4. hit # {} => u.abort \in Turns
  BY VictimsKeep DEF IndInv, TypeOK
<1>5. ui' \in Globals /\ Balanced(ui', ghost.automatic)
  BY <1>1, <1>2, <1>3, <1>4, CaughtKeeps
<1>6. SwitcherType'
  BY <1>1 DEF IndInv, TypeOK, SwitcherType, switcher
<1>7. ReadersType'
  <2>1. turn' \in [Turns -> Calls]
    BY <1>1, VictimsKeep DEF IndInv, TypeOK
  <2> QED BY <1>1, <2>1 DEF IndInv, TypeOK, ReadersType, watchers
<1>8. MarksType'
  <2>1. bg' \in [Sessions -> Statuses] /\ marked' \subseteq Sessions
    BY <1>1, <1>4, CaughtMarksKeep DEF IndInv, TypeOK, MarksType
  <2> QED BY <1>1, <2>1 DEF IndInv, TypeOK, MarksType, watchers
<1>9. ServerType'
  BY <1>1 DEF IndInv, TypeOK, ServerType, Globals
<1>10. UnseenIsMarked'
  BY <1>1 DEF IndInv, UnseenIsMarked
<1> QED BY <1>1, <1>5, <1>6, <1>7, <1>8, <1>9, <1>10 DEF IndInv, TypeOK

\* A change of chat, the detaching or aborting of the open one's stream included.
LEMMA SelectKeeps ==
  ASSUME IndInv, NEW s \in Sessions, NEW b \in [Sessions -> Statuses],
         SelectSession(s, b)
  PROVE  /\ SwitcherType'
         /\ ui' \in Globals /\ Balanced(ui', ghost.automatic)
         /\ turn' \in [Turns -> Calls]
         /\ bg' \in [Sessions -> Statuses] /\ marked' \subseteq Sessions
<1> DEFINE detaches == ui.streaming /\ ui.abort # NoTurn
           hit == Victims(ui)
<1>1. SwitcherType'
  BY DEF SelectSession, IndInv, TypeOK, SwitcherType, Loads
<1>2. /\ ghost.automatic \in Nat /\ ui \in Globals /\ Balanced(ui, ghost.automatic)
      /\ ReadersType /\ MarksType /\ cur \in Sessions
  BY DEF IndInv, TypeOK, Ghosts, SwitcherType
<1>3. CASE detaches
  <2>1. /\ ui' = Detached(ui) /\ bg' = [b EXCEPT ![cur] = "running"]
        /\ marked' = marked \cup {cur} /\ turn' = turn
    BY <1>3 DEF SelectSession
  <2>2. Detached(ui) \in Globals /\ Detached(ui).hide = ui.hide /\ Detached(ui).nudges = ui.nudges
    <3> DEFINE v == [ui EXCEPT !.abort = NoTurn, !.aborted = FALSE]
    <3>1. v \in Globals /\ v.hide = ui.hide /\ v.nudges = ui.nudges
      BY <1>2 DEF Globals
    <3>2. Detached(ui) = Idle(v)
      BY DEF Detached
    <3> HIDE DEF v
    <3> QED BY <3>1, <3>2, BlocksKeep
  <2>3. ui' \in Globals /\ Balanced(ui', ghost.automatic)
    BY <1>2, <2>1, <2>2 DEF Balanced
  <2>4. bg' \in [Sessions -> Statuses] /\ marked' \subseteq Sessions /\ turn' \in [Turns -> Calls]
    BY <1>2, <2>1 DEF Statuses, MarksType, ReadersType
  <2> QED BY <1>1, <2>3, <2>4
<1>4. CASE ~detaches /\ hit = {}
  <2>1. ui' = Aborted(ui) /\ bg' = b /\ marked' = marked /\ turn' = turn
    BY <1>4 DEF SelectSession
  <2>2. ui' \in Globals /\ Balanced(ui', ghost.automatic)
    BY <1>2, <2>1, BlocksKeep DEF Balanced
  <2> QED BY <1>1, <1>2, <2>1, <2>2 DEF MarksType, ReadersType
<1>5. CASE ~detaches /\ hit # {}
  <2>1. /\ ui' = Caught(Aborted(ui), ui.abort, s, b)
        /\ bg' = CaughtBg(ui.abort, s, b)
        /\ marked' = CaughtMarks(marked, ui.abort, s, b)
        /\ turn' = CloseAll(hit)
    BY <1>5 DEF SelectSession
  <2>2. ui.abort \in Turns /\ turn' \in [Turns -> Calls]
    BY <1>2, <1>5, <2>1, VictimsKeep
  <2>3. Aborted(ui) \in Globals /\ Balanced(Aborted(ui), ghost.automatic)
    BY <1>2, BlocksKeep DEF Balanced
  <2>4. ui' \in Globals /\ Balanced(ui', ghost.automatic)
    BY <1>2, <2>1, <2>2, <2>3, CaughtKeeps
  <2>5. bg' \in [Sessions -> Statuses] /\ marked' \subseteq Sessions
    BY <1>2, <2>1, <2>2, CaughtMarksKeep
  <2> QED BY <1>1, <2>2, <2>4, <2>5
<1> QED BY <1>3, <1>4, <1>5

\* The invariant holds at the start and every task of the page keeps it.
THEOREM Inductive == Spec => []IndInv
<1> USE ChatClientAssumption DEF ChatClientAssumption
<1>1. Init => IndInv
  <2> SUFFICES ASSUME Init PROVE IndInv
    OBVIOUS
  <2>1. PICK s \in Sessions, r \in Sessions, b \in Budgets :
          /\ cur = s /\ token = 0
          /\ loads = IF b.reloads > 0
                     THEN {[token |-> 0, sess |-> s, phase |-> "fetch", page |-> {}]}
                     ELSE {}
          /\ box = [sess |-> s, live |-> {}, replies |-> {}]
          /\ turn = [n \in Turns |->
                       IF b.reloads > 0 /\ n = 1
                       THEN [sess |-> r, typed |-> r, phase |-> "closed"]
                       ELSE [sess |-> s, typed |-> s, phase |-> "unsent"]]
          /\ ui = [streaming |-> FALSE, abort |-> NoTurn, aborted |-> FALSE,
                   session |-> NoSession, queue |-> <<>>, drain |-> FALSE,
                   promoted |-> <<>>, nudges |-> 0, hide |-> FALSE,
                   recover |-> {}, probe |-> NoSession]
          /\ bg = [t \in Sessions |-> "none"]
          /\ polls = {} /\ resuming = {} /\ checks = {} /\ waits = {}
          /\ completed = {} /\ marked = {}
          /\ run = [t \in Sessions |-> IF b.reloads > 0 /\ t = r THEN 1 ELSE NoTurn]
          /\ saved = {} /\ stops = {}
          /\ ghost = [left |-> b, unseen |-> {}, automatic |-> 0]
    BY ChatClientAssumption DEF Init
  <2>2. b \in [Spendable -> Int] /\ b.reloads \in 0 .. MaxTurns
    BY DEF Spendable
  <2>3. b.reloads > 0 => 1 \in Turns
    BY <2>2 DEF Turns
  <2>4. SwitcherType /\ ReadersType /\ MarksType /\ ServerType
    <3>1. SwitcherType /\ ReadersType
      BY <2>1 DEF SwitcherType, ReadersType, Loads, Calls
    <3>2. MarksType /\ ServerType
      BY <2>1, <2>3 DEF MarksType, ServerType, Statuses
    <3> QED BY <3>1, <3>2
  <2>5. ui \in Globals /\ Balanced(ui, 0)
    BY <2>1 DEF Globals, Balanced
  <2>6. ghost \in Ghosts /\ ghost.automatic = 0 /\ ghost.unseen = {}
    BY <2>1, <2>2 DEF Ghosts
  <2> QED BY <2>4, <2>5, <2>6 DEF IndInv, TypeOK, UnseenIsMarked
<1>2. IndInv /\ [Next]_vars => IndInv'
  <2> SUFFICES ASSUME IndInv, [Next]_vars PROVE IndInv'
    OBVIOUS
  <2>0. /\ ui \in Globals /\ ghost \in Ghosts /\ ghost.automatic \in Nat
        /\ Balanced(ui, ghost.automatic) /\ cur \in Sessions
        /\ SwitcherType /\ ReadersType /\ MarksType /\ ServerType /\ UnseenIsMarked
    BY DEF IndInv, TypeOK, Ghosts, SwitcherType
  <2> DEFINE Kept(what) == /\ Spent(what) \in Ghosts
                           /\ Spent(what).unseen = ghost.unseen
                           /\ Spent(what).automatic = ghost.automatic
  <2>00. \A what \in Spendable : Kept(what)
    BY <2>0, SpendKeeps DEF Spent
  <2> HIDE DEF Kept
  <2>1. CASE TypeAndSend
    <3>1. Send(ui, cur, Spent("typed"))
      BY <2>1 DEF TypeAndSend
    <3> QED BY <2>0, <2>00, <3>1, SendKeeps DEF Kept, Spendable
  <2>2. CASE ClickStop
    <3>1. StopStreaming(ui, Spent("stops"))
      BY <2>2 DEF ClickStop
    <3> QED BY <2>0, <2>00, <3>1, StopKeeps DEF Kept, Spendable
  <2>3. CASE QueueAgentRequest
    <3>1. ui' = [ui EXCEPT !.queue = Append(@, cur)] /\ ghost' = Spent("typed")
      BY <2>3 DEF QueueAgentRequest
    <3>2. Append(ui.queue, cur) \in Seq(Sessions)
      BY <2>0 DEF Globals
    <3>3. ui' \in Globals /\ ui'.hide = ui.hide /\ ui'.nudges = ui.nudges
      BY <2>0, <3>1, <3>2 DEF Globals
    <3>4. ghost' \in Ghosts /\ ghost'.unseen = ghost.unseen /\ ghost'.automatic = ghost.automatic
      BY <2>00, <3>1 DEF Kept, Spendable
    <3> QED BY <2>0, <2>3, <3>3, <3>4 DEF QueueAgentRequest, IndInv, TypeOK, Balanced,
          UnseenIsMarked, SwitcherType, ReadersType, MarksType, ServerType,
          switcher, watchers, sidebar, server
  <2>4. CASE DrainFires
    <3> DEFINE u == [ui EXCEPT !.drain = FALSE]
    <3>1. u \in Globals /\ u.hide = ui.hide /\ u.nudges = ui.nudges /\ u.queue = ui.queue
      BY <2>0 DEF Globals
    <3>2. CASE u.streaming \/ u.queue = <<>>
      <4>1. ui' = u /\ UNCHANGED <<switcher, box, turn, bg, watchers, sidebar, server, ghost>>
        BY <2>4, <3>2 DEF DrainFires
      <4> HIDE DEF u
      <4> QED BY <2>0, <3>1, <4>1 DEF IndInv, TypeOK, Balanced,
            UnseenIsMarked, SwitcherType, ReadersType, MarksType, ServerType,
            switcher, watchers, sidebar, server
    <3>3. CASE ~(u.streaming \/ u.queue = <<>>)
      <4> DEFINE v == [u EXCEPT !.queue = Tail(@)]
      <4>1. Send(v, Head(u.queue), ghost)
        BY <2>4, <3>3 DEF DrainFires
      <4> HIDE DEF u
      <4>2. u.queue \in Seq(Sessions) /\ u.queue # <<>>
        BY <3>1, <3>3 DEF Globals
      <4>3. Head(u.queue) \in Sessions /\ Tail(u.queue) \in Seq(Sessions)
        BY <4>2
      <4>4. v \in Globals /\ v.hide = u.hide /\ v.nudges = u.nudges
        BY <3>1, <4>3 DEF Globals
      <4> HIDE DEF v
      <4>5. Balanced(v, ghost.automatic)
        BY <2>0, <3>1, <4>4 DEF Balanced
      <4> QED BY <2>0, <4>1, <4>3, <4>4, <4>5, SendKeeps
    <3> QED BY <3>2, <3>3
  <2>5. CASE PromotedFires
    <3> DEFINE v == [ui EXCEPT !.promoted = <<>>]
    <3>1. Send(v, Head(ui.promoted), ghost) /\ ui.promoted # <<>>
      BY <2>5 DEF PromotedFires
    <3>2. v \in Globals /\ v.hide = ui.hide /\ v.nudges = ui.nudges
      <4>1. <<>> \in Seq(Sessions)
        OBVIOUS
      <4> QED BY <2>0, <4>1 DEF Globals
    <3>3. ui.promoted \in Seq(Sessions)
      BY <2>0 DEF Globals
    <3>4. Head(ui.promoted) \in Sessions
      BY <3>1, <3>3
    <3> HIDE DEF v
    <3>5. Balanced(v, ghost.automatic)
      BY <2>0, <3>2 DEF Balanced
    <3> QED BY <2>0, <3>1, <3>2, <3>4, <3>5, SendKeeps
  <2>6. CASE ProbeStarts
    <3>1. ui' \in Globals /\ ui'.hide = ui.hide /\ ui'.nudges = ui.nudges
      BY <2>0, <2>6 DEF ProbeStarts, Globals
    <3> QED BY <2>0, <2>6, <3>1 DEF ProbeStarts, IndInv, TypeOK, Balanced,
          UnseenIsMarked, SwitcherType, ReadersType, MarksType, ServerType,
          switcher, watchers, sidebar, server
  <2>7. CASE ProbeAnswers
    <3> DEFINE u == [ui EXCEPT !.probe = NoSession]
               hit == Victims(u)
    <3>1. u \in Globals /\ u.hide = ui.hide /\ u.nudges = ui.nudges
      BY <2>0 DEF Globals
    <3>2. /\ \/ ui' = u /\ UNCHANGED <<turn, bg, marked>>
             \/ /\ turn' = CloseAll(hit)
                /\ ui' = IF hit = {} THEN Unlocked(u) ELSE Caught(Unlocked(u), u.abort, cur, bg)
                /\ bg' = IF hit = {} THEN bg ELSE CaughtBg(u.abort, cur, bg)
                /\ marked' = IF hit = {} THEN marked
                             ELSE CaughtMarks(marked, u.abort, cur, bg)
          /\ UNCHANGED <<switcher, box, watchers, completed, server, ghost>>
      BY <2>7 DEF ProbeAnswers
    <3> HIDE DEF u
    <3>3. Unlocked(u) \in Globals /\ Balanced(Unlocked(u), ghost.automatic)
      <4>1. Aborted(u) \in Globals /\ Aborted(u).hide = u.hide /\ Aborted(u).nudges = u.nudges
        BY <3>1, BlocksKeep
      <4> DEFINE v == Idle(Aborted(u))
      <4>2. v \in Globals /\ v.hide = u.hide /\ v.nudges = u.nudges
        BY <4>1, BlocksKeep
      <4>3. Unlocked(u) = DrainQueuedAgentRequests(v)
        BY DEF Unlocked
      <4> HIDE DEF v
      <4> QED BY <2>0, <3>1, <4>2, <4>3, BlocksKeep DEF Balanced
    <3>4. /\ hit # {} => u.abort \in Turns
          /\ CloseAll(hit) \in [Turns -> Calls]
      BY <2>0, <3>1, VictimsKeep
    <3>5. ui' \in Globals /\ Balanced(ui', ghost.automatic)
      <4>1. CASE ui' = u
        BY <2>0, <3>1, <4>1 DEF Balanced
      <4>2. CASE ui' = Unlocked(u)
        BY <3>3, <4>2
      <4>3. CASE hit # {} /\ ui' = Caught(Unlocked(u), u.abort, cur, bg)
        BY <2>0, <3>3, <3>4, <4>3, CaughtKeeps
      <4> QED BY <3>2, <4>1, <4>2, <4>3
    <3>6. bg' \in [Sessions -> Statuses] /\ marked' \subseteq Sessions
      BY <2>0, <3>2, <3>4, CaughtMarksKeep DEF MarksType
    <3>7. turn' \in [Turns -> Calls]
      BY <2>0, <3>2, <3>4 DEF ReadersType
    <3> QED BY <2>0, <3>2, <3>5, <3>6, <3>7 DEF IndInv, TypeOK, Balanced,
          UnseenIsMarked, SwitcherType, ReadersType, MarksType, ServerType,
          switcher, watchers, sidebar, server
  <2>8. ASSUME NEW i \in 1 .. MaxTurns, PromoteQueuedRequest(i) PROVE IndInv'
    <3> DEFINE u == [ui EXCEPT !.queue = RemoveAt(@, i)]
    <3>1. /\ i \in DOMAIN ui.queue
          /\ \/ Send(u, ui.queue[i], Spent("promotes"))
             \/ StopStreaming([u EXCEPT !.promoted = <<ui.queue[i]>>], Spent("promotes"))
      BY <2>8 DEF PromoteQueuedRequest
    <3>2. ui.queue[i] \in Sessions /\ RemoveAt(ui.queue, i) \in Seq(Sessions)
      <4>1. ui.queue \in Seq(Sessions) /\ i \in 1 .. Len(ui.queue)
        BY <2>0, <3>1 DEF Globals
      <4>2. /\ SubSeq(ui.queue, 1, i - 1) \in Seq(Sessions)
            /\ SubSeq(ui.queue, i + 1, Len(ui.queue)) \in Seq(Sessions)
        BY <4>1
      <4> QED BY <4>1, <4>2 DEF RemoveAt
    <3>3. u \in Globals /\ u.hide = ui.hide /\ u.nudges = ui.nudges
      BY <2>0, <3>2 DEF Globals
    <3> HIDE DEF u
    <3> DEFINE v == [u EXCEPT !.promoted = <<ui.queue[i]>>]
    <3>4. v \in Globals /\ v.hide = ui.hide /\ v.nudges = ui.nudges
      <4>1. <<ui.queue[i]>> \in Seq(Sessions)
        BY <3>2
      <4> QED BY <3>3, <4>1 DEF Globals
    <3>5. CASE Send(u, ui.queue[i], Spent("promotes"))
      <4>1. Balanced(u, ghost.automatic)
        BY <2>0, <3>3 DEF Balanced
      <4> QED BY <2>00, <3>2, <3>3, <3>5, <4>1, SendKeeps DEF Kept, Spendable
    <3>6. CASE StopStreaming(v, Spent("promotes"))
      <4> HIDE DEF v
      <4>1. Balanced(v, ghost.automatic)
        BY <2>0, <3>4 DEF Balanced
      <4> QED BY <2>00, <3>4, <3>6, <4>1, StopKeeps DEF Kept, Spendable
    <3> QED BY <3>1, <3>5, <3>6
  <2>9. ASSUME NEW n \in Turns, Post(n) PROVE IndInv'
    <3>1. ui' \in Globals /\ ui'.hide = ui.hide /\ ui'.nudges = ui.nudges
      BY <2>0, <2>9 DEF Post, Opened, Globals
    <3>2. Posted(n, turn[n], ghost) /\ turn[n] \in Calls
      BY <2>0, <2>9 DEF Post, ReadersType
    <3>3. box' \in [sess : Sessions, live : SUBSET Turns, replies : SUBSET Turns]
      BY <2>0, <2>9 DEF Post, OpenedBox, ReadersType
    <3>4. /\ \/ turn' = [turn EXCEPT ![n] = [turn[n] EXCEPT !.phase = "open"]]
             \/ turn' = [turn EXCEPT ![n] = [turn[n] EXCEPT !.phase = "refused"]]
          /\ run' = run \/ run' = [run EXCEPT ![turn[n].sess] = n]
          /\ ghost' \in Ghosts
          /\ ghost'.unseen = ghost.unseen /\ ghost'.automatic = ghost.automatic
      BY <2>0, <3>2, PostedKeeps
    <3>5. turn' \in [Turns -> Calls]
      BY <2>0, <3>2, <3>4 DEF ReadersType, Calls
    <3>6. run' \in [Sessions -> Turns \cup {NoTurn}]
      BY <2>0, <3>4 DEF ServerType
    <3> QED BY <2>0, <2>9, <3>1, <3>3, <3>4, <3>5, <3>6 DEF Post, IndInv, TypeOK, Balanced,
          UnseenIsMarked, SwitcherType, ReadersType, MarksType, ServerType,
          switcher, watchers, sidebar, server
  <2>10. ASSUME NEW n \in Turns, RecoverFires(n) PROVE IndInv'
    <3> DEFINE u == [ui EXCEPT !.recover = @ \ {n}]
               g == [ghost EXCEPT !.automatic = @ + 1]
    <3>1. u \in Globals /\ u.hide = ui.hide /\ u.nudges = ui.nudges
      BY <2>0 DEF Globals
    <3>2. g \in Ghosts /\ g.unseen = ghost.unseen /\ g.automatic = ghost.automatic + 1
      BY <2>0 DEF Ghosts
    <3>3. \/ /\ ui' = [u EXCEPT !.hide = FALSE]
             /\ UNCHANGED <<switcher, box, turn, bg, watchers, sidebar, server, ghost>>
          \/ StopStreaming(u, ghost)
          \/ Send(u, cur, g)
      BY <2>10 DEF RecoverFires
    <3> HIDE DEF u, g
    <3>4. Balanced(u, ghost.automatic)
      BY <2>0, <3>1 DEF Balanced
    <3>5. CASE /\ ui' = [u EXCEPT !.hide = FALSE]
               /\ UNCHANGED <<switcher, box, turn, bg, watchers, sidebar, server, ghost>>
      <4>1. ui' \in Globals /\ ui'.hide = FALSE /\ ui'.nudges = u.nudges
        BY <3>1, <3>5 DEF Globals
      <4>2. Balanced(ui', ghost.automatic)
        BY <2>0, <3>1, <3>4, <4>1 DEF Balanced, Globals
      <4> QED BY <2>0, <3>5, <4>1, <4>2 DEF IndInv, TypeOK,
            UnseenIsMarked, SwitcherType, ReadersType, MarksType, ServerType,
            switcher, watchers, sidebar, server
    <3>6. CASE StopStreaming(u, ghost)
      BY <2>0, <3>1, <3>4, <3>6, StopKeeps
    <3>7. CASE Send(u, cur, g)
      <4>1. u.hide => g.automatic <= u.nudges
        BY <3>2, <3>4 DEF Balanced
      <4> QED BY <2>0, <3>1, <3>2, <3>4, <3>7, <4>1, SendKeeps
    <3> QED BY <3>3, <3>5, <3>6, <3>7
  <2>11. ASSUME NEW n \in Turns, ReadLine(n) PROVE IndInv'
    <3>1. turn[n].sess \in Sessions
      BY <2>0 DEF ReadersType, Calls
    <3>2. bg' \in [Sessions -> Statuses] /\ marked' \subseteq Sessions
      BY <2>0, <2>11, <3>1 DEF ReadLine, Entered, EnteredMarks, MarksType, Statuses
    <3> QED BY <2>0, <2>11, <3>2 DEF ReadLine, IndInv, TypeOK, Balanced,
          UnseenIsMarked, SwitcherType, ReadersType, MarksType, ServerType,
          switcher, watchers, sidebar, server
  <2>12. ASSUME NEW n \in Turns, ReadDone(n) PROVE IndInv'
    <3> DEFINE s == turn[n].sess
    <3>1. s \in Sessions
      BY <2>0 DEF ReadersType, Calls
    <3>2. Entered(n) \in [Sessions -> Statuses] /\ EnteredMarks(n) \subseteq Sessions
      BY <2>0, <3>1 DEF Entered, EnteredMarks, MarksType, Statuses
    <3>3. bg' \in [Sessions -> Statuses]
      BY <2>12, <3>1, <3>2 DEF ReadDone, Statuses
    <3>4. turn' \in [Turns -> Calls]
      BY <2>0, <2>12 DEF ReadDone, ReadersType, Calls
    <3>5. /\ completed' \subseteq Sessions /\ marked' \subseteq Sessions
          /\ ghost' \in Ghosts /\ ghost'.automatic = ghost.automatic
          /\ ghost'.unseen \subseteq completed'
      <4>1. CASE SeenInBackground(n)
        <5>1. /\ completed' = completed \cup {s} /\ marked' = EnteredMarks(n) \ {s}
              /\ ghost' = [ghost EXCEPT !.unseen = @ \cup {s}]
          BY <2>12, <4>1 DEF ReadDone, SeenInBackground, MarkStreamComplete
        <5> QED BY <2>0, <3>1, <3>2, <5>1 DEF MarksType, UnseenIsMarked, Ghosts
      <4>2. CASE ~SeenInBackground(n)
        <5>1. UNCHANGED <<completed, marked, ghost>>
          BY <2>12, <4>2 DEF ReadDone, sidebar
        <5> QED BY <2>0, <5>1 DEF MarksType, UnseenIsMarked
      <4> QED BY <4>1, <4>2
    <3> QED BY <2>0, <2>12, <3>3, <3>4, <3>5 DEF ReadDone, IndInv, TypeOK, Balanced,
          UnseenIsMarked, SwitcherType, ReadersType, MarksType, ServerType,
          switcher, watchers, sidebar, server
  <2>13. ASSUME NEW n \in Turns, ReadClose(n) PROVE IndInv'
    <3>1. turn' \in [Turns -> Calls]
      BY <2>0, <2>13 DEF ReadClose, ReadersType, Calls
    <3>2. box' \in [sess : Sessions, live : SUBSET Turns, replies : SUBSET Turns]
      <4>1. \/ box' = box
            \/ box' = [box EXCEPT !.live = @ \ {n}, !.replies = @ \cup {n}]
        BY <2>13 DEF ReadClose
      <4> QED BY <2>0, <4>1, BoxKeeps DEF ReadersType
    <3>3. Idle(ui) \in Globals /\ Idle(ui).hide = ui.hide /\ Idle(ui).nudges = ui.nudges
      BY <2>0, BlocksKeep
    <3>4. ui' \in {DrainQueuedAgentRequests(ui), DrainQueuedAgentRequests(Idle(ui))}
      BY <2>13 DEF ReadClose
    <3>5. ui' \in Globals /\ ui'.hide = ui.hide /\ ui'.nudges = ui.nudges
      BY <2>0, <3>3, <3>4, BlocksKeep
    <3> QED BY <2>0, <2>13, <3>1, <3>2, <3>5 DEF ReadClose, IndInv, TypeOK, Balanced,
          UnseenIsMarked, SwitcherType, ReadersType, MarksType, ServerType,
          switcher, watchers, sidebar, server
  <2>14. ASSUME NEW n \in Turns, ReadFails(n) PROVE IndInv'
    <3>1. turn' \in [Turns -> Calls]
      BY <2>0, <2>14 DEF ReadFails, ReadersType, Calls
    <3>2. ui' \in Globals /\ Balanced(ui', ghost.automatic)
      <4>1. ui' \in {Caught(ui, n, cur, bg), CaughtForGood(ui, n, cur, bg)}
        BY <2>14 DEF ReadFails
      <4> QED BY <2>0, <4>1, CaughtKeeps, CaughtForGoodKeeps
    <3>3. bg' \in [Sessions -> Statuses] /\ marked' \subseteq Sessions
      BY <2>0, <2>14, CaughtMarksKeep DEF ReadFails, MarksType
    <3>4. ghost' \in Ghosts /\ ghost'.unseen = ghost.unseen /\ ghost'.automatic = ghost.automatic
      BY <2>0, <2>00, <2>14 DEF ReadFails, Kept, Spendable
    <3> QED BY <2>0, <2>14, <3>1, <3>2, <3>3, <3>4 DEF ReadFails, IndInv, TypeOK, Balanced,
          UnseenIsMarked, SwitcherType, ReadersType, MarksType, ServerType,
          switcher, watchers, sidebar, server
  <2>15. ASSUME NEW s \in Sessions, ClickSession(s) PROVE IndInv'
    <3>1. SelectSession(s, bg) /\ ghost' = Spent("selects")
      BY <2>15 DEF ClickSession
    <3>2. ghost' \in Ghosts /\ ghost'.unseen = ghost.unseen /\ ghost'.automatic = ghost.automatic
      BY <2>00, <3>1 DEF Kept, Spendable
    <3>3. bg \in [Sessions -> Statuses]
      BY <2>0 DEF MarksType
    <3> QED BY <2>0, <2>15, <3>1, <3>2, <3>3, SelectKeeps DEF ClickSession, IndInv, TypeOK, UnseenIsMarked,
          ReadersType, MarksType, ServerType, watchers, sidebar, server
  <2>16. ASSUME NEW s \in Sessions, PollTick(s) PROVE IndInv'
    <3>1. polls' \subseteq Sessions
      BY <2>0, <2>16 DEF PollTick, MarksType
    <3>2. CASE UNCHANGED <<switcher, turn, ui, bg, marked>>
      BY <2>0, <2>16, <3>1, <3>2 DEF PollTick, IndInv, TypeOK, Balanced,
          UnseenIsMarked, SwitcherType, ReadersType, MarksType, ServerType,
          switcher, watchers, sidebar, server
    <3>3. CASE SelectSession(s, [bg EXCEPT ![s] = "none"])
      <4>1. [bg EXCEPT ![s] = "none"] \in [Sessions -> Statuses]
        BY <2>0 DEF MarksType, Statuses
      <4> QED BY <2>0, <2>16, <3>1, <3>3, <4>1, SelectKeeps DEF PollTick, IndInv, TypeOK, UnseenIsMarked,
          ReadersType, MarksType, ServerType, watchers, sidebar, server
    <3> QED BY <2>16, <3>2, <3>3 DEF PollTick
  <2>17. ASSUME NEW s \in Sessions, CheckAnswers(s) PROVE IndInv'
    <3>1. /\ checks' \subseteq Sessions /\ waits' \subseteq Sessions /\ marked' \subseteq Sessions
      BY <2>0, <2>17 DEF CheckAnswers, MarksType
    <3>2. /\ resuming' \subseteq Sessions \X Turns
          /\ box' \in [sess : Sessions, live : SUBSET Turns, replies : SUBSET Turns]
      <4>1. CASE UNCHANGED <<box, resuming>>
        BY <2>0, <4>1 DEF ReadersType
      <4>2. CASE /\ run[s] # NoTurn /\ resuming' = resuming \cup {<<s, run[s]>>}
                 /\ box' = [box EXCEPT !.live = @ \cup {run[s]}]
        BY <2>0, <4>2 DEF ReadersType, ServerType
      <4> QED BY <2>17, <4>1, <4>2 DEF CheckAnswers
    <3> QED BY <2>0, <2>17, <3>1, <3>2 DEF CheckAnswers, IndInv, TypeOK, Balanced,
          UnseenIsMarked, SwitcherType, ReadersType, MarksType, ServerType,
          switcher, watchers, sidebar, server
  <2>18. ASSUME NEW s \in Sessions, WaitTick(s) PROVE IndInv'
    <3>1. waits' \subseteq Sessions
      BY <2>0, <2>18 DEF WaitTick, MarksType
    <3>2. CASE UNCHANGED <<switcher, turn, ui, bg, marked>>
      BY <2>0, <2>18, <3>1, <3>2 DEF WaitTick, IndInv, TypeOK, Balanced,
          UnseenIsMarked, SwitcherType, ReadersType, MarksType, ServerType,
          switcher, watchers, sidebar, server
    <3>3. CASE SelectSession(s, bg)
      <4>1. bg \in [Sessions -> Statuses]
        BY <2>0 DEF MarksType
      <4> QED BY <2>0, <2>18, <3>1, <3>3, <4>1, SelectKeeps DEF WaitTick, IndInv, TypeOK, UnseenIsMarked,
          ReadersType, MarksType, ServerType, watchers, sidebar, server
    <3> QED BY <2>18, <3>2, <3>3 DEF WaitTick
  <2>19. ASSUME NEW s \in Sessions, RunEnds(s) PROVE IndInv'
    <3>1. run' \in [Sessions -> Turns \cup {NoTurn}] /\ saved' \subseteq Turns
      BY <2>0, <2>19 DEF RunEnds, ServerType
    <3> QED BY <2>0, <2>19, <3>1 DEF RunEnds, IndInv, TypeOK, Balanced,
          UnseenIsMarked, SwitcherType, ReadersType, MarksType, ServerType,
          switcher, watchers, sidebar, server
  <2>20. ASSUME NEW s \in Sessions, StopArrives(s) PROVE IndInv'
    <3>1. run' \in [Sessions -> Turns \cup {NoTurn}]
      BY <2>0, <2>20 DEF StopArrives, ServerType
    <3> QED BY <2>0, <2>20, <3>1 DEF StopArrives, IndInv, TypeOK, Balanced,
          UnseenIsMarked, SwitcherType, ReadersType, MarksType, ServerType,
          switcher, watchers, sidebar, server
  <2>21. ASSUME NEW l \in loads, HistoryArrives(l) PROVE IndInv'
    <3>1. loads' \subseteq Loads
      <4>1. l \in Loads /\ saved \cap TurnsOf(l.sess) \in SUBSET Turns
        BY <2>0 DEF SwitcherType, ServerType
      <4>2. [l EXCEPT !.phase = "fade", !.page = saved \cap TurnsOf(l.sess)] \in Loads
        BY <4>1 DEF Loads
      <4> QED BY <2>0, <2>21, <4>2 DEF HistoryArrives, SwitcherType
    <3> QED BY <2>0, <2>21, <3>1 DEF HistoryArrives, IndInv, TypeOK, Balanced,
          UnseenIsMarked, SwitcherType, ReadersType, MarksType, ServerType,
          switcher, watchers, sidebar, server
  <2>22. ASSUME NEW l \in loads, HistoryFails(l) PROVE IndInv'
    <3>1. loads' \subseteq Loads
      <4>1. [l EXCEPT !.phase = "failed"] \in Loads
        BY <2>0 DEF SwitcherType, Loads
      <4> QED BY <2>0, <2>22, <4>1 DEF HistoryFails, SwitcherType
    <3>2. ghost' \in Ghosts /\ ghost'.unseen = ghost.unseen /\ ghost'.automatic = ghost.automatic
      BY <2>00, <2>22 DEF HistoryFails, Kept, Spendable
    <3> QED BY <2>0, <2>22, <3>1, <3>2 DEF HistoryFails, IndInv, TypeOK, Balanced,
          UnseenIsMarked, SwitcherType, ReadersType, MarksType, ServerType,
          switcher, watchers, sidebar, server
  <2>23. ASSUME NEW l \in loads, HistoryRenders(l) PROVE IndInv'
    <3>1. l.sess \in Sessions /\ l.page \subseteq Turns /\ loads' \subseteq Loads
      BY <2>0, <2>23 DEF HistoryRenders, SwitcherType, Loads
    <3>2. CASE Fresh(l)
      <4>1. /\ box' = [sess |-> l.sess, live |-> {}, replies |-> l.page]
            /\ completed' = completed \ {l.sess}
            /\ bg' = IF bg[l.sess] = "running" THEN bg ELSE [bg EXCEPT ![l.sess] = "none"]
            /\ polls' \subseteq polls \cup {l.sess} /\ checks' \subseteq checks \cup {l.sess}
            /\ ghost' = [ghost EXCEPT !.unseen = @ \ {l.sess}]
        BY <2>23, <3>2 DEF HistoryRenders
      <4>2. box' \in [sess : Sessions, live : SUBSET Turns, replies : SUBSET Turns]
        BY <3>1, <4>1
      <4>3. bg' \in [Sessions -> Statuses] /\ polls' \subseteq Sessions /\ checks' \subseteq Sessions
        BY <2>0, <3>1, <4>1 DEF MarksType, Statuses
      <4>4. /\ ghost' \in Ghosts /\ ghost'.automatic = ghost.automatic
            /\ ghost'.unseen \subseteq completed' /\ completed' \subseteq Sessions
        BY <2>0, <4>1 DEF Ghosts, UnseenIsMarked, MarksType
      <4> QED BY <2>0, <2>23, <3>1, <4>2, <4>3, <4>4 DEF HistoryRenders, IndInv, TypeOK, Balanced,
          UnseenIsMarked, SwitcherType, ReadersType, MarksType, ServerType,
          switcher, watchers, sidebar, server
    <3>3. CASE ~Fresh(l)
      BY <2>0, <2>23, <3>1, <3>3 DEF HistoryRenders, IndInv, TypeOK, Balanced,
          UnseenIsMarked, SwitcherType, ReadersType, MarksType, ServerType,
          switcher, watchers, sidebar, server
    <3> QED BY <3>2, <3>3
  <2>24. ASSUME NEW r \in resuming, ResumeEnds(r) PROVE IndInv'
    <3>1. r[1] \in Sessions /\ r[2] \in Turns /\ resuming' \subseteq Sessions \X Turns
      BY <2>0, <2>24 DEF ResumeEnds, ReadersType
    <3>2. box' \in [sess : Sessions, live : SUBSET Turns, replies : SUBSET Turns]
      <4>1. \/ box' = [box EXCEPT !.live = @ \ {r[2]}]
            \/ box' = [box EXCEPT !.live = @ \ {r[2]}, !.replies = @ \cup {r[2]}]
        BY <2>24 DEF ResumeEnds
      <4>2. PICK n \in Turns : n = r[2]
        BY <3>1
      <4>3. box \in [sess : Sessions, live : SUBSET Turns, replies : SUBSET Turns]
        BY <2>0 DEF ReadersType
      <4>4. \/ box' = [box EXCEPT !.live = @ \ {n}]
            \/ box' = [box EXCEPT !.live = @ \ {n}, !.replies = @ \cup {n}]
        BY <4>1, <4>2
      <4> QED BY <4>3, <4>4, BoxKeeps
    <3>3. CASE UNCHANGED <<switcher, turn, ui, bg, marked>>
      BY <2>0, <2>24, <3>1, <3>2, <3>3 DEF ResumeEnds, IndInv, TypeOK, Balanced,
          UnseenIsMarked, SwitcherType, ReadersType, MarksType, ServerType,
          switcher, watchers, sidebar, server
    <3>4. CASE SelectSession(r[1], bg)
      <4>1. bg \in [Sessions -> Statuses]
        BY <2>0 DEF MarksType
      <4> QED BY <2>0, <2>24, <3>1, <3>2, <3>4, <4>1, SelectKeeps DEF ResumeEnds, IndInv, TypeOK, UnseenIsMarked,
          ReadersType, MarksType, ServerType, watchers, sidebar, server
    <3> QED BY <2>24, <3>3, <3>4 DEF ResumeEnds
  <2>25. ASSUME NEW n \in Turns, UploadFails(n) PROVE IndInv'
    <3>1. turn' \in [Turns -> Calls]
      BY <2>0, <2>25 DEF UploadFails, ReadersType, Calls
    <3>2. ui' \in Globals /\ ui'.hide = ui.hide /\ ui'.nudges = ui.nudges
      BY <2>0, <2>25, BlocksKeep DEF UploadFails
    <3> QED BY <2>0, <2>25, <3>1, <3>2 DEF UploadFails, IndInv, TypeOK, Balanced,
          UnseenIsMarked, SwitcherType, ReadersType, MarksType, ServerType,
          switcher, watchers, sidebar, server
  <2>26. ASSUME NEW n \in Turns, ReadRefusal(n) PROVE IndInv'
    <3>1. turn' \in [Turns -> Calls]
      BY <2>0, <2>26 DEF ReadRefusal, ReadersType, Calls
    <3>2. ui' \in Globals /\ Balanced(ui', ghost.automatic)
      BY <2>0, <2>26, ReturnedKeeps DEF ReadRefusal
    <3>3. box' \in [sess : Sessions, live : SUBSET Turns, replies : SUBSET Turns]
      <4>1. box' = box \/ box' = [box EXCEPT !.live = @ \ {n}]
        BY <2>26 DEF ReadRefusal
      <4> QED BY <2>0, <4>1, BoxKeeps DEF ReadersType
    <3> QED BY <2>0, <2>26, <3>1, <3>2, <3>3 DEF ReadRefusal, IndInv, TypeOK, Balanced,
          UnseenIsMarked, SwitcherType, ReadersType, MarksType, ServerType,
          switcher, watchers, sidebar, server
  <2>27. ASSUME NEW n \in Turns, ReadErrorAway(n) PROVE IndInv'
    <3>1. turn' \in [Turns -> Calls]
      BY <2>0, <2>27 DEF ReadErrorAway, ReadersType, Calls
    <3>2. ui' \in Globals /\ Balanced(ui', ghost.automatic)
      BY <2>0, <2>27, ReturnedKeeps DEF ReadErrorAway
    <3>3. turn[n].sess \in Sessions
      BY <2>0 DEF ReadersType, Calls
    <3>4. bg' \in [Sessions -> Statuses] /\ marked' \subseteq Sessions
      BY <2>0, <2>27, <3>3 DEF ReadErrorAway, Entered, EnteredMarks, MarksType, Statuses
    <3>5. ghost' \in Ghosts /\ ghost'.unseen = ghost.unseen /\ ghost'.automatic = ghost.automatic
      BY <2>00, <2>27 DEF ReadErrorAway, Kept, Spendable
    <3> QED BY <2>0, <2>27, <3>1, <3>2, <3>4, <3>5 DEF ReadErrorAway, IndInv, TypeOK, Balanced,
          UnseenIsMarked, SwitcherType, ReadersType, MarksType, ServerType,
          switcher, watchers, sidebar, server
  <2>28. CASE UNCHANGED vars
    BY <2>0, <2>28 DEF vars, IndInv, TypeOK, Balanced, UnseenIsMarked,
        SwitcherType, ReadersType, MarksType, ServerType
  <2> QED BY <2>1, <2>2, <2>3, <2>4, <2>5, <2>6, <2>7, <2>8, <2>9, <2>10, <2>11, <2>12,
             <2>13, <2>14, <2>15, <2>16, <2>17, <2>18, <2>19, <2>20, <2>21, <2>22,
             <2>23, <2>24, <2>25, <2>26, <2>27, <2>28 DEF Next
<1> QED BY <1>1, <1>2, PTL DEF Spec

\* The page and the server keep to their values, for any number of chats.
THEOREM TypeCorrect == Spec => []TypeOK
<1>1. IndInv => TypeOK
  BY DEF IndInv
<1> QED BY <1>1, Inductive, PTL

\* A reply that finished elsewhere keeps its dot until it is seen, however
\* switches, sends, recoveries and the ends of readers follow one another.
THEOREM NoDotIsLost == Spec => []UnseenIsMarked
<1>1. IndInv => UnseenIsMarked
  BY DEF IndInv
<1> QED BY <1>1, Inductive, PTL

\* Recovery cannot feed itself, for every cap and any number of readers that
\* fail on screen at once.
THEOREM RecoveryIsBounded == Spec => []BoundedRecovery
<1>1. IndInv => BoundedRecovery
  BY ChatClientAssumption DEF ChatClientAssumption, IndInv, TypeOK, Ghosts, Globals,
     Balanced, BoundedRecovery
<1> QED BY <1>1, Inductive, PTL

(***************************************************************************)
(* Whose turns are where: BoxIsCurrent and StopHitsOpenChat.               *)
(***************************************************************************)
\* v is u after blocks that lock nothing: they keep the session last sent to,
\* and a composer they leave locked still has its controller.
Tame(u, v) ==
  v.session = u.session /\ (v.streaming => u.streaming /\ v.abort = u.abort)

\* A turn that went out stays so, in its chat; and where no send begins or
\* leaves, the same ones wait.
Grown == \A n \in Turns :
  turn[n].phase # "unsent" => turn'[n].sess = turn[n].sess /\ turn'[n].phase # "unsent"
Settled == \A n \in Turns :
  /\ turn'[n].sess = turn[n].sess
  /\ turn'[n].phase = "unsent" <=> turn[n].phase = "unsent"
  /\ turn'[n].phase = "preparing" <=> turn[n].phase = "preparing"

\* Nothing is paid in.
NoIncome == /\ Can("gaps")' => Can("gaps")
            /\ Can("selects")' => Can("selects")

LEMMA BlocksTame ==
  ASSUME NEW u \in Globals
  PROVE  /\ Tame(u, DrainQueuedAgentRequests(u)) /\ Tame(u, Idle(u)) /\ Tame(u, Aborted(u))
BY DEF Globals, Tame, DrainQueuedAgentRequests, Idle, Aborted

LEMMA TameTrans ==
  ASSUME NEW u, NEW v, NEW w, Tame(u, v), Tame(v, w)
  PROVE  Tame(u, w)
BY DEF Tame

\* What a reader that ends leaves locked, it found locked.
LEMMA CaughtTame ==
  ASSUME NEW u \in Globals, NEW n \in Turns, NEW c, NEW b
  PROVE  Tame(u, Caught(u, n, c, b))
<1> USE ChatClientAssumption DEF ChatClientAssumption
<1>0. \A x \in Globals : LET y == DrainQueuedAgentRequests(x)
                         IN  y.session = x.session /\ y.streaming = x.streaming
  BY DEF DrainQueuedAgentRequests, Globals
<1>1. CASE IsBg(n, c, b)
  BY <1>1, BlocksTame DEF Caught
<1>2. CASE ~IsBg(n, c, b) /\ u.abort # NoTurn /\ u.aborted
  <2> DEFINE v == [u EXCEPT !.abort = NoTurn, !.aborted = FALSE]
  <2>1. v \in Globals /\ v.session = u.session
    BY DEF Globals
  <2>2. Caught(u, n, c, b) = DrainQueuedAgentRequests(Idle(v))
    BY <1>2 DEF Caught, Cancelled
  <2> HIDE DEF v
  <2>3. Idle(v) \in Globals /\ Idle(v).streaming = FALSE /\ Idle(v).session = u.session
    BY <2>1 DEF Globals, Idle
  <2> QED BY <1>0, <2>2, <2>3 DEF Tame
<1>3. CASE ~IsBg(n, c, b) /\ ~(u.abort # NoTurn /\ u.aborted)
  <2> DEFINE v == TryAutoRecover(u, n)
  <2>1. v \in Globals /\ v.session = u.session
    <3>1. CASE u.nudges < Cap
      <4>1. v = [u EXCEPT !.nudges = @ + 1, !.hide = TRUE, !.recover = @ \cup {n}]
        BY <3>1 DEF TryAutoRecover
      <4> HIDE DEF v
      <4>2. u.nudges + 1 \in Nat /\ u.recover \cup {n} \in SUBSET Turns
        BY DEF Globals
      <4>3. v \in Globals
        BY <4>1, <4>2, Zenon DEF Globals
      <4> QED BY <4>1, <4>3 DEF Globals
    <3>2. CASE ~(u.nudges < Cap)
      BY <3>2 DEF TryAutoRecover
    <3> QED BY <3>1, <3>2
  <2>2. Caught(u, n, c, b) = DrainQueuedAgentRequests(Idle(v))
    BY <1>3 DEF Caught
  <2> HIDE DEF v
  <2>3. Idle(v) \in Globals /\ Idle(v).streaming = FALSE /\ Idle(v).session = u.session
    BY <2>1 DEF Globals, Idle
  <2> QED BY <1>0, <2>2, <2>3 DEF Tame
<1> QED BY <1>1, <1>2, <1>3

LEMMA CaughtForGoodTame ==
  ASSUME NEW u \in Globals, NEW n \in Turns, NEW c, NEW b
  PROVE  Tame(u, CaughtForGood(u, n, c, b))
<1>1. CASE IsBg(n, c, b) \/ (u.abort # NoTurn /\ u.aborted)
  BY <1>1, CaughtTame DEF CaughtForGood
<1>2. CASE ~(IsBg(n, c, b) \/ (u.abort # NoTurn /\ u.aborted))
  <2>1. CaughtForGood(u, n, c, b) = DrainQueuedAgentRequests(Idle(u)) /\ Idle(u) \in Globals
    BY <1>2 DEF CaughtForGood, Idle, Globals
  <2> QED BY <2>1, BlocksTame, TameTrans
<1> QED BY <1>1, <1>2

LEMMA ReturnedTame ==
  ASSUME NEW u \in Globals, NEW n \in Turns
  PROVE  Tame(u, Returned(u, n))
<1>1. Idle(u) \in Globals
  BY DEF Idle, Globals
<1>2. CASE IsBg(n, cur, bg)
  BY <1>2, BlocksTame DEF Returned
<1>3. CASE ~IsBg(n, cur, bg)
  <2>1. Returned(u, n) = DrainQueuedAgentRequests(Idle(u))
    BY <1>3 DEF Returned
  <2> QED BY <1>1, <2>1, BlocksTame, TameTrans
<1> QED BY <1>2, <1>3

\* Only readers are closed, so nothing moves and whoever waits goes on waiting.
LEMMA VictimsSettle ==
  ASSUME NEW u, ReadersType, turn' = CloseAll(Victims(u))
  PROVE  Settled
<1>1. \A n \in Victims(u) : turn[n].phase \in {"open", "refused", "done"}
  BY DEF Victims, Live
<1> QED BY <1>1 DEF Settled, CloseAll, ReadersType, Calls

LEMMA SettledSets ==
  ASSUME Settled
  PROVE  Grown /\ Waiting' = Waiting /\ \A s : SentIn(s)' = SentIn(s)
BY DEF Settled, Grown, Waiting, SentIn

LEMMA GrownSets ==
  ASSUME Grown
  PROVE  \A s : SentIn(s) \subseteq SentIn(s)'
BY DEF Grown, SentIn

\* The lists of turns stay right if what is added to them is.
LEMMA PlacedStays ==
  ASSUME IndInv, Placed, Grown,
         \A s \in Sessions : run'[s] \in SentIn(s)' \cup {run[s], NoTurn},
         \A n \in saved' \ saved : turn'[n].phase # "unsent",
         \A r \in resuming' \ resuming : r[2] \in SentIn(r[1])',
         \A l \in loads' \ loads : l.page \subseteq SentIn(l.sess)'
  PROVE  Placed'
<1>0. \A s : SentIn(s) \subseteq SentIn(s)'
  BY GrownSets
<1>1. \A s \in Sessions : run'[s] \in SentIn(s)' \cup {NoTurn}
  BY <1>0 DEF Placed
<1>2. \A n \in saved' : turn'[n].phase # "unsent"
  BY DEF Placed, Grown, IndInv, TypeOK, ServerType
<1>3. \A r \in resuming' : r[2] \in SentIn(r[1])'
  BY <1>0 DEF Placed
<1>4. \A l \in loads' : l.page \subseteq SentIn(l.sess)'
  BY <1>0 DEF Placed
<1> QED BY <1>1, <1>2, <1>3, <1>4 DEF Placed

LEMMA SettledPlaces ==
  ASSUME IndInv, PlaceInv, Settled, UNCHANGED <<switcher, box, resuming, run, saved>>,
         Tame(ui, ui'), NoIncome
  PROVE  PlaceInv'
<1>1. Grown /\ Waiting' = Waiting /\ \A s : SentIn(s)' = SentIn(s)
  BY SettledSets
<1>2. Placed'
  BY <1>1, PlacedStays DEF PlaceInv, switcher
<1>3. LastSwitch' /\ Shown'
  BY <1>1 DEF PlaceInv, LastSwitch, Shown, switcher
<1>4. WaitsAtHome'
  BY <1>1 DEF PlaceInv, WaitsAtHome, NoIncome, switcher
<1>5. StreamsHere'
  BY <1>1 DEF PlaceInv, StreamsHere, Tame, switcher
<1> QED BY <1>2, <1>3, <1>4, <1>5 DEF PlaceInv

\* A message goes out from the open chat.
LEMMA SendPlaces ==
  ASSUME IndInv, PlaceInv, NEW u \in Globals, NEW from \in Sessions, NEW g \in Ghosts,
         g.left["gaps"] > 0 => Can("gaps"), g.left["selects"] > 0 => Can("selects"),
         Send(u, from, g)
  PROVE  PlaceInv'
<1> USE ChatClientAssumption DEF ChatClientAssumption
<1>1. PICK n \in Turns, p \in {"open", "refused", "preparing"} : Sends(u, from, g, n, p)
  BY SendShape
<1>2. /\ cur \in Sessions /\ turn \in [Turns -> Calls]
      /\ box \in [sess : Sessions, live : SUBSET Turns, replies : SUBSET Turns]
      /\ run \in [Sessions -> Turns \cup {NoTurn}]
  BY DEF IndInv, TypeOK, SwitcherType, ReadersType, ServerType
<1>3. /\ turn[n].phase = "unsent"
      /\ turn' = [turn EXCEPT ![n] = [sess |-> cur, typed |-> from, phase |-> p]]
      /\ run' = run \/ run' = [run EXCEPT ![cur] = n]
      /\ UNCHANGED <<switcher, resuming, saved>>
  BY <1>1 DEF Sends, watchers
<1>4. Grown /\ n \in SentIn(cur)'
  BY <1>2, <1>3 DEF Grown, SentIn, switcher
<1>5. Placed'
  <2>1. \A s \in Sessions : run'[s] \in SentIn(s)' \cup {run[s], NoTurn}
    BY <1>2, <1>3, <1>4 DEF switcher
  <2> QED BY <1>3, <1>4, <2>1, PlacedStays DEF PlaceInv, switcher
<1>6. LastSwitch'
  BY <1>3 DEF PlaceInv, LastSwitch, switcher
<1>7. Shown'
  <2>1. SentIn(cur) \subseteq SentIn(cur)'
    BY <1>3, <1>4, GrownSets DEF switcher
  <2>2. box' = box \/ box' = [box EXCEPT !.live = @ \cup {n}]
    BY <1>1 DEF Sends, OpenedBox
  <2>3. box'.sess = box.sess /\ box'.live \cup box'.replies \subseteq box.live \cup box.replies \cup {n}
    BY <1>2, <2>2
  <2> QED BY <1>3, <1>4, <2>1, <2>3 DEF PlaceInv, Shown, switcher
<1>8. /\ ui'.session = cur
      /\ \/ p # "preparing" /\ ui'.abort = n
         \/ p = "preparing" /\ n \in Waiting'
  <2>1. p = "preparing" => n \in Waiting'
    BY <1>2, <1>3 DEF Waiting
  <2>2. ui'.session = cur /\ (p # "preparing" => ui'.abort = n)
    BY <1>1 DEF Sends, Opened, Globals
  <2> QED BY <2>1, <2>2
<1>9. NoIncome
  <2>1. /\ ghost'.left["selects"] = g.left["selects"]
        /\ ghost'.left["gaps"] \in {g.left["gaps"], g.left["gaps"] - 1}
        /\ g.left["gaps"] \in Int
    BY <1>1 DEF Sends, Ghosts, Spendable
  <2> QED BY <2>1 DEF NoIncome, Can
<1>10. WaitsAtHome'
  <2>1. Waiting' \subseteq Waiting \cup {n}
    BY <1>2, <1>3 DEF Waiting
  <2>2. Waiting' \subseteq SentIn(cur)'
    BY <1>3, <1>4, <2>1, GrownSets DEF PlaceInv, WaitsAtHome, switcher
  <2>3. CASE p # "preparing"
    <3>1. Waiting' = Waiting
      BY <1>2, <1>3, <2>3 DEF Waiting
    <3> QED BY <1>9, <2>2, <3>1 DEF PlaceInv, WaitsAtHome, NoIncome
  <2>4. CASE p = "preparing"
    <3>1. Can("gaps")
      BY <1>1, <2>4 DEF Sends
    <3> QED BY <1>9, <2>2, <3>1 DEF PlaceInv, WaitsAtHome, NoIncome
  <2> QED BY <2>3, <2>4
<1>11. StreamsHere'
  BY <1>3, <1>8 DEF StreamsHere, switcher, Turns, NoTurn
<1> QED BY <1>5, <1>6, <1>7, <1>10, <1>11 DEF PlaceInv

\* A stop, and the reader it aborts.
LEMMA StopPlaces ==
  ASSUME IndInv, PlaceInv, NEW u \in Globals, Tame(ui, u), NEW g,
         g.left["gaps"] > 0 => Can("gaps"), g.left["selects"] > 0 => Can("selects"),
         StopStreaming(u, g)
  PROVE  PlaceInv'
<1> DEFINE hit == Victims(u)
<1>1. PICK idle \in {Idle(Aborted(u)), DrainQueuedAgentRequests(Idle(Aborted(u)))} :
        /\ turn' = CloseAll(hit)
        /\ ui' = IF hit = {} THEN idle ELSE Caught(idle, u.abort, cur, bg)
        /\ ghost' = g
        /\ UNCHANGED <<switcher, box, resuming, run, saved>>
  BY DEF StopStreaming, watchers
<1>2. Aborted(u) \in Globals /\ Idle(Aborted(u)) \in Globals
  BY BlocksKeep
<1>3. idle \in Globals /\ Tame(u, idle)
  <2>1. Tame(u, Aborted(u)) /\ Tame(Aborted(u), Idle(Aborted(u)))
    BY <1>2, BlocksTame
  <2>2. Tame(u, Idle(Aborted(u)))
    BY <2>1, TameTrans
  <2>3. Tame(Idle(Aborted(u)), DrainQueuedAgentRequests(Idle(Aborted(u))))
    BY <1>2, BlocksTame
  <2>4. Tame(u, DrainQueuedAgentRequests(Idle(Aborted(u))))
    BY <2>2, <2>3, TameTrans
  <2> QED BY <1>2, <2>2, <2>4, BlocksKeep
<1>4. Tame(u, ui')
  <2>1. CASE hit = {}
    BY <1>1, <1>3, <2>1
  <2>2. CASE hit # {}
    <3>1. u.abort \in Turns
      BY <2>2, VictimsKeep DEF IndInv, TypeOK
    <3>2. Tame(idle, Caught(idle, u.abort, cur, bg))
      BY <1>3, <3>1, CaughtTame
    <3> QED BY <1>1, <1>3, <2>2, <3>2, TameTrans
  <2> QED BY <2>1, <2>2
<1>5. Tame(ui, ui')
  BY <1>4, TameTrans
<1>6. Settled
  BY <1>1, VictimsSettle DEF IndInv, TypeOK
<1>7. NoIncome
  BY <1>1 DEF NoIncome, Can
<1> QED BY <1>1, <1>5, <1>6, <1>7, SettledPlaces

\* A change of chat, or a reload of the open one: only the second may happen
\* while a send waits.
LEMMA SelectPlaces ==
  ASSUME IndInv, PlaceInv, NEW s \in Sessions, NEW b \in [Sessions -> Statuses],
         SelectSession(s, b), s = cur \/ Waiting = {}, NoIncome,
         UNCHANGED <<run, saved>>, resuming' \subseteq resuming
  PROVE  PlaceInv'
<1> DEFINE detaches == ui.streaming /\ ui.abort # NoTurn
           hit == Victims(ui)
<1>1. /\ ui \in Globals /\ ReadersType /\ loads \subseteq Loads
      /\ token \in Nat
  BY DEF IndInv, TypeOK, SwitcherType
<1>2. /\ cur' = s /\ token' = token + 1
      /\ loads' = loads \cup {[token |-> token + 1, sess |-> s, phase |-> "fetch",
                              page |-> {}]}
  BY DEF SelectSession
<1>3. Settled /\ Tame(ui, ui') /\ (detaches => ~ui'.streaming)
  <2>1. CASE detaches
    <3>1. ui' = Detached(ui) /\ turn' = turn
      BY <2>1 DEF SelectSession
    <3> QED BY <1>1, <3>1 DEF Settled, Tame, Detached, Idle, Globals
  <2>2. CASE ~detaches /\ hit = {}
    <3>1. ui' = Aborted(ui) /\ turn' = turn
      BY <2>2 DEF SelectSession
    <3> QED BY <1>1, <2>2, <3>1, BlocksTame DEF Settled
  <2>3. CASE ~detaches /\ hit # {}
    <3>1. ui' = Caught(Aborted(ui), ui.abort, s, b) /\ turn' = CloseAll(hit)
      BY <2>3 DEF SelectSession
    <3>2. ui.abort \in Turns /\ Aborted(ui) \in Globals /\ Tame(ui, Aborted(ui))
      BY <1>1, <2>3, VictimsKeep, BlocksKeep, BlocksTame
    <3>3. Tame(Aborted(ui), ui')
      BY <3>1, <3>2, CaughtTame
    <3>4. Tame(ui, ui') /\ Settled
      BY <1>1, <3>1, <3>2, <3>3, TameTrans, VictimsSettle
    <3> QED BY <2>3, <3>4
  <2> QED BY <2>1, <2>2, <2>3
<1>4. Grown /\ Waiting' = Waiting /\ \A t : SentIn(t)' = SentIn(t)
  BY <1>3, SettledSets
<1>5. Placed'
  BY <1>2, <1>4, PlacedStays DEF PlaceInv
<1>6. LastSwitch'
  BY <1>1, <1>2 DEF PlaceInv, LastSwitch, Loads
<1>7. Shown'
  <2> DEFINE l == [token |-> token + 1, sess |-> s, phase |-> "fetch", page |-> {}]
  <2>1. l \in loads' /\ l.token = token'
    BY <1>2
  <2> QED BY <2>1 DEF Shown
<1>8. WaitsAtHome'
  BY <1>2, <1>4 DEF PlaceInv, WaitsAtHome, NoIncome
<1>9. StreamsHere'
  BY <1>2, <1>3, <1>4 DEF PlaceInv, StreamsHere, Tame
<1> QED BY <1>5, <1>6, <1>7, <1>8, <1>9 DEF PlaceInv

\* A POST that leaves after its wait.
LEMMA PostPlaces ==
  ASSUME IndInv, PlaceInv, NEW n \in Turns, Post(n)
  PROVE  PlaceInv'
<1> USE ChatClientAssumption DEF ChatClientAssumption
<1>1. /\ cur \in Sessions /\ turn \in [Turns -> Calls] /\ ui \in Globals
      /\ box \in [sess : Sessions, live : SUBSET Turns, replies : SUBSET Turns]
      /\ run \in [Sessions -> Turns \cup {NoTurn}]
  BY DEF IndInv, TypeOK, SwitcherType, ReadersType, ServerType
<1>2. /\ turn[n].phase = "preparing"
      /\ \/ turn' = [turn EXCEPT ![n] = [turn[n] EXCEPT !.phase = "open"]]
         \/ turn' = [turn EXCEPT ![n] = [turn[n] EXCEPT !.phase = "refused"]]
      /\ ui' = [ui EXCEPT !.abort = n, !.aborted = FALSE]
      /\ box' = [box EXCEPT !.live = @ \cup {n}]
      /\ run' = run \/ run' = [run EXCEPT ![turn[n].sess] = n]
      /\ UNCHANGED <<switcher, resuming, saved>>
      /\ ghost'.left["selects"] = ghost.left["selects"]
      /\ ghost'.left["gaps"] = ghost.left["gaps"]
  <2>1. /\ turn[n].phase = "preparing" /\ Posted(n, turn[n], ghost)
        /\ ui' = Opened(ui, n) /\ box' = OpenedBox(n)
        /\ UNCHANGED <<switcher, resuming, saved>>
    BY DEF Post, watchers
  <2>2. turn[n] \in Calls /\ ReadersType /\ ServerType /\ ghost \in Ghosts
    BY <1>1 DEF IndInv, TypeOK
  <2> QED BY <2>1, <2>2, PostedKeeps DEF Opened, OpenedBox
<1>3. turn[n].sess = cur /\ turn[n] \in Calls
  BY <1>1, <1>2 DEF PlaceInv, WaitsAtHome, Waiting, SentIn
<1>4. Grown /\ n \in SentIn(cur)'
  <2>1. PICK p \in {"open", "refused"} : turn' = [turn EXCEPT ![n] = [turn[n] EXCEPT !.phase = p]]
    BY <1>2
  <2>2. /\ \A m \in Turns \ {n} : turn'[m] = turn[m]
        /\ turn'[n].phase = p /\ turn'[n].sess = turn[n].sess /\ turn'[n].typed = turn[n].typed
    BY <1>1, <1>3, <2>1 DEF Calls
  <2>3. cur' = cur
    BY <1>2 DEF switcher
  <2>4. Grown
    BY <1>2, <2>2 DEF Grown
  <2>5. n \in SentIn(cur)'
    BY <1>3, <2>2, <2>3 DEF SentIn
  <2> QED BY <2>4, <2>5
<1>5. Placed'
  <2>1. \A s \in Sessions : run'[s] \in SentIn(s)' \cup {run[s], NoTurn}
    BY <1>1, <1>2, <1>3, <1>4 DEF switcher
  <2> QED BY <1>2, <1>4, <2>1, PlacedStays DEF PlaceInv, switcher
<1>6. LastSwitch'
  BY <1>2 DEF PlaceInv, LastSwitch, switcher
<1>7. Shown'
  <2>1. SentIn(cur) \subseteq SentIn(cur)'
    BY <1>2, <1>4, GrownSets DEF switcher
  <2>2. box'.sess = box.sess /\ box'.live \cup box'.replies \subseteq box.live \cup box.replies \cup {n}
    BY <1>1, <1>2
  <2> QED BY <1>2, <1>4, <2>1, <2>2 DEF PlaceInv, Shown, switcher
<1>8. WaitsAtHome'
  <2>1. Waiting' \subseteq Waiting
    BY <1>1, <1>2 DEF Waiting
  <2> QED BY <1>2, <1>4, <2>1, GrownSets DEF PlaceInv, WaitsAtHome, Can, switcher
<1>9. StreamsHere'
  BY <1>1, <1>2 DEF PlaceInv, StreamsHere, Globals, Turns, NoTurn, switcher
<1> QED BY <1>5, <1>6, <1>7, <1>8, <1>9 DEF PlaceInv

\* An upload that fails, and leaves no locked composer.
LEMMA UploadPlaces ==
  ASSUME IndInv, PlaceInv, NEW n \in Turns, UploadFails(n)
  PROVE  PlaceInv'
<1>1. turn \in [Turns -> Calls] /\ ui \in Globals
  BY DEF IndInv, TypeOK, ReadersType
<1>2. /\ turn[n].phase = "preparing" /\ turn' = [turn EXCEPT ![n].phase = "closed"]
      /\ ui'.streaming = FALSE
      /\ UNCHANGED <<switcher, box, resuming, run, saved, ghost>>
  BY <1>1 DEF UploadFails, Idle, Globals, watchers, server
<1>3. Grown /\ Waiting' \subseteq Waiting
  BY <1>1, <1>2 DEF Grown, Waiting, Calls
<1>4. \A s : SentIn(s) \subseteq SentIn(s)'
  BY <1>3, GrownSets
<1>5. Placed'
  BY <1>2, <1>3, PlacedStays DEF PlaceInv, switcher
<1>6. LastSwitch' /\ Shown'
  BY <1>2, <1>4 DEF PlaceInv, LastSwitch, Shown, switcher
<1>7. WaitsAtHome'
  BY <1>2, <1>3, <1>4 DEF PlaceInv, WaitsAtHome, Can, switcher
<1> QED BY <1>2, <1>5, <1>6, <1>7 DEF PlaceInv, StreamsHere

\* What only changes the history on screen, with turns of the open chat.
LEMMA BoxPlaces ==
  ASSUME IndInv, PlaceInv, Settled, UNCHANGED <<switcher, run, saved>>,
         Tame(ui, ui'), UNCHANGED ghost,
         \A r \in resuming' \ resuming : r[2] \in SentIn(r[1]),
         box'.sess = box.sess,
         box'.live \cup box'.replies \subseteq box.live \cup box.replies \cup SentIn(cur)
  PROVE  PlaceInv'
<1>1. Grown /\ Waiting' = Waiting /\ \A s : SentIn(s)' = SentIn(s)
  BY SettledSets
<1>2. Placed'
  BY <1>1, PlacedStays DEF PlaceInv, switcher
<1>3. LastSwitch' /\ Shown'
  BY <1>1 DEF PlaceInv, LastSwitch, Shown, switcher
<1>4. WaitsAtHome'
  BY <1>1 DEF PlaceInv, WaitsAtHome, Can, switcher
<1>5. StreamsHere'
  BY <1>1 DEF PlaceInv, StreamsHere, Tame, switcher
<1> QED BY <1>2, <1>3, <1>4, <1>5 DEF PlaceInv

\* The server ends a run: its turn had been sent, so its reply is in its chat.
LEMMA RunPlaces ==
  ASSUME IndInv, PlaceInv, UNCHANGED <<switcher, box, turn, ui, resuming, ghost>>,
         NEW s \in Sessions, run' = [run EXCEPT ![s] = NoTurn],
         saved' \subseteq saved \cup ({run[s]} \ {NoTurn})
  PROVE  PlaceInv'
<1>1. Settled /\ run \in [Sessions -> Turns \cup {NoTurn}]
  BY DEF Settled, IndInv, TypeOK, ServerType
<1>2. Grown /\ Waiting' = Waiting /\ \A t : SentIn(t)' = SentIn(t)
  BY <1>1, SettledSets
<1>3. Placed'
  <2>1. \A t \in Sessions : run'[t] \in SentIn(t)' \cup {run[t], NoTurn}
    BY <1>1
  <2>2. \A n \in saved' \ saved : turn'[n].phase # "unsent"
    BY DEF PlaceInv, Placed, SentIn
  <2> QED BY <1>2, <2>1, <2>2, PlacedStays DEF PlaceInv, switcher
<1>4. LastSwitch' /\ Shown'
  BY <1>2 DEF PlaceInv, LastSwitch, Shown, switcher
<1>5. WaitsAtHome' /\ StreamsHere'
  BY <1>2 DEF PlaceInv, WaitsAtHome, StreamsHere, Can, switcher
<1> QED BY <1>3, <1>4, <1>5 DEF PlaceInv

\* A history arrives, or does not: the last switch goes on, an overtaken one
\* gives up.
LEMMA LoadPlaces ==
  ASSUME IndInv, PlaceInv, NEW l \in loads, NEW m,
         m.token = l.token, m.sess = l.sess, m.page \subseteq SentIn(l.sess),
         loads' = (loads \ {l}) \cup (IF Fresh(l) THEN {m} ELSE {}),
         UNCHANGED <<cur, token, box, turn, ui, resuming, run, saved>>, NoIncome
  PROVE  PlaceInv'
<1>1. Settled
  BY DEF Settled
<1>2. Grown /\ Waiting' = Waiting /\ \A s : SentIn(s)' = SentIn(s)
  BY <1>1, SettledSets
<1>3. Placed'
  BY <1>2, PlacedStays DEF PlaceInv
<1>4. LastSwitch'
  BY DEF PlaceInv, LastSwitch
<1>5. Shown'
  <2>1. CASE \E k \in loads : k.token = token
    <3>1. PICK k \in loads : k.token = token
      BY <2>1
    <3>2. \E j \in loads' : j.token = token'
      <4>1. CASE k = l
        <5>1. Fresh(l)
          BY <3>1, <4>1 DEF PlaceInv, LastSwitch, Fresh
        <5> QED BY <3>1, <4>1, <5>1
      <4>2. CASE k # l
        BY <3>1, <4>2
      <4> QED BY <4>1, <4>2
    <3> QED BY <3>2 DEF Shown
  <2>2. CASE ~\E k \in loads : k.token = token
    BY <1>2, <2>2 DEF PlaceInv, Shown
  <2> QED BY <2>1, <2>2
<1>6. WaitsAtHome' /\ StreamsHere'
  BY <1>2 DEF PlaceInv, WaitsAtHome, StreamsHere, NoIncome
<1> QED BY <1>3, <1>4, <1>5, <1>6 DEF PlaceInv

\* It is rendered: the history on screen is that of the open chat, or stays.
LEMMA RenderPlaces ==
  ASSUME IndInv, PlaceInv, NEW l \in loads, HistoryRenders(l)
  PROVE  PlaceInv'
<1>1. /\ loads' = loads \ {l}
      /\ IF Fresh(l) THEN box' = [sess |-> l.sess, live |-> {}, replies |-> l.page]
         ELSE box' = box
      /\ UNCHANGED <<cur, token, turn, ui, resuming, run, saved>>
      /\ ghost'.left = ghost.left
  BY DEF HistoryRenders, server, IndInv, TypeOK, Ghosts
<1>2. Settled
  BY <1>1 DEF Settled
<1>3. Grown /\ Waiting' = Waiting /\ \A s : SentIn(s)' = SentIn(s)
  BY <1>2, SettledSets
<1>4. Placed'
  BY <1>1, <1>3, PlacedStays DEF PlaceInv
<1>5. LastSwitch'
  BY <1>1 DEF PlaceInv, LastSwitch
<1>6. Shown'
  <2>1. CASE Fresh(l)
    <3>1. box'.sess = cur' /\ box'.live \cup box'.replies \subseteq SentIn(cur)'
      BY <1>1, <1>3, <2>1 DEF PlaceInv, Placed, Fresh
    <3> QED BY <3>1 DEF Shown
  <2>2. CASE ~Fresh(l)
    <3>1. l.token # token
      BY <2>2 DEF PlaceInv, LastSwitch, Fresh
    <3> QED BY <1>1, <1>3, <2>2, <3>1 DEF PlaceInv, Shown
  <2> QED BY <2>1, <2>2
<1>7. WaitsAtHome' /\ StreamsHere'
  BY <1>1, <1>3 DEF PlaceInv, WaitsAtHome, StreamsHere, Can
<1> QED BY <1>4, <1>5, <1>6, <1>7 DEF PlaceInv

\* The two hold from the start, where no one waits.
LEMMA PlaceInit ==
  ASSUME SendsDoNotWait, Init
  PROVE  PlaceInv
<1> USE ChatClientAssumption DEF ChatClientAssumption
<1>1. PICK s \in Sessions, r \in Sessions, b \in Budgets :
        /\ cur = s /\ token = 0
        /\ loads = IF b.reloads > 0
                   THEN {[token |-> 0, sess |-> s, phase |-> "fetch", page |-> {}]}
                   ELSE {}
        /\ box = [sess |-> s, live |-> {}, replies |-> {}]
        /\ turn = [n \in Turns |->
                     IF b.reloads > 0 /\ n = 1
                     THEN [sess |-> r, typed |-> r, phase |-> "closed"]
                     ELSE [sess |-> s, typed |-> s, phase |-> "unsent"]]
        /\ ui = [streaming |-> FALSE, abort |-> NoTurn, aborted |-> FALSE,
                 session |-> NoSession, queue |-> <<>>, drain |-> FALSE,
                 promoted |-> <<>>, nudges |-> 0, hide |-> FALSE,
                 recover |-> {}, probe |-> NoSession]
        /\ bg = [t \in Sessions |-> "none"]
        /\ polls = {} /\ resuming = {} /\ checks = {} /\ waits = {}
        /\ completed = {} /\ marked = {}
        /\ run = [t \in Sessions |-> IF b.reloads > 0 /\ t = r THEN 1 ELSE NoTurn]
        /\ saved = {} /\ stops = {}
        /\ ghost = [left |-> b, unseen |-> {}, automatic |-> 0]
  BY ChatClientAssumption DEF Init
<1>2. b \in [Spendable -> 0 .. MaxTurns] /\ {"reloads", "gaps", "selects"} \subseteq Spendable
  BY DEF Spendable
<1>3. b.reloads > 0 => 1 \in Turns
  BY <1>2 DEF Turns
<1>4. Placed
  <2>1. \A t \in Sessions : run[t] \in SentIn(t) \cup {NoTurn}
    <3> SUFFICES ASSUME NEW t \in Sessions, run[t] # NoTurn PROVE run[t] \in SentIn(t)
      OBVIOUS
    <3>1. b.reloads > 0 /\ t = r /\ run[t] = 1
      BY <1>1
    <3> QED BY <1>1, <1>3, <3>1 DEF SentIn
  <2>2. \A l \in loads : l.page = {}
    BY <1>1
  <2> QED BY <1>1, <2>1, <2>2 DEF Placed
<1>5. LastSwitch /\ Shown
  <2>1. \A l \in loads : l.token = 0 /\ l.sess = s
    BY <1>1
  <2> QED BY <1>1, <2>1 DEF LastSwitch, Shown
<1>6. Waiting = {}
  BY <1>1 DEF Waiting
<1>7. WaitsAtHome
  <2>1. b["gaps"] = 0 \/ b["selects"] = 0
    BY DEF SendsDoNotWait
  <2> QED BY <1>1, <1>2, <1>6, <2>1 DEF WaitsAtHome, Can
<1>8. StreamsHere
  BY <1>1 DEF StreamsHere
<1> QED BY <1>4, <1>5, <1>7, <1>8 DEF PlaceInv

\* Every task of the page and every step of the server keeps the turns in place.
LEMMA PlaceStep ==
  IndInv /\ PlaceInv /\ [Next]_vars => PlaceInv'
<1> USE ChatClientAssumption DEF ChatClientAssumption
<1> SUFFICES ASSUME IndInv, PlaceInv, [Next]_vars PROVE PlaceInv'
  OBVIOUS
<1>0. /\ ui \in Globals /\ ghost \in Ghosts /\ cur \in Sessions
      /\ ReadersType /\ MarksType
  BY DEF IndInv, TypeOK, SwitcherType
<1> DEFINE Frugal(g) == /\ g \in Ghosts
                        /\ g.left["gaps"] > 0 => Can("gaps")
                        /\ g.left["selects"] > 0 => Can("selects")
<1>00. Frugal(ghost) /\ \A what \in Spendable : Frugal(Spent(what))
  <2>1. ASSUME NEW what \in Spendable PROVE Frugal(Spent(what))
    <3>1. Spent(what) \in Ghosts
      BY <1>0, SpendKeeps DEF Spent
    <3>2. /\ \A w \in Spendable : ghost.left[w] \in Int
          /\ \A w \in Spendable :
               Spent(what).left[w] = IF w = what THEN ghost.left[w] - 1 ELSE ghost.left[w]
      BY <1>0 DEF Spent, Ghosts
    <3>3. "gaps" \in Spendable /\ "selects" \in Spendable
      BY DEF Spendable
    <3> QED BY <3>1, <3>2, <3>3 DEF Can
  <2> QED BY <1>0, <2>1 DEF Can
<1>01. ASSUME NEW what \in Spendable, ghost' = Spent(what) PROVE NoIncome
  BY <1>00, <1>01 DEF NoIncome, Can
<1>02. UNCHANGED ghost => NoIncome
  BY DEF NoIncome, Can
<1>03. Spendable = {"typed", "turns", "selects", "losses", "failures", "stops",
                    "promotes", "gaps", "reloads", "refusals", "errors"}
  BY DEF Spendable
<1> HIDE DEF Frugal
<1>04. \A u \in Globals : (u.session = ui.session /\ u.streaming = ui.streaming /\ u.abort = ui.abort)
                          => Tame(ui, u)
  BY DEF Tame
<1>05. UNCHANGED turn => Settled
  BY DEF Settled
<1> DEFINE Same(u) == /\ u \in Globals /\ u.session = ui.session
                      /\ u.streaming = ui.streaming /\ u.abort = ui.abort
<1>1. CASE TypeAndSend
  <2>1. Send(ui, cur, Spent("typed"))
    BY <1>1 DEF TypeAndSend
  <2> QED BY <1>0, <1>00, <1>03, <2>1, SendPlaces DEF Frugal
<1>2. CASE ClickStop
  <2>1. StopStreaming(ui, Spent("stops"))
    BY <1>2 DEF ClickStop
  <2> QED BY <1>0, <1>00, <1>03, <1>04, <2>1, StopPlaces DEF Frugal
<1>3. CASE QueueAgentRequest
  <2>1. Tame(ui, ui') /\ NoIncome
    BY <1>0, <1>01, <1>03, <1>3 DEF QueueAgentRequest, Tame, Globals
  <2> QED BY <1>05, <1>3, <2>1, SettledPlaces DEF QueueAgentRequest, watchers, server
<1>4. CASE DrainFires
  <2> DEFINE u == [ui EXCEPT !.drain = FALSE]
             v == [u EXCEPT !.queue = Tail(@)]
  <2>1. Same(u) /\ u.queue = ui.queue
    BY <1>0 DEF Globals
  <2>2. CASE ui' = u /\ UNCHANGED <<switcher, box, turn, watchers, server, ghost>>
    <3>1. Tame(ui, ui')
      BY <1>04, <2>1, <2>2
    <3> QED BY <1>02, <1>05, <2>2, <3>1, SettledPlaces DEF watchers, server
  <2>3. CASE u.queue # <<>> /\ Send(v, Head(u.queue), ghost)
    <3> HIDE DEF u
    <3>1. u.queue \in Seq(Sessions) /\ u.queue # <<>>
      BY <2>1, <2>3 DEF Globals
    <3>2. Head(u.queue) \in Sessions /\ Tail(u.queue) \in Seq(Sessions)
      BY <3>1
    <3>3. v \in Globals
      BY <2>1, <3>2 DEF Globals
    <3> HIDE DEF v
    <3> QED BY <1>00, <2>3, <3>2, <3>3, SendPlaces DEF Frugal
  <2> QED BY <1>4, <2>2, <2>3 DEF DrainFires
<1>5. CASE PromotedFires
  <2> DEFINE v == [ui EXCEPT !.promoted = <<>>]
  <2>1. Send(v, Head(ui.promoted), ghost) /\ ui.promoted # <<>>
    BY <1>5 DEF PromotedFires
  <2>2. v \in Globals
    <3>1. <<>> \in Seq(Sessions)
      OBVIOUS
    <3> QED BY <1>0, <3>1 DEF Globals
  <2>3. ui.promoted \in Seq(Sessions)
    BY <1>0 DEF Globals
  <2>4. Head(ui.promoted) \in Sessions
    BY <2>1, <2>3
  <2> HIDE DEF v
  <2> QED BY <1>00, <2>1, <2>2, <2>4, SendPlaces DEF Frugal
<1>6. CASE ProbeStarts
  <2>1. Tame(ui, ui')
    BY <1>0, <1>6 DEF ProbeStarts, Tame, Globals
  <2> QED BY <1>02, <1>05, <1>6, <2>1, SettledPlaces DEF ProbeStarts, watchers, server
<1>7. CASE ProbeAnswers
  <2> DEFINE u == [ui EXCEPT !.probe = NoSession]
             hit == Victims(u)
  <2>1. Same(u)
    BY <1>0 DEF Globals
  <2>2. /\ \/ ui' = u /\ UNCHANGED turn
           \/ /\ turn' = CloseAll(hit)
              /\ ui' = IF hit = {} THEN Unlocked(u) ELSE Caught(Unlocked(u), u.abort, cur, bg)
        /\ UNCHANGED <<switcher, box, resuming, run, saved, ghost>>
    BY <1>7 DEF ProbeAnswers, watchers, server
  <2> HIDE DEF u
  <2>3. Unlocked(u) \in Globals /\ Tame(ui, Unlocked(u))
    <3>1. Aborted(u) \in Globals /\ Tame(u, Aborted(u))
      BY <2>1, BlocksKeep, BlocksTame
    <3> DEFINE w == Idle(Aborted(u))
    <3>2. w \in Globals /\ Tame(Aborted(u), w)
      BY <3>1, BlocksKeep, BlocksTame
    <3>3. Unlocked(u) = DrainQueuedAgentRequests(w)
      BY DEF Unlocked
    <3> HIDE DEF w
    <3>4. Unlocked(u) \in Globals /\ Tame(w, Unlocked(u))
      BY <3>2, <3>3, BlocksKeep, BlocksTame
    <3>5. Tame(u, w)
      BY <3>1, <3>2, TameTrans
    <3>6. Tame(u, Unlocked(u))
      BY <3>4, <3>5, TameTrans
    <3>7. Tame(ui, u)
      BY <1>04, <2>1
    <3> QED BY <3>4, <3>6, <3>7, TameTrans
  <2>4. Tame(ui, ui')
    <3>1. CASE ui' = u
      BY <1>04, <2>1, <3>1
    <3>2. CASE ui' = Unlocked(u)
      BY <2>3, <3>2
    <3>3. CASE hit # {} /\ ui' = Caught(Unlocked(u), u.abort, cur, bg)
      <4>1. u.abort \in Turns
        BY <1>0, <2>1, <3>3, VictimsKeep
      <4>2. Tame(Unlocked(u), ui')
        BY <2>3, <3>3, <4>1, CaughtTame
      <4> QED BY <2>3, <4>2, TameTrans
    <3> QED BY <2>2, <3>1, <3>2, <3>3
  <2>5. Settled
    BY <1>0, <1>05, <2>2, VictimsSettle
  <2> QED BY <1>02, <2>2, <2>4, <2>5, SettledPlaces
<1>8. ASSUME NEW i \in 1 .. MaxTurns, PromoteQueuedRequest(i) PROVE PlaceInv'
  <2> DEFINE u == [ui EXCEPT !.queue = RemoveAt(@, i)]
             v == [u EXCEPT !.promoted = <<ui.queue[i]>>]
  <2>1. /\ i \in DOMAIN ui.queue
        /\ \/ Send(u, ui.queue[i], Spent("promotes"))
           \/ StopStreaming(v, Spent("promotes"))
    BY <1>8 DEF PromoteQueuedRequest
  <2>2. ui.queue[i] \in Sessions /\ RemoveAt(ui.queue, i) \in Seq(Sessions)
    <3>1. ui.queue \in Seq(Sessions) /\ i \in 1 .. Len(ui.queue)
      BY <1>0, <2>1 DEF Globals
    <3>2. /\ SubSeq(ui.queue, 1, i - 1) \in Seq(Sessions)
          /\ SubSeq(ui.queue, i + 1, Len(ui.queue)) \in Seq(Sessions)
      BY <3>1
    <3> QED BY <3>1, <3>2 DEF RemoveAt
  <2>3. Same(u)
    BY <1>0, <2>2 DEF Globals
  <2> HIDE DEF u
  <2>4. Same(v)
    <3>1. <<ui.queue[i]>> \in Seq(Sessions)
      BY <2>2
    <3> QED BY <2>3, <3>1 DEF Globals
  <2>5. CASE Send(u, ui.queue[i], Spent("promotes"))
    BY <1>00, <1>03, <2>2, <2>3, <2>5, SendPlaces DEF Frugal
  <2>6. CASE StopStreaming(v, Spent("promotes"))
    <3> HIDE DEF v
    <3>1. Tame(ui, v) /\ v \in Globals
      BY <1>04, <2>4
    <3> QED BY <1>00, <1>03, <2>6, <3>1, StopPlaces DEF Frugal
  <2> QED BY <2>1, <2>5, <2>6
<1>9. ASSUME NEW n \in Turns, Post(n) PROVE PlaceInv'
  BY <1>9, PostPlaces
<1>10. ASSUME NEW n \in Turns, RecoverFires(n) PROVE PlaceInv'
  <2> DEFINE u == [ui EXCEPT !.recover = @ \ {n}]
             g == [ghost EXCEPT !.automatic = @ + 1]
  <2>1. Same(u)
    BY <1>0 DEF Globals
  <2>2. g \in Ghosts /\ g.left = ghost.left
    BY <1>0 DEF Ghosts
  <2>3. \/ /\ ui' = [u EXCEPT !.hide = FALSE]
           /\ UNCHANGED <<switcher, box, turn, watchers, server, ghost>>
        \/ StopStreaming(u, ghost)
        \/ Send(u, cur, g)
    BY <1>10 DEF RecoverFires
  <2> HIDE DEF u, g
  <2>4. CASE /\ ui' = [u EXCEPT !.hide = FALSE]
             /\ UNCHANGED <<switcher, box, turn, watchers, server, ghost>>
    <3>1. Tame(ui, ui')
      BY <2>1, <2>4 DEF Tame, Globals
    <3> QED BY <1>02, <1>05, <2>4, <3>1, SettledPlaces DEF watchers, server
  <2>5. CASE StopStreaming(u, ghost)
    <3>1. Tame(ui, u) /\ u \in Globals
      BY <1>04, <2>1
    <3> QED BY <1>00, <2>5, <3>1, StopPlaces DEF Frugal
  <2>6. CASE Send(u, cur, g)
    <3>1. g.left["gaps"] > 0 => Can("gaps")
      BY <2>2 DEF Can
    <3>2. g.left["selects"] > 0 => Can("selects")
      BY <2>2 DEF Can
    <3> QED BY <1>0, <2>1, <2>2, <2>6, <3>1, <3>2, SendPlaces
  <2> QED BY <2>3, <2>4, <2>5, <2>6
<1>11. ASSUME NEW n \in Turns, ReadLine(n) PROVE PlaceInv'
  <2>1. Tame(ui, ui')
    BY <1>11 DEF ReadLine, Tame
  <2> QED BY <1>02, <1>05, <1>11, <2>1, SettledPlaces DEF ReadLine, watchers, server
<1>12. ASSUME NEW n \in Turns, ReadDone(n) PROVE PlaceInv'
  <2>1. Tame(ui, ui') /\ Settled
    BY <1>0, <1>12 DEF ReadDone, Tame, Settled, ReadersType, Calls
  <2>2. ghost'.left = ghost.left
    BY <1>0, <1>12 DEF ReadDone, Ghosts
  <2> QED BY <1>12, <2>1, <2>2, SettledPlaces DEF ReadDone, watchers, server, NoIncome, Can
<1>13. ASSUME NEW n \in Turns, ReadClose(n) PROVE PlaceInv'
  <2>1. Settled
    BY <1>0, <1>13 DEF ReadClose, Settled, ReadersType, Calls
  <2>2. Tame(ui, ui')
    <3>1. Idle(ui) \in Globals /\ Tame(ui, Idle(ui))
      BY <1>0, BlocksKeep, BlocksTame
    <3>2. \/ ui' = DrainQueuedAgentRequests(ui)
          \/ ui' = DrainQueuedAgentRequests(Idle(ui))
      BY <1>13 DEF ReadClose
    <3>3. Tame(Idle(ui), DrainQueuedAgentRequests(Idle(ui)))
      BY <3>1, BlocksTame
    <3> QED BY <1>0, <3>1, <3>2, <3>3, BlocksTame, TameTrans
  <2>3. /\ box'.sess = box.sess
        /\ box'.live \cup box'.replies \subseteq box.live \cup box.replies
    <3>1. \/ box' = box
          \/ n \in box.live /\ box' = [box EXCEPT !.live = @ \ {n}, !.replies = @ \cup {n}]
      BY <1>13 DEF ReadClose
    <3> QED BY <1>0, <3>1 DEF ReadersType
  <2> QED BY <1>13, <2>1, <2>2, <2>3, BoxPlaces DEF ReadClose, watchers, server
<1>14. ASSUME NEW n \in Turns, ReadFails(n) PROVE PlaceInv'
  <2>1. Settled
    BY <1>0, <1>14 DEF ReadFails, Live, Settled, ReadersType, Calls
  <2>2. Tame(ui, ui')
    <3>1. ui' \in {Caught(ui, n, cur, bg), CaughtForGood(ui, n, cur, bg)}
      BY <1>14 DEF ReadFails
    <3> QED BY <1>0, <3>1, CaughtTame, CaughtForGoodTame
  <2>3. NoIncome
    BY <1>01, <1>02, <1>03, <1>14 DEF ReadFails
  <2> QED BY <1>14, <2>1, <2>2, <2>3, SettledPlaces DEF ReadFails, watchers, server
<1>15. ASSUME NEW s \in Sessions, ClickSession(s) PROVE PlaceInv'
  <2>1. Waiting = {}
    BY <1>15 DEF ClickSession, PlaceInv, WaitsAtHome
  <2>2. NoIncome
    BY <1>01, <1>03, <1>15 DEF ClickSession
  <2>3. bg \in [Sessions -> Statuses]
    BY <1>0 DEF MarksType
  <2> QED BY <1>15, <2>1, <2>2, <2>3, SelectPlaces DEF ClickSession, watchers, server
<1>16. ASSUME NEW s \in Sessions, PollTick(s) PROVE PlaceInv'
  <2>1. CASE cur # s /\ UNCHANGED <<switcher, turn, ui>>
    <3>1. Tame(ui, ui')
      BY <2>1 DEF Tame
    <3> QED BY <1>02, <1>05, <1>16, <2>1, <3>1, SettledPlaces DEF PollTick, server
  <2>2. CASE cur = s /\ SelectSession(s, [bg EXCEPT ![s] = "none"])
    <3>1. [bg EXCEPT ![s] = "none"] \in [Sessions -> Statuses]
      BY <1>0 DEF MarksType, Statuses
    <3> QED BY <1>02, <1>16, <2>2, <3>1, SelectPlaces DEF PollTick, server
  <2> QED BY <1>16, <2>1, <2>2 DEF PollTick
<1>17. ASSUME NEW s \in Sessions, CheckAnswers(s) PROVE PlaceInv'
  <2>1. UNCHANGED <<switcher, turn, ui, run, saved, ghost>>
    BY <1>17 DEF CheckAnswers, server
  <2>2. /\ \A r \in resuming' \ resuming : r[2] \in SentIn(r[1])
        /\ box'.sess = box.sess
        /\ box'.live \cup box'.replies \subseteq box.live \cup box.replies \cup SentIn(cur)
    <3>1. CASE UNCHANGED <<box, resuming>>
      BY <3>1
    <3>2. CASE /\ run[s] # NoTurn /\ cur = s /\ resuming' = resuming \cup {<<s, run[s]>>}
               /\ box' = [box EXCEPT !.live = @ \cup {run[s]}]
      <4>1. run[s] \in SentIn(s)
        BY <3>2 DEF PlaceInv, Placed
      <4> QED BY <1>0, <3>2, <4>1 DEF ReadersType
    <3> QED BY <1>17, <3>1, <3>2 DEF CheckAnswers
  <2>3. Tame(ui, ui') /\ Settled
    BY <2>1 DEF Tame, Settled
  <2> QED BY <2>1, <2>2, <2>3, BoxPlaces
<1>18. ASSUME NEW s \in Sessions, WaitTick(s) PROVE PlaceInv'
  <2>1. CASE cur # s /\ UNCHANGED <<switcher, turn, ui>>
    <3>1. Tame(ui, ui')
      BY <2>1 DEF Tame
    <3> QED BY <1>02, <1>05, <1>18, <2>1, <3>1, SettledPlaces DEF WaitTick, server
  <2>2. CASE cur = s /\ SelectSession(s, bg)
    <3>1. bg \in [Sessions -> Statuses]
      BY <1>0 DEF MarksType
    <3> QED BY <1>02, <1>18, <2>2, <3>1, SelectPlaces DEF WaitTick, server
  <2> QED BY <1>18, <2>1, <2>2 DEF WaitTick
<1>19. ASSUME NEW s \in Sessions, RunEnds(s) PROVE PlaceInv'
  <2>1. saved' \subseteq saved \cup ({run[s]} \ {NoTurn})
    BY <1>19 DEF RunEnds
  <2> QED BY <1>19, <2>1, RunPlaces DEF RunEnds, watchers
<1>20. ASSUME NEW s \in Sessions, StopArrives(s) PROVE PlaceInv'
  BY <1>20, RunPlaces DEF StopArrives, watchers
<1>21. ASSUME NEW l \in loads, HistoryArrives(l) PROVE PlaceInv'
  <2> DEFINE m == [l EXCEPT !.phase = "fade", !.page = saved \cap TurnsOf(l.sess)]
  <2>1. l \in Loads
    BY DEF IndInv, TypeOK, SwitcherType
  <2>2. m.token = l.token /\ m.sess = l.sess /\ m.page = saved \cap TurnsOf(l.sess)
    BY <2>1 DEF Loads
  <2>3. saved \cap TurnsOf(l.sess) \subseteq SentIn(l.sess)
    BY DEF PlaceInv, Placed, TurnsOf, SentIn
  <2>4. loads' = (loads \ {l}) \cup (IF Fresh(l) THEN {m} ELSE {})
    BY <1>21 DEF HistoryArrives
  <2> HIDE DEF m
  <2> QED BY <1>02, <1>21, <2>2, <2>3, <2>4, LoadPlaces DEF HistoryArrives, watchers, server
<1>22. ASSUME NEW l \in loads, HistoryFails(l) PROVE PlaceInv'
  <2> DEFINE m == [l EXCEPT !.phase = "failed"]
  <2>1. l \in Loads
    BY DEF IndInv, TypeOK, SwitcherType
  <2>2. m.token = l.token /\ m.sess = l.sess /\ m.page = l.page
    BY <2>1 DEF Loads
  <2>3. l.page \subseteq SentIn(l.sess)
    BY DEF PlaceInv, Placed
  <2>4. loads' = (loads \ {l}) \cup (IF Fresh(l) THEN {m} ELSE {})
    BY <1>22 DEF HistoryFails
  <2>5. NoIncome
    BY <1>01, <1>03, <1>22 DEF HistoryFails
  <2> HIDE DEF m
  <2> QED BY <1>22, <2>2, <2>3, <2>4, <2>5, LoadPlaces DEF HistoryFails, watchers, server
<1>23. ASSUME NEW l \in loads, HistoryRenders(l) PROVE PlaceInv'
  BY <1>23, RenderPlaces
<1>24. ASSUME NEW r \in resuming, ResumeEnds(r) PROVE PlaceInv'
  <2>1. r[1] \in Sessions /\ r[2] \in SentIn(r[1]) /\ resuming' \subseteq resuming
    BY <1>0, <1>24 DEF ResumeEnds, ReadersType, PlaceInv, Placed
  <2>2. CASE cur = r[1] /\ SelectSession(r[1], bg)
    <3>1. bg \in [Sessions -> Statuses]
      BY <1>0 DEF MarksType
    <3> QED BY <1>02, <1>24, <2>1, <2>2, <3>1, SelectPlaces DEF ResumeEnds, server
  <2>3. CASE /\ UNCHANGED <<switcher, turn, ui>>
             /\ \/ box' = [box EXCEPT !.live = @ \ {r[2]}]
                \/ cur = r[1] /\ box' = [box EXCEPT !.live = @ \ {r[2]},
                                                    !.replies = @ \cup {r[2]}]
    <3>1. /\ box'.sess = box.sess
          /\ box'.live \cup box'.replies \subseteq box.live \cup box.replies \cup SentIn(cur)
      <4> DEFINE m == r[2]
      <4>1. m \in SentIn(r[1])
        BY <2>1
      <4>2. \/ box' = [box EXCEPT !.live = @ \ {m}]
            \/ cur = r[1] /\ box' = [box EXCEPT !.live = @ \ {m}, !.replies = @ \cup {m}]
        BY <2>3
      <4>3. box \in [sess : Sessions, live : SUBSET Turns, replies : SUBSET Turns]
        BY <1>0 DEF ReadersType
      <4> HIDE DEF m
      <4>4. CASE box' = [box EXCEPT !.live = @ \ {m}]
        BY <4>3, <4>4
      <4>5. CASE cur = r[1] /\ box' = [box EXCEPT !.live = @ \ {m}, !.replies = @ \cup {m}]
        <5>1. /\ box'.sess = box.sess /\ box'.live = box.live \ {m}
              /\ box'.replies = box.replies \cup {m}
          BY <4>3, <4>5
        <5> QED BY <4>1, <4>5, <5>1
      <4> QED BY <4>2, <4>4, <4>5
    <3>2. Tame(ui, ui') /\ Settled
      BY <2>3 DEF Tame, Settled
    <3> QED BY <1>24, <2>1, <2>3, <3>1, <3>2, BoxPlaces DEF ResumeEnds, server
  <2> QED BY <1>24, <2>2, <2>3 DEF ResumeEnds
<1>25. ASSUME NEW n \in Turns, UploadFails(n) PROVE PlaceInv'
  BY <1>25, UploadPlaces
<1>26. ASSUME NEW n \in Turns, ReadRefusal(n) PROVE PlaceInv'
  <2>1. Settled
    BY <1>0, <1>26 DEF ReadRefusal, Settled, ReadersType, Calls
  <2>2. Tame(ui, ui')
    BY <1>0, <1>26, ReturnedTame DEF ReadRefusal
  <2>3. /\ box'.sess = box.sess
        /\ box'.live \cup box'.replies \subseteq box.live \cup box.replies
    <3>1. box' = box \/ box' = [box EXCEPT !.live = @ \ {n}]
      BY <1>26 DEF ReadRefusal
    <3> QED BY <1>0, <3>1 DEF ReadersType
  <2> QED BY <1>26, <2>1, <2>2, <2>3, BoxPlaces DEF ReadRefusal, watchers, server
<1>27. ASSUME NEW n \in Turns, ReadErrorAway(n) PROVE PlaceInv'
  <2>1. Settled
    BY <1>0, <1>27 DEF ReadErrorAway, Settled, ReadersType, Calls
  <2>2. Tame(ui, ui')
    BY <1>0, <1>27, ReturnedTame DEF ReadErrorAway
  <2>3. NoIncome
    BY <1>01, <1>03, <1>27 DEF ReadErrorAway
  <2> QED BY <1>27, <2>1, <2>2, <2>3, SettledPlaces DEF ReadErrorAway, watchers, server
<1>28. CASE UNCHANGED vars
  <2>1. Tame(ui, ui')
    BY <1>28 DEF vars, Tame
  <2>2. UNCHANGED <<switcher, box, turn, resuming, run, saved, ghost>>
    BY <1>28 DEF vars, switcher
  <2> QED BY <1>02, <1>05, <2>1, <2>2, SettledPlaces
<1> QED BY <1>1, <1>2, <1>3, <1>4, <1>5, <1>6, <1>7, <1>8, <1>9, <1>10, <1>11, <1>12,
           <1>13, <1>14, <1>15, <1>16, <1>17, <1>18, <1>19, <1>20, <1>21, <1>22,
           <1>23, <1>24, <1>25, <1>26, <1>27, <1>28 DEF Next

\* Whatever a page may do short of changing chats while a send waits, the two
\* hold together.
LEMMA Placing == SendsDoNotWait => (Spec => [](IndInv /\ PlaceInv))
<1> SUFFICES ASSUME SendsDoNotWait PROVE Spec => [](IndInv /\ PlaceInv)
  OBVIOUS
<1>1. Init => PlaceInv
  BY PlaceInit
<1>2. IndInv /\ PlaceInv /\ [Next]_vars => PlaceInv'
  BY PlaceStep
<1> QED BY <1>1, <1>2, Inductive, PTL DEF Spec

\* Once no switch is under way the page shows the open chat and nothing of
\* another, for any number of chats, switches and histories that overtake each
\* other.
THEOREM ScreenIsCurrent == SendsDoNotWait => (Spec => []BoxIsCurrent)
<1> SUFFICES ASSUME SendsDoNotWait PROVE Spec => []BoxIsCurrent
  OBVIOUS
<1>1. PlaceInv => BoxIsCurrent
  BY DEF PlaceInv, Shown, SentIn, BoxIsCurrent
<1> QED BY <1>1, Placing, PTL

\* A stop asks the server to cancel the run of the open chat and of no other,
\* whether it was clicked, came from a queued bubble or from a recovery whose
\* click met a reply.
THEOREM StopIsAimed == SendsDoNotWait => (Spec => StopHitsOpenChat)
<1> SUFFICES ASSUME SendsDoNotWait PROVE Spec => StopHitsOpenChat
  OBVIOUS
<1>1. IndInv /\ PlaceInv /\ [Next]_vars => [\A s \in stops' \ stops : s = cur]_vars
  <2> SUFFICES ASSUME IndInv, PlaceInv, Next, NEW s \in stops' \ stops PROVE s = cur
    OBVIOUS
  <2>0. ui \in Globals /\ (ui.streaming => ui.session = cur)
    BY DEF PlaceInv, StreamsHere, IndInv, TypeOK
  <2>1. ASSUME NEW u, NEW g, StopStreaming(u, g), u.session = ui.session, ui.streaming
        PROVE  s = cur
    BY <2>0, <2>1 DEF StopStreaming
  <2>2. ASSUME NEW u, NEW from, NEW g, Send(u, from, g)
        PROVE  FALSE
    BY <2>2 DEF Send
  <2>3. CASE TypeAndSend \/ QueueAgentRequest \/ DrainFires \/ PromotedFires
    BY <2>2, <2>3 DEF TypeAndSend, QueueAgentRequest, DrainFires, PromotedFires, server
  <2>4. CASE ClickStop
    BY <2>1, <2>4 DEF ClickStop
  <2>5. CASE ProbeStarts \/ ProbeAnswers
    BY <2>5 DEF ProbeStarts, ProbeAnswers, server
  <2>6. ASSUME NEW i \in 1 .. MaxTurns, PromoteQueuedRequest(i) PROVE s = cur
    <3> DEFINE u == [ui EXCEPT !.queue = RemoveAt(@, i)]
               v == [u EXCEPT !.promoted = <<ui.queue[i]>>]
    <3>1. \/ Send(u, ui.queue[i], Spent("promotes"))
          \/ ui.streaming /\ StopStreaming(v, Spent("promotes"))
      BY <2>0, <2>6 DEF PromoteQueuedRequest, Globals
    <3>2. v.session = ui.session
      BY <2>0 DEF Globals
    <3> HIDE DEF u, v
    <3> QED BY <2>1, <2>2, <3>1, <3>2
  <2>7. ASSUME NEW n \in Turns, RecoverFires(n) PROVE s = cur
    <3> DEFINE u == [ui EXCEPT !.recover = @ \ {n}]
    <3>1. \/ Send(u, cur, [ghost EXCEPT !.automatic = @ + 1])
          \/ ui.streaming /\ StopStreaming(u, ghost)
      BY <2>0, <2>7 DEF RecoverFires, Globals, server
    <3>2. u.session = ui.session
      BY <2>0 DEF Globals
    <3> HIDE DEF u
    <3> QED BY <2>1, <2>2, <3>1, <3>2
  <2>8. ASSUME NEW n \in Turns,
               \/ Post(n) \/ UploadFails(n) \/ ReadLine(n) \/ ReadDone(n) \/ ReadClose(n)
               \/ ReadRefusal(n) \/ ReadErrorAway(n) \/ ReadFails(n)
        PROVE  FALSE
    BY <2>8 DEF Post, UploadFails, ReadLine, ReadDone, ReadClose, ReadRefusal,
                ReadErrorAway, ReadFails, server
  <2>9. ASSUME NEW t \in Sessions,
               \/ ClickSession(t) \/ PollTick(t) \/ CheckAnswers(t) \/ WaitTick(t)
               \/ RunEnds(t) \/ StopArrives(t)
        PROVE  FALSE
    BY <2>9 DEF ClickSession, PollTick, CheckAnswers, WaitTick, RunEnds, StopArrives, server
  <2>10. ASSUME NEW l \in loads, HistoryArrives(l) \/ HistoryFails(l) \/ HistoryRenders(l)
         PROVE  FALSE
    BY <2>10 DEF HistoryArrives, HistoryFails, HistoryRenders, server
  <2>11. ASSUME NEW r \in resuming, ResumeEnds(r) PROVE FALSE
    BY <2>11 DEF ResumeEnds, server
  <2> QED BY <2>3, <2>4, <2>5, <2>6, <2>7, <2>8, <2>9, <2>10, <2>11 DEF Next
<1> QED BY <1>1, Placing, PTL DEF StopHitsOpenChat, Spec
=============================================================================
