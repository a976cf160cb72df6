--------------------------- MODULE SessionHistory ---------------------------
(***************************************************************************)
(* One chat session (core/session_manager.py, core/models.py): its row and *)
(* its messages in the database, and the Session objects that hold the     *)
(* same list in memory.  SessionManager.sessions names one object; a chat  *)
(* turn keeps the object it was given, across every await of the turn, and *)
(* a compaction keeps a copy of the list while a model writes the summary. *)
(*                                                                         *)
(* The event loop runs one handler at a time, so what lies between two     *)
(* awaits is one step; delete_session runs in a worker thread and takes    *)
(* two, and so does get_session in the routes that are plain functions.    *)
(* What a thread does falls between the steps of the loop, not inside one. *)
(* Rows are listed in the order of their timestamps, which is the order    *)
(* they were written in.  Commits succeed, save those that meet the        *)
(* transaction of a deletion: they wait for it, and then find no row.      *)
(* Messages refer to no uploads: one whose upload is gone would stay in    *)
(* memory without a row, and a replacement by such a one is not made.      *)
(***************************************************************************)
EXTENDS Naturals, Sequences, FiniteSets

CONSTANTS
  Turns,          \* chat turns, each with its own reference to the session
  Objs,           \* Session objects
  None,           \* Python's None
  Opening,        \* how many messages the session has when the model begins
  CompactMin,     \* the shortest history the compact route accepts (6)
  KeepLeast,      \* it keeps a part of the history, at least so many messages (4)
  KeepMost,       \* and at most so many (8):
  KeepPart,       \* one of so many messages (4)
  PrefaceSystem,  \* system messages build_context_preface puts before the history
  PrefaceUser,    \* and messages it puts there in the role of the user
  MaxMessages,    \* bound: messages
  MaxEdits,       \* bound: truncations, deletions and merges of messages, and
                  \* loads in a thread
  MaxCrashes      \* bound: restarts of the server

ASSUME ConstantsAssumption ==
  /\ None \notin Objs /\ IsFiniteSet(Turns) /\ IsFiniteSet(Objs)
  /\ Cardinality(Objs) >= Cardinality(Turns) + 2
  /\ {Opening, CompactMin, PrefaceUser, MaxEdits, MaxCrashes} \subseteq Nat
  /\ {KeepLeast, KeepMost, KeepPart, PrefaceSystem} \subseteq Nat \ {0}
  /\ KeepLeast < CompactMin /\ KeepPart > 1
  /\ MaxMessages \in Nat /\ Opening <= MaxMessages

VARIABLES
  row,         \* message_count of the session's row, or None when there is none
  rows,        \* the messages of the session in the database
  deleting,    \* delete_session has executed its DELETEs and not committed
  cached,      \* the object SessionManager.sessions holds, or None
  heap,        \* of each object: history, message_count, and the ids (_db_id) its
               \* messages carry, by which the user names them
  turn,        \* where each turn is, and the object it holds
  compaction,  \* the compact route: idle, or what it has read
  reader,      \* get_session in a worker thread: idle, or what it has read
  said,        \* the role of every message so far; a message is its number
  strayed,     \* a step that Agreement leaves out was taken: see Truncate,
               \* DeleteMessages and ThreadStores (no part of the program)
  edits, crashes   \* what the bounds count

vars == <<row, rows, deleting, cached, heap, turn, compaction, reader, said, strayed, edits,
          crashes>>

Roles    == {"user", "assistant", "system"}
Messages == 1..MaxMessages
Own      == [n \in Messages |-> n]
Blank    == [hist |-> <<>>, count |-> 0, ids |-> Own]
Idle     == [at |-> "idle", obj |-> None, cut |-> 0, system |-> 0, older |-> {}]
Resting  == [at |-> "idle", recent |-> <<>>]
NoThread == [at |-> "idle", hist |-> <<>>, count |-> 0]

Elements(s) == {s[i] : i \in DOMAIN s}

\* The k-th of the positions I, and the messages s has at them, in their order.
Place(I, k) == CHOOSE i \in I : Cardinality({j \in I : j <= i}) = k
Only(s, I)  == [k \in 1..Cardinality(I) |-> s[Place(I, k)]]

Init ==
  /\ rows = [n \in 1..Opening |-> n]
  /\ said = [n \in 1..Opening |-> IF n % 2 = 1 THEN "user" ELSE "assistant"]
  /\ row = Opening /\ deleting = FALSE
  /\ cached = None /\ heap = [o \in Objs |-> Blank]
  /\ turn = [t \in Turns |-> Idle] /\ compaction = Resting /\ reader = NoThread
  /\ strayed = FALSE /\ edits = 0 /\ crashes = 0

-----------------------------------------------------------------------------
(* The session in memory.                                                   *)

\* The cached object has metadata only: its messages are read on first use.
Unread == cached # None /\ heap[cached].hist = <<>> /\ heap[cached].count > 0

\* get_session returns the session instead of raising KeyError.
Known ==
  \/ row # None
  \/ cached # None /\ ~Unread

\* An object nobody refers to.
Spare == CHOOSE o \in Objs : o # cached /\ \A t \in Turns : turn[t].obj # o

\* Mutant: a cached session is never read again, even when it has no messages.
OpenedOnce ==
  LET o == IF cached = None THEN Spare ELSE cached
  IN  [cached |-> o,
       heap |-> [heap EXCEPT ![o] =
                   [hist  |-> IF cached = None THEN rows ELSE heap[o].hist,
                    count |-> IF row # None THEN row ELSE heap[o].count,
                    ids   |-> heap[o].ids]]]

\* get_session: the messages are loaded into a new object when they are not
\* there, and the count is copied from the row.
Opened ==
  LET load == cached = None \/ Unread
      o    == IF load THEN Spare ELSE cached
      h    == IF load THEN rows ELSE heap[cached].hist
      n    == IF row # None THEN row ELSE heap[cached].count
      ids  == IF load THEN Own ELSE heap[cached].ids
  IN  [cached |-> o,
       heap   |-> [heap EXCEPT ![o] = [hist |-> h, count |-> n, ids |-> ids]]]

\* An object's history becomes h, and its count the length of h.
Holding(m, o, h) == [m EXCEPT !.heap[o].hist = h, !.heap[o].count = Len(h)]

\* m is the memory after the step; objects nobody refers to are forgotten.
Remember(m) ==
  /\ cached' = m.cached
  /\ heap' = [o \in Objs |-> IF o = m.cached \/ \E t \in Turns : turn'[t].obj = o
                             THEN m.heap[o] ELSE Blank]

-----------------------------------------------------------------------------
(* The session in the database.                                             *)

\* A write of this session commits.
Writable == row # None /\ ~deleting

\* The rows become s, and the row's count n, if the write commits.
Store(s, n) ==
  IF Writable THEN rows' = s /\ row' = n ELSE UNCHANGED <<rows, row>>

\* The count _persist_message writes is that of the cached object.
CachedLength(m) == IF m.cached = None THEN 0 ELSE Len(m.heap[m.cached].hist)

\* Mutant: the count is read before the message is appended.
AddToUncounted(m, o, role) ==
  LET n    == Len(said) + 1
      told == Holding(m, o, Append(m.heap[o].hist, n))
  IN  /\ n <= MaxMessages /\ said' = Append(said, role)
      /\ Store(Append(rows, n), CachedLength(m))
      /\ Remember(IF row = None THEN [told EXCEPT !.cached = None] ELSE told)

\* Session.add_message, on object o of memory m: the message is appended to
\* the object's history, and saved.  A session without a row is dropped from
\* memory instead.
AddTo(m, o, role) ==
  LET n    == Len(said) + 1
      told == Holding(m, o, Append(m.heap[o].hist, n))
  IN  /\ n <= MaxMessages /\ said' = Append(said, role)
      /\ Store(Append(rows, n), CachedLength(told))
      /\ Remember(IF row = None THEN [told EXCEPT !.cached = None] ELSE told)

\* replace_messages, after get_session returned the memory m: the rows are
\* written anew, and the cached object holds the same messages and their ids.
Replace(m, s) ==
  /\ Store(s, Len(s))
  /\ Remember(IF Writable THEN [Holding(m, m.cached, s) EXCEPT !.heap[m.cached].ids = Own]
              ELSE m)

-----------------------------------------------------------------------------
(* A chat turn.                                                             *)

\* The turn is given the session's object, and prepares the user's message.
TurnBegins(t) ==
  /\ turn[t].at = "idle" /\ Known
  /\ turn' = [turn EXCEPT ![t] = [Idle EXCEPT !.at = "begun", !.obj = Opened.cached]]
  /\ Remember(Opened)
  /\ UNCHANGED <<row, rows, deleting, compaction, said, strayed, edits, reader, crashes>>

Memory == [cached |-> cached, heap |-> heap]

\* add_user_message.
TurnAsks(t) ==
  /\ turn[t].at = "begun"
  /\ turn' = [turn EXCEPT ![t].at = "asked"]
  /\ AddTo(Memory, turn[t].obj, "user")
  /\ UNCHANGED <<deleting, compaction, strayed, edits, reader, crashes>>

Summaries(s) == {i \in DOMAIN s : said[s[i]] = "system"}
Dialogue(s)  == DOMAIN s \ Summaries(s)

\* maybe_compact: the prompt is too long, and a model is asked to summarise the
\* first half of what is not a system message: the preface, the history, and
\* (outside agent mode) a note of the date.
TurnSummarizes(t, date) ==
  LET hist  == heap[turn[t].obj].hist
      convo == PrefaceUser + Cardinality(Dialogue(hist)) + date
      half  == convo \div 2
  IN  /\ turn[t].at = "asked" /\ convo >= 4
      /\ turn' = [turn EXCEPT ![t] =
           [at     |-> "summarizing",
            obj    |-> turn[t].obj,
            cut    |-> half,
            system |-> PrefaceSystem + Cardinality(Summaries(hist)),
            older  |-> {hist[i] : i \in
               {j \in Dialogue(hist) :
                  PrefaceUser + Cardinality({k \in Dialogue(hist) : k <= j}) <= half}}]]
      /\ UNCHANGED <<row, rows, deleting, cached, heap, compaction, said, strayed, edits, reader,
                     crashes>>

\* The history with the summary n: _update_session_history keeps the leading
\* `system' messages and those after the cut, counted past the system messages.
Compacted(s, system, cut, n) ==
  SubSeq(s, 1, system) \o <<n>> \o SubSeq(s, system + cut + 1, Len(s))

\* The turn streams: it was not too long, or the summary failed, or the cut lies
\* behind the end of the history.
TurnStreams(t) ==
  /\ turn[t].at \in {"asked", "summarizing"}
  /\ turn' = [turn EXCEPT ![t] = [Idle EXCEPT !.at = "streaming", !.obj = turn[t].obj]]
  /\ UNCHANGED <<row, rows, deleting, cached, heap, compaction, said, strayed, edits, reader,
                     crashes>>

\* The summary is there: the history the turn's object has now is replaced, in
\* the database and in the cached object, or in the turn's object alone.
TurnCompacts(t) ==
  LET o    == turn[t].obj
      hist == heap[o].hist
      n    == Len(said) + 1
      new  == Compacted(hist, turn[t].system, turn[t].cut, n)
  IN  /\ turn[t].at = "summarizing" /\ n <= MaxMessages /\ Known
      /\ turn[t].system + turn[t].cut < Len(hist)
      /\ said' = Append(said, "system")
      /\ turn' = [turn EXCEPT ![t] = [Idle EXCEPT !.at = "streaming", !.obj = o]]
      /\ IF Writable
         THEN Replace(Opened, new)
         ELSE /\ Remember([Opened EXCEPT !.heap[o].hist = new]) /\ UNCHANGED <<row, rows>>
      /\ UNCHANGED <<deleting, compaction, strayed, edits, reader, crashes>>

\* The answer, whole or cut short, is added to the object the turn holds.
TurnAnswers(t) ==
  /\ turn[t].at = "streaming"
  /\ turn' = [turn EXCEPT ![t] = Idle]
  /\ AddTo(Memory, turn[t].obj, "assistant")
  /\ UNCHANGED <<deleting, compaction, strayed, edits, reader, crashes>>

\* The turn ends with nothing to add: an error, or a stop before any text; or
\* replace_messages raised KeyError.
TurnEnds(t) ==
  /\ turn[t].at # "idle"
  /\ turn' = [turn EXCEPT ![t] = Idle]
  /\ Remember(Memory)
  /\ UNCHANGED <<row, rows, deleting, compaction, said, strayed, edits, reader, crashes>>

-----------------------------------------------------------------------------
(* The other handlers.                                                      *)

Gone == row = None
Same == UNCHANGED <<deleting, turn, compaction, strayed, edits, reader, crashes>>

\* An edit of the history, within the bound.
Editing ==
  /\ Known /\ edits < MaxEdits /\ edits' = edits + 1
  /\ UNCHANGED <<deleting, turn, compaction, said, reader, crashes>>

\* SessionManager.add_message: a slash command's line, a delivered result.
AddMessage(role) ==
  /\ Known
  /\ Same
  /\ AddTo(Opened, Opened.cached, role)

\* A handler of the event loop that only reads the session through get_session;
\* or a plain function, in its thread, that finds the messages read.
Open ==
  /\ Known
  /\ UNCHANGED <<row, rows, said>> /\ Same
  /\ Remember(Opened)

\* The routes that show the history, export, archive or rename the session are
\* plain functions, and get_session runs in their thread: there the session and
\* its rows are read, one such thread at a time,
ThreadLoads ==
  /\ reader.at = "idle" /\ ~Gone /\ (cached = None \/ Unread)
  /\ edits < MaxEdits /\ edits' = edits + 1
  /\ reader' = [at |-> "loaded", hist |-> rows, count |-> row]
  /\ UNCHANGED <<row, rows, deleting, cached, heap, turn, compaction, said, strayed, crashes>>

\* What the thread read is not what there is any more, or turns hold an object.
Overtaken == reader.hist # rows \/ \E t \in Turns : turn[t].at # "idle"

\* and only then the new object is stored, whatever is cached meanwhile, and its
\* count copied from the row.
ThreadStores ==
  LET o == Spare
      n == IF Gone THEN reader.count ELSE row
  IN  /\ reader.at = "loaded"
      /\ reader' = NoThread
      /\ strayed' = (strayed \/ Overtaken)
      /\ UNCHANGED <<row, rows, deleting, turn, compaction, said, edits, crashes>>
      /\ Remember([cached |-> o,
                   heap   |-> [heap EXCEPT ![o] = [hist |-> reader.hist, count |-> n,
                                                   ids |-> Own]]])

\* truncate_messages(keep): the object's history is cut, its count is not.
Truncate(keep) ==
  LET o    == Opened.cached
      hist == Opened.heap[o].hist
      upto(s) == IF keep < Len(s) THEN keep ELSE Len(s)
  IN  /\ Editing
      /\ strayed' = (strayed \/ keep = 0)
      /\ Store(SubSeq(rows, 1, upto(rows)), upto(rows))
      /\ Remember(IF Writable \/ Gone
                  THEN [Opened EXCEPT !.heap[o].hist = SubSeq(hist, 1, upto(hist))]
                  ELSE Opened)

\* delete_messages, by ids: a message of the object goes when it carries one of
\* them, a row when it has one.  The count is that of what is left in memory.
DeleteMessages(D) ==
  LET o       == Opened.cached
      hist    == Opened.heap[o].hist
      Named(n) == Opened.heap[o].ids[n] \in D
      left    == Only(hist, {i \in DOMAIN hist : ~Named(hist[i])})
  IN  /\ Editing /\ D # {}
      /\ strayed' = (strayed \/ \E n \in Elements(hist) : Named(n) # (n \in D))
      /\ Store(Only(rows, {i \in DOMAIN rows : rows[i] \notin D}), Len(left))
      /\ Remember(Holding(Opened, o, left))

\* Merging the last two answers of s drops the second one, and with it the
\* prompt just before it when that one only asked to continue (`prompt').
Answers(s)    == {i \in DOMAIN s : said[s[i]] = "assistant"}
LastAnswer(s) == CHOOSE i \in Answers(s) : \A j \in Answers(s) : j <= i
LastTwo(s)    == LET last == LastAnswer(s) IN <<LastAnswer(SubSeq(s, 1, last - 1)), last>>
Merged(s, prompt) ==
  LET last  == LastAnswer(s)
      asked == prompt /\ said[s[last - 1]] = "user"
  IN  Only(s, DOMAIN s \ ({last} \cup IF asked THEN {last - 1} ELSE {}))

\* merge_last_assistant, in memory and in the rows; no count is touched.  The
\* first answer takes over the metadata of the second, the id included.
MergeLast(prompt) ==
  LET o    == Opened.cached
      hist == Opened.heap[o].hist
      ids  == Opened.heap[o].ids
      two  == LastTwo(hist)
  IN  /\ Editing /\ Cardinality(Answers(hist)) >= 2
      /\ UNCHANGED strayed
      /\ IF Cardinality(Answers(rows)) >= 2
         THEN Store(Merged(rows, prompt), row) ELSE UNCHANGED <<rows, row>>
      /\ Remember([Opened EXCEPT !.heap[o].hist = Merged(hist, prompt),
                                 !.heap[o].ids  = [ids EXCEPT ![hist[two[1]]] = ids[hist[two[2]]]]])

-----------------------------------------------------------------------------
(* The compact route, deletion and restart.                                 *)

\* How many of n messages the compact route keeps.
Kept(n) ==
  LET part == n \div KeepPart
      tail == IF part < KeepLeast THEN KeepLeast ELSE part
  IN  IF KeepMost < tail THEN KeepMost ELSE tail

\* compact_session copies the history, unless the session streams, and a model
\* is asked to summarise all but its last messages.
CompactBegins ==
  LET hist == Opened.heap[Opened.cached].hist
      kept == Len(hist) - Kept(Len(hist))
  IN  /\ compaction.at = "idle" /\ Known /\ Len(hist) >= CompactMin
      /\ \A t \in Turns : turn[t].at # "streaming"
      /\ compaction' = [at |-> "summarizing", recent |-> SubSeq(hist, kept + 1, Len(hist))]
      /\ UNCHANGED <<row, rows, deleting, turn, said, strayed, edits, reader, crashes>>
      /\ Remember(Opened)

\* The summary is there: it and the copied tail replace the history.
CompactEnds ==
  LET n == Len(said) + 1
  IN  /\ compaction.at = "summarizing" /\ Known /\ n <= MaxMessages
      /\ compaction' = Resting
      /\ said' = Append(said, "system")
      /\ UNCHANGED <<deleting, turn, strayed, edits, reader, crashes>>
      /\ Replace(Opened, <<n>> \o compaction.recent)

\* The model failed, or the session is gone.
CompactFails ==
  /\ compaction.at = "summarizing"
  /\ compaction' = Resting
  /\ UNCHANGED <<row, rows, deleting, cached, heap, turn, said, strayed, edits, reader, crashes>>

\* delete_session, in its thread: it has deleted the rows, not yet committed,
\* and drops the cached object.
DeleteBegins ==
  /\ ~deleting /\ (~Gone \/ cached # None)
  /\ deleting' = ~Gone
  /\ UNCHANGED <<row, rows, turn, compaction, said, strayed, edits, reader, crashes>>
  /\ Remember([Memory EXCEPT !.cached = None])

DeleteCommits ==
  /\ deleting /\ deleting' = FALSE
  /\ row' = None /\ rows' = <<>>
  /\ UNCHANGED <<cached, heap, turn, compaction, said, strayed, edits, reader, crashes>>

\* The server stops and starts: load_sessions lists a session whose row counts
\* messages, without reading them.
CrashRestart ==
  LET meta == CHOOSE o \in Objs : TRUE
      load == ~Gone /\ row > 0
  IN  /\ crashes < MaxCrashes /\ crashes' = crashes + 1
      /\ deleting' = FALSE
      /\ turn' = [t \in Turns |-> Idle] /\ compaction' = Resting /\ reader' = NoThread
      /\ cached' = IF load THEN meta ELSE None
      /\ heap' = [o \in Objs |-> IF load /\ o = meta THEN [Blank EXCEPT !.count = row]
                                 ELSE Blank]
      /\ UNCHANGED <<row, rows, said, strayed, edits>>

Turning(t) ==
  \/ TurnBegins(t) \/ TurnAsks(t) \/ TurnStreams(t) \/ TurnCompacts(t)
  \/ TurnAnswers(t) \/ TurnEnds(t)
  \/ \E date \in {0, 1} : TurnSummarizes(t, date)

Next ==
  \/ \E t \in Turns : Turning(t)
  \/ \E role \in {"user", "assistant"} : AddMessage(role)
  \/ Open \/ ThreadLoads \/ ThreadStores
  \/ \E keep \in 0..MaxMessages : Truncate(keep)
  \/ \E D \in SUBSET (1..Len(said)) : DeleteMessages(D)
  \/ \E prompt \in BOOLEAN : MergeLast(prompt)
  \/ CompactBegins \/ CompactEnds \/ CompactFails
  \/ DeleteBegins \/ DeleteCommits \/ CrashRestart

Spec == Init /\ [][Next]_vars

-----------------------------------------------------------------------------
(* Properties.                                                              *)

Objects == [hist : Seq(Messages), count : Nat, ids : [Messages -> 0..MaxMessages]]
Stages  == [at : {"idle", "begun", "asked", "summarizing", "streaming"},
            obj : Objs \cup {None}, cut : Nat, system : Nat, older : SUBSET Messages]

\* The variables have their types, and a turn holds an object while it lasts.
TypeOK ==
  /\ said \in Seq(Roles) /\ Len(said) <= MaxMessages
  /\ row \in Nat \cup {None}
  /\ rows \in Seq(Messages) /\ deleting \in BOOLEAN
  /\ cached \in Objs \cup {None}
  /\ heap \in [Objs -> Objects]
  /\ turn \in [Turns -> Stages]
  /\ \A t \in Turns : (turn[t].obj = None) <=> (turn[t].at = "idle")
  /\ compaction \in [at : {"idle", "summarizing"}, recent : Seq(Messages)]
  /\ reader \in [at : {"idle", "loaded"}, hist : Seq(Messages), count : Nat]
  /\ strayed \in BOOLEAN /\ edits \in 0..MaxEdits /\ crashes \in 0..MaxCrashes

\* What a user reads and what the next turn sends to the model are the same
\* messages: whichever handlers ran, the cached object holds the rows, or has
\* yet to read them.  Three things are left out, which the code gets wrong
\* (README, section 6): a truncation to nothing, a deletion by an id that is
\* another's, and a thread that stores the session after it was overtaken.
Agreement ==
  ~strayed /\ ~Gone /\ ~deleting /\ cached # None
    => heap[cached].hist = rows \/ Unread

\* The row never counts fewer messages than there are.  A restart lists the
\* sessions that count some, get_session reads the messages of those alone, and
\* cleanup_empty_sessions deletes the others with all they hold.
CountCovers == ~strayed /\ ~Gone => row >= Len(rows)

\* The object a turn keeps across its awaits is the one everybody else is given,
\* so what is edited during the turn is edited for it, and its answer is seen.
\* Whatever the event loop does meanwhile leaves it so, and every thread that
\* stores what it read before anybody else did; one that was overtaken does not.
TurnsShareTheObject ==
  \A t \in Turns :
    ~strayed /\ ~Gone /\ ~deleting /\ turn[t].at # "idle" => turn[t].obj = cached

\* The dialogue of s has every message once, in the order they were said.
Ordered(s) == \A i, j \in Dialogue(s) : i < j => s[i] < s[j]

\* Neither the rows nor any object a turn may hold repeat or reorder messages,
\* though each is rebuilt from copies taken earlier.
InOrder == Ordered(rows) /\ \A o \in Objs : Ordered(heap[o].hist)

\* What Agreement would say of the threads as well: what one of them stores is
\* what the session is.  It is false of the code (README, section 6).
ThreadsStoreWhatIs ==
  [][ThreadStores /\ ~strayed /\ ~Gone /\ ~deleting
       => heap'[cached'].hist = rows /\ \A t \in Turns : turn[t].obj \in {None, cached'}]_vars

\* Memory and database tell one story: they agree, whoever holds the session
\* holds the same object, and no message is repeated or out of order.
Consistent == Agreement /\ TurnsShareTheObject /\ InOrder

\* The inductive invariant of the theorems in SessionHistoryProofs.  Whatever is
\* kept of the history, in memory, in the database or in a copy, is in order and
\* of messages said before now; a session with no messages counts none; and an
\* object that a turn holds is never read anew.
Story(s) == Elements(s) \subseteq DOMAIN said /\ Ordered(s)

Stories ==
  /\ Story(rows) /\ Story(compaction.recent) /\ Story(reader.hist)
  /\ \A o \in Objs : Story(heap[o].hist)

Counted == ~strayed /\ ~Gone => row >= Len(rows) /\ (rows = <<>> => row = 0)

Held == ~strayed /\ ~Gone /\ ~deleting => \A t \in Turns : turn[t].at # "idle" => ~Unread

IndInv == TypeOK /\ Stories /\ Agreement /\ TurnsShareTheObject /\ Counted /\ Held

\* When a turn compacts, the messages that go are messages of the half the
\* model was given to summarise: the comment at context_compactor.py:438.
CompactionKeepsTheRest ==
  [][\A t \in Turns :
       turn[t].at = "summarizing" /\ turn'[t].at = "streaming"
         => Elements(rows) \ Elements(rows') \subseteq turn[t].older]_vars
=============================================================================
