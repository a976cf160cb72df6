---------------------------- MODULE EmailLibrary ----------------------------
(***************************************************************************)
(* The mail window of the browser client: static/js/emailLibrary.js.       *)
(*                                                                         *)
(* The window shows one list, state._libEmails, which loads, searches,     *)
(* pills, a cache and deletions all replace, each of them after an await.  *)
(* A row is known by its uid alone, and mails of different folders and     *)
(* accounts have the same uids.                                            *)
(*                                                                         *)
(* A row here is the mail it stands for with the view it was listed for,   *)
(* which the code does not keep.  Scheduled mails and read marks are left  *)
(* out, and so are the folder and account a caller may open the window on. *)
(*                                                                         *)
(* The routes behind /api/email (list, search, folders, delete, and        *)
(* mark-answered of routes/email_routes.py) answer in one step each.       *)
(***************************************************************************)
EXTENDS Naturals, FiniteSets

CONSTANTS Accounts, First,  \* the accounts, and the one shown at the start
          Folders, Inbox,
          Has,              \* the folders each account has
          Stored,           \* the mails on the server at the start
          Answered,         \* those that are marked done at the start
          Queries,
          Hits,             \* the mails each query finds
          Bodies,           \* mails that are found by their body alone
          Slots,            \* requests a bulk action sends at a time
          Budgets,          \* how often the user acts, and lists, deletions (fails) and
                            \* searches (misses) fail
          None

Spendable == {"folders", "accounts", "filters", "refreshes", "opens", "types", "clears",
              "enters", "senders", "unpills", "ticks", "deletes", "bulks", "fails", "misses",
              "warms", "hasty"}

Filters == {"all", "undone"}

Keys == Accounts \X Folders \X Filters

\* A row of the list: a mail, and the view it was listed for.
Rows == {r \in [mail : Stored, of : Accounts \X Folders \X (Filters \cup {"search"})] :
            r.of[1] = r.mail.acct /\ r.of[2] = r.mail.folder}

ASSUME EmailAssumption ==
    /\ First \in Accounts /\ Inbox \in Folders /\ Has \subseteq Accounts \X Folders
    /\ \A a \in Accounts : <<a, Inbox>> \in Has
    /\ \A m \in Stored : /\ m = [acct |-> m.acct, folder |-> m.folder, uid |-> m.uid]
                          /\ <<m.acct, m.folder>> \in Has
    /\ Answered \subseteq Stored /\ Slots \in Nat \ {0}
    /\ Budgets \subseteq [Spendable -> Nat]

VARIABLES
    page,    \* the module's state, its cache and the requests it awaits
    mail,    \* the server: the mails it has, and those marked done
    jobs,    \* deletions and bulk actions under way
    ghost    \* what is left of the budget, wrong hits, what was deleted (stale:
             \* while another view's cache had it)

vars == <<page, mail, jobs, ghost>>

Key(p) == <<p.acct, p.folder, p.filter>>

Init ==
    /\ page = [open |-> FALSE, acct |-> First, folder |-> Inbox, filter |-> "all",
               search |-> None, draft |-> None, typing |-> None, pills |-> {},
               emails |-> {}, grid |-> "loading",
               pre |-> None, server |-> None, had |-> FALSE, flight |-> FALSE,
               mode |-> FALSE, picked |-> {}, cache |-> [k \in Keys |-> None],
               loads |-> {}, searches |-> {}, folders |-> {}, due |-> FALSE, warm |-> None]
    /\ mail = [kept |-> Stored, done |-> Answered]
    /\ jobs = {}
    /\ \E b \in Budgets : ghost = [left |-> b, wrong |-> {}, gone |-> {}, stale |-> {}]

Spend(what) ==
    /\ ghost.left[what] > 0
    /\ ghost' = [ghost EXCEPT !.left[what] = @ - 1]

\* stillCurrent of _doSearch.
StillCurrent(s) == s.current /\ s.q = page.search /\ s.acct = page.acct

Awaited == \E s \in page.searches : StillCurrent(s)

\* A user who acts on the list while a search or a deletion is under way, or
\* leaves the window with one.
Hasty == ghost.left["hasty"] > 0
Settled == ~Awaited /\ page.typing = None /\ jobs = {}

(***************************************************************************)
(* The list.                                                               *)
(***************************************************************************)
Row(m, key) == [mail |-> m, of |-> key]
Uid(row) == row.mail.uid
Uids(rows) == {Uid(r) : r \in rows}
Mails(rows) == {r.mail : r \in rows}
NotOf(rows, uids) == {r \in rows : Uid(r) \notin uids}

\* Mutant: an empty list is taken for one that is still to come.
EmptyIsLoading(p) == [p EXCEPT !.grid = IF p.emails = {} THEN "loading" ELSE "rows"]

\* _renderGrid: with no rows and a search in flight it shows the spinner.
Rendered(p) ==
    [p EXCEPT !.grid = IF p.emails = {} /\ p.flight THEN "loading" ELSE "rows"]

\* Mutant: the selection survives a change of view.
StillPicked(p) == p

\* _resetBulkSelectionForContextChange.
Unpicked(p) == [p EXCEPT !.mode = FALSE, !.picked = {}]

\* ++_libLoadSeq: whatever is in flight is not the current load any more.
Superseded(p) == [p EXCEPT !.loads = {[l EXCEPT !.current = FALSE] : l \in p.loads}]

\* _resetEmailListForFreshLoad.
Fresh(p) == [Superseded(Unpicked(p)) EXCEPT !.emails = {}, !.grid = "loading"]

\* _loadEmails, up to its request: what the cache has is painted at once.
Load(p, useCache) ==
    LET cacheable == p.search = None
        hit == useCache /\ cacheable /\ p.cache[Key(p)] # None
        load == [key |-> Key(p), kept |-> cacheable, painted |-> hit,
                 current |-> TRUE, rows |-> None]
        begun == [Superseded(p) EXCEPT !.loads = @ \cup {load}]
    IN  IF ~p.open THEN Superseded(p)
        ELSE IF hit THEN Rendered([begun EXCEPT !.emails = p.cache[Key(p)]])
        ELSE [begun EXCEPT !.grid = "loading"]

\* What a pill or the draft finds without the server: not the bodies.
Locally(rows, sought) ==
    {r \in rows : \A x \in sought : r.mail \in Hits[x[2]] \ Bodies}

\* _applyPillFilter.  What the server's search has covered is not looked for again.
ApplyPills(p) ==
    LET pre == IF p.pre = None THEN p.emails ELSE p.pre
        source == IF p.server = None THEN pre ELSE p.server
        covered == IF p.had /\ ~(p.server # None /\ Cardinality(p.pills) > 1)
                   THEN {<<"text", p.search>>} ELSE {}
        draft == IF p.draft = None THEN {} ELSE {<<"text", p.draft>>}
    IN  IF p.pills = {} /\ p.draft = None
        THEN Rendered([p EXCEPT !.emails = IF p.pre = None THEN @ ELSE p.pre, !.pre = None])
        ELSE Rendered([p EXCEPT !.pre = pre,
                                !.emails = Locally(source, (p.pills \cup draft) \ covered)])

\* Mutant: the cache keeps what the list has lost.
ListOnly(p) == p

\* _libCacheWriteBack, after rows were taken out of the list.
WriteBack(p) ==
    IF p.search # None \/ p.cache[Key(p)] = None THEN p
    ELSE [p EXCEPT !.cache[Key(p)] = p.emails]

\* Whoever was deleting or marking is not alone any more.
Disturbed == jobs' = {[j EXCEPT !.calm = FALSE] : j \in jobs}

(***************************************************************************)
(* Loads.                                                                  *)
(***************************************************************************)
Listed(key) ==
    {Row(m, key) : m \in {n \in mail.kept : /\ n.acct = key[1] /\ n.folder = key[2]
                                            /\ key[3] = "undone" => n \notin mail.done}}

Serve ==
    \E l \in page.loads :
        /\ l.rows = None /\ <<l.key[1], l.key[2]>> \in Has
        /\ page' = [page EXCEPT !.loads = (@ \ {l}) \cup {[l EXCEPT !.rows = Listed(l.key)]}]
        /\ UNCHANGED <<mail, jobs, ghost>>

\* Mutant: a load of the same account is painted, however old.
SameAccount(l) == l.key[1] = page.acct

\* Only the load that was begun last may touch the list.
MayPaint(l) == l.current /\ l.key[1] = page.acct

Painted(p, l) ==
    LET listed == [p EXCEPT !.emails = l.rows]
        filtered == IF p.pills = {} /\ p.draft = None THEN Rendered(listed)
                    ELSE ApplyPills([listed EXCEPT !.pre = l.rows])
    IN  IF l.kept THEN [filtered EXCEPT !.cache[l.key] = filtered.emails] ELSE filtered

LoadAnswer ==
    \E l \in page.loads :
        LET p == [page EXCEPT !.loads = @ \ {l}] IN
        /\ l.rows # None
        /\ page' = IF MayPaint(l) THEN Painted(p, l) ELSE p
        /\ UNCHANGED <<mail, jobs, ghost>>

\* The request fails, or the account has no such folder.  The rows that were painted
\* from the cache stay.
LoadFails ==
    \E l \in page.loads :
        LET spent == IF <<l.key[1], l.key[2]>> \in Has THEN 1 ELSE 0 IN
        /\ ghost.left["fails"] >= spent
        /\ ghost' = [ghost EXCEPT !.left["fails"] = @ - spent,
                                  !.stale = IF MayPaint(l) THEN @ \ Mails(page.emails) ELSE @]
        /\ page' = [page EXCEPT !.loads = @ \ {l},
                                !.grid = IF MayPaint(l) /\ ~l.painted THEN "failed" ELSE @]
        /\ UNCHANGED <<mail, jobs>>

(***************************************************************************)
(* The view: the window, its account, folder and filter.                   *)
(***************************************************************************)
\* openEmailLibrary, up to the chat being idle, of a window that may be open.  The
\* snapshots of a search, the searches in flight and the pause after typing are those
\* of the last time.  Two waits for the chat count as one.
Open ==
    /\ Spend("opens") /\ ((Settled /\ page.pre = None) \/ Hasty)
    /\ page' = [page EXCEPT !.open = TRUE, !.due = TRUE, !.emails = {}, !.grid = "loading",
                            !.search = None, !.draft = None, !.pills = {},
                            !.filter = "all", !.mode = FALSE, !.picked = {},
                            !.folders = {[f EXCEPT !.current = FALSE] : f \in @}]
    /\ UNCHANGED mail /\ Disturbed

\* _loadEmailsWhenChatIdle, when it is.
FirstLoad ==
    /\ page.due
    /\ page' = IF page.open THEN Load([page EXCEPT !.due = FALSE], TRUE)
               ELSE [page EXCEPT !.due = FALSE]
    /\ UNCHANGED <<mail, ghost>> /\ Disturbed

Close ==
    /\ page.open
    /\ page' = [page EXCEPT !.open = FALSE]
    /\ UNCHANGED <<mail, jobs, ghost>>

\* Until its folders are known, those of the account before can be picked.
PickFolder(f) ==
    /\ page.open /\ f # page.folder /\ Spend("folders")
    /\ <<page.acct, f>> \in Has \/ page.folders # {}
    /\ page' = Load(Fresh([page EXCEPT !.folder = f]), FALSE)
    /\ UNCHANGED mail /\ Disturbed

PickFilter(f) ==
    /\ page.open /\ f # page.filter /\ Spend("filters")
    /\ page' = Load(Fresh([page EXCEPT !.filter = f]), FALSE)
    /\ UNCHANGED mail /\ Disturbed

Refresh ==
    /\ page.open /\ Spend("refreshes")
    /\ page' = Load(page, TRUE)
    /\ UNCHANGED mail /\ Disturbed

\* The chip of an account: the list waits for the account's folders.
PickAccount(a) ==
    /\ page.open /\ Spend("accounts")
    /\ page' = [Fresh([page EXCEPT !.acct = a])
                  EXCEPT !.folders = {[f EXCEPT !.current = FALSE] : f \in @}
                                        \cup {[acct |-> a, current |-> TRUE]}]
    /\ UNCHANGED mail /\ Disturbed

\* While the window is there, a folder the account does not have gives way to the
\* inbox, and the cache is dropped.
Resettled(p, f) ==
    IF p.open /\ f.current /\ f.acct = p.acct /\ <<p.acct, p.folder>> \notin Has
    THEN [p EXCEPT !.folder = Inbox, !.filter = "all", !.search = None, !.typing = None,
                   !.cache = [k \in Keys |-> None]]
    ELSE p

FoldersAnswer ==
    \E f \in page.folders :
        LET p == [page EXCEPT !.folders = @ \ {f}] IN
        /\ \/ page' = Load(Resettled(p, f), TRUE) /\ UNCHANGED ghost
           \/ page' = Load(p, TRUE) /\ Spend("fails")
        /\ UNCHANGED mail /\ Disturbed

\* _prewarmEmailViews: the inbox of an account is listed before the window opens.
Warm(a) ==
    LET key == <<a, Inbox, "all">> IN
    /\ ~page.open /\ page.warm = None /\ page.cache[key] = None /\ Spend("warms")
    /\ page' = [page EXCEPT !.warm = [key |-> key, rows |-> Listed(key)]]
    /\ UNCHANGED mail /\ Disturbed

Warmed ==
    /\ page.warm # None
    /\ page' = [page EXCEPT !.cache[page.warm.key] = page.warm.rows, !.warm = None]
    /\ UNCHANGED <<mail, ghost>> /\ Disturbed

(***************************************************************************)
(* Search.                                                                 *)
(***************************************************************************)
\* _doSearch, up to its two requests, for the query of state._libSearch.
DoSearch(p) ==
    LET search == [q |-> p.search, acct |-> p.acct, at |-> "local",
                   current |-> TRUE, painted |-> FALSE]
    IN  Rendered([Unpicked(p) EXCEPT
                    !.searches = {[s EXCEPT !.current = FALSE] : s \in @} \cup {search},
                    !.flight = TRUE])


\* The index has every folder of the account; the mail server looks in the
\* inbox only.
Found(s, folders) ==
    {Row(m, <<m.acct, m.folder, "search">>) :
        m \in {n \in mail.kept : n.acct = s.acct /\ n.folder \in folders /\ n \in Hits[s.q]}}

Merged(rows, more) ==
    rows \cup {r \in more : \A o \in rows : o.mail # r.mail}

\* paintSearchData: a second pill refines the results there are.
Shown(p, results) ==
    LET refines == p.server # None /\ Cardinality(p.pills) > 1
        base == IF refines THEN [p EXCEPT !.had = TRUE, !.emails = p.server]
                ELSE [p EXCEPT !.had = TRUE, !.emails = results, !.pre = results,
                               !.server = results]
        filtered == IF p.pills = {} THEN base ELSE ApplyPills(base)
    IN  Rendered(IF filtered.emails = {} /\ ~refines
                 THEN [filtered EXCEPT !.emails = results] ELSE filtered)

SearchLocal ==
    \E s \in page.searches :
        LET results == Found(s, Folders)
            p == [page EXCEPT !.searches = @ \ {s}]
            rest == [s EXCEPT !.at = "full", !.painted = results # {}]
        IN  /\ s.at = "local"
            /\ page' = IF ~StillCurrent(s) THEN [p EXCEPT !.flight = FALSE]
                       ELSE [IF results = {} THEN p ELSE Shown(p, results)
                               EXCEPT !.searches = @ \cup {rest}]
            /\ UNCHANGED <<mail, jobs, ghost>>

SearchFull ==
    \E s \in page.searches :
        LET found == Found(s, {Inbox})
            results == IF s.painted THEN Merged(page.emails, found) ELSE found
            p == [page EXCEPT !.searches = @ \ {s}]
        IN  /\ s.at = "full"
            /\ page' = [IF ~StillCurrent(s) \/ (s.painted /\ results = {}) THEN p
                        ELSE Shown(p, results) EXCEPT !.flight = FALSE]
            /\ UNCHANGED <<mail, jobs, ghost>>

\* A search of the index that fails leaves it to the mail server; one of the mail
\* server ends the search, and nothing is rendered.
SearchFails ==
    \E s \in page.searches :
        LET p == [page EXCEPT !.searches = @ \ {s}] IN
        /\ Spend("misses")
        /\ page' = IF s.at = "local" /\ StillCurrent(s)
                   THEN [p EXCEPT !.searches = @ \cup {[s EXCEPT !.at = "full"]}]
                   ELSE [p EXCEPT !.flight = FALSE]
        /\ UNCHANGED <<mail, jobs>>

\* The search box: what is typed is sought after a pause.
Type(q) ==
    /\ page.open /\ page.draft # q /\ (jobs = {} \/ Hasty) /\ Spend("types")
    /\ page' = [Unpicked(page) EXCEPT !.draft = q, !.typing = q]
    /\ UNCHANGED <<mail, jobs>>

Pause ==
    /\ page.typing # None
    /\ page' = DoSearch([page EXCEPT !.search = page.typing, !.typing = None])
    /\ UNCHANGED <<mail, ghost>> /\ Disturbed

\* Emptying the box brings the folder back when results were painted; results
\* that come later are painted all the same.
Clear ==
    LET p == [Unpicked(page) EXCEPT !.draft = None, !.typing = None] IN
    /\ page.open /\ page.draft # None /\ (~Awaited \/ Hasty) /\ Spend("clears")
    /\ page' = IF ~p.had THEN p
               ELSE Load([p EXCEPT !.had = FALSE, !.pre = None, !.search = None], TRUE)
    /\ UNCHANGED mail /\ Disturbed

\* _addSearchPill.
AddPill(p, pill) ==
    IF pill \in p.pills THEN Unpicked(p)
    ELSE ApplyPills([Unpicked(p) EXCEPT !.pills = @ \cup {pill}])

Enter ==
    /\ page.open /\ page.draft # None /\ (jobs = {} \/ Hasty) /\ Spend("enters")
    /\ page' = DoSearch([AddPill(page, <<"text", page.draft>>)
                           EXCEPT !.draft = None, !.typing = None, !.search = page.draft])
    /\ UNCHANGED mail /\ Disturbed

\* A click on the sender of a row: a pill, and no search.
Sender(q) ==
    /\ page.open /\ \E r \in page.emails : r.mail \in Hits[q] \ Bodies
    /\ Spend("senders")
    /\ page' = AddPill(page, <<"contact", q>>)
    /\ UNCHANGED mail /\ Disturbed

\* _removeSearchPillAt.  There are two pills at most, so the query left is that
\* of one.
RemovePill(pill) ==
    LET p == [Unpicked(page) EXCEPT !.pills = @ \ {pill}] IN
    /\ page.open /\ (Settled \/ Hasty) /\ Spend("unpills")
    /\ page' = IF p.pills = {} /\ p.draft = None /\ p.had
               THEN Load([p EXCEPT !.had = FALSE, !.pre = None, !.server = None,
                                   !.search = None], TRUE)
               ELSE IF p.pills # {}
               THEN DoSearch([p EXCEPT !.draft = None, !.typing = None,
                                       !.search = (CHOOSE x \in p.pills : TRUE)[2]])
               ELSE ApplyPills(p)
    /\ UNCHANGED mail /\ Disturbed

(***************************************************************************)
(* Selection, deletion and bulk actions.                                   *)
(***************************************************************************)
\* A click on a row in select mode, which the first click turns on.
Tick(r) ==
    /\ page.open /\ page.grid = "rows" /\ Spend("ticks")
    /\ page' = [page EXCEPT !.mode = TRUE,
                            !.picked = IF Uid(r) \in Uids(@) THEN NotOf(@, {Uid(r)})
                                       ELSE @ \cup {r}]
    /\ UNCHANGED <<mail, jobs>>

\* A bulk action disables its buttons, but not the rows, nor the Delete key.
Working == \E j \in jobs : j.kind # "one"

TickAll ==
    /\ page.open /\ page.grid = "rows" /\ ~Working /\ Spend("ticks")
    /\ page' = [page EXCEPT !.mode = TRUE, !.picked = NotOf(page.emails, Uids(@)) \cup @]
    /\ UNCHANGED <<mail, jobs>>

Busy == page.loads # {} \/ page.searches # {} \/ page.folders # {} \/ page.due
            \/ page.warm # None

Searching == page.search # None \/ page.draft # None \/ page.pills # {}

Begin(kind, rows) ==
    jobs' = {[j EXCEPT !.calm = FALSE] : j \in jobs} \cup
            {[kind |-> kind, rows |-> rows, todo |-> Uids(rows), sent |-> {}, hit |-> {},
              view |-> <<page.acct, page.folder>>, fades |-> FALSE,
              calm |-> jobs = {} /\ ~Busy /\ ~Searching]}

\* _deleteEmailAndAdvance, and Delete in a row's menu, once confirmed.
Delete(r) ==
    /\ page.open /\ page.grid = "rows" /\ ~page.mode /\ (Settled \/ Hasty)
    /\ Spend("deletes")
    /\ Begin("one", {r})
    /\ UNCHANGED <<page, mail>>

\* _bulkAction.  The uids are those of the click; the confirmation and the overlays
\* come before the first request as any wait for it does.
Bulk(kind) ==
    /\ page.open /\ page.picked # {} /\ (kind = "done" => ~Working) /\ (Settled \/ Hasty)
    /\ Spend("bulks")
    /\ Begin(kind, page.picked)
    /\ UNCHANGED <<page, mail>>

\* The mail a request for a uid means: that of the folder shown when it is sent.
Target(u) == [acct |-> page.acct, folder |-> page.folder, uid |-> u]

Replace(j, k) == jobs' = (jobs \ {j}) \cup {k}

\* The request for one uid, and what it does on the server.  The mark-read that follows
\* a mark-answered is left out, as read marks are.
Request ==
    \E j \in jobs, m \in mail.kept :
        /\ m.uid \in j.todo /\ m = Target(m.uid) /\ Cardinality(j.sent) < Slots
        /\ Replace(j, [j EXCEPT !.todo = @ \ {m.uid}, !.sent = @ \cup {m.uid},
                                !.hit = @ \cup {m}])
        /\ mail' = IF j.kind = "done" THEN [mail EXCEPT !.done = @ \cup {m}]
                   ELSE [mail EXCEPT !.kept = @ \ {m}]
        /\ ghost' = [ghost EXCEPT !.wrong =
                       IF \E r \in j.rows : r.mail = m THEN @
                       ELSE @ \cup {[moved |-> j.view # <<page.acct, page.folder>>,
                                     sought |-> \E r \in j.rows : r.of[3] = "search"]}]
        /\ UNCHANGED page

\* The request never arrives, or asks for a mail that is not there.
RequestLost ==
    \E j \in jobs : \E u \in j.todo :
        /\ Cardinality(j.sent) < Slots
        /\ IF Target(u) \in mail.kept THEN Spend("fails") ELSE UNCHANGED ghost
        /\ Replace(j, [j EXCEPT !.todo = @ \ {u}, !.sent = @ \cup {u}, !.calm = FALSE])
        /\ UNCHANGED <<page, mail>>

\* A bulk action goes on, whatever the answer.
Reply ==
    \E j \in jobs : \E u \in j.sent :
        /\ j.kind # "one" /\ j.todo # {}
        /\ Replace(j, [j EXCEPT !.sent = @ \ {u}])
        /\ UNCHANGED <<page, mail, ghost>>

\* A request that fails ends a single deletion.
DeleteFails ==
    \E j \in jobs :
        /\ j.kind = "one" /\ j.todo = {} /\ Spend("fails")
        /\ jobs' = jobs \ {j}
        /\ UNCHANGED <<page, mail>>

\* What is done leaves the list of what is undone, if that is the filter once the
\* last answer is in: the rows fade before the list changes.
FadeDone ==
    \E j \in jobs :
        /\ j.kind = "done" /\ j.todo = {} /\ ~j.fades /\ page.filter = "undone"
        /\ Replace(j, [j EXCEPT !.fades = TRUE])
        /\ UNCHANGED <<page, mail, ghost>>

Taken(p, uids) == [p EXCEPT !.emails = NotOf(@, uids)]

\* The rows leave the list and the cache of the view there is by then.
Removed(j) ==
    LET uids == Uids(j.rows)
        taken == IF j.kind = "done" /\ ~j.fades THEN page ELSE Taken(page, uids)
        cleared == IF j.kind = "one" THEN [taken EXCEPT !.picked = NotOf(@, uids)]
                   ELSE Unpicked(taken)
    IN  WriteBack(Rendered(cleared))

\* The cache of another view has the mail.
CachedElsewhere(m) ==
    \E k \in Keys : k # Key(page) /\ page.cache[k] # None /\ m \in Mails(page.cache[k])

\* What a job deleted while nothing else was under way, and no snapshot of a search
\* was left.
Deleted(j) ==
    {m \in j.hit : j.calm /\ j.kind # "done" /\ page.pre = None /\ page.server = None}

JobEnds ==
    \E j \in jobs :
        /\ j.todo = {} /\ (j.kind = "done" /\ page.filter = "undone" => j.fades)
        /\ jobs' = jobs \ {j}
        /\ page' = Removed(j)
        /\ ghost' = [ghost EXCEPT
                       !.gone = @ \cup {m \in Deleted(j) : ~CachedElsewhere(m)},
                       !.stale = @ \cup {m \in Deleted(j) : CachedElsewhere(m)}]
        /\ UNCHANGED mail

(***************************************************************************)
Next ==
    \/ Serve \/ LoadAnswer \/ LoadFails
    \/ Open \/ FirstLoad \/ Close \/ Refresh \/ FoldersAnswer \/ Warmed
    \/ \E f \in Folders : PickFolder(f)
    \/ \E f \in Filters : PickFilter(f)
    \/ \E a \in Accounts : PickAccount(a) \/ Warm(a)
    \/ SearchLocal \/ SearchFull \/ SearchFails \/ Pause \/ Clear \/ Enter
    \/ \E q \in Queries : Type(q) \/ Sender(q)
    \/ \E x \in page.pills : RemovePill(x)
    \/ \E r \in page.emails : Tick(r) \/ Delete(r)
    \/ TickAll \/ \E k \in {"delete", "done"} : Bulk(k)
    \/ Request \/ RequestLost \/ Reply \/ DeleteFails \/ FadeDone \/ JobEnds

Spec == Init /\ [][Next]_vars

(***************************************************************************)
(* Properties.                                                             *)
(***************************************************************************)
\* A deletion or a bulk action that was begun on rows of the folder shown,
\* and whose view has not changed since, touches no mail but those of the
\* rows the user chose: a uid never comes to mean another mail.
OnlyTheChosen == \A w \in ghost.wrong : w.moved \/ w.sought

\* Deleting touches the mail of the row, wherever the row comes from, as reading does
\* (emailLibrary.js:3607-3612, 3909-3912).
DeletesItsRow == ghost.wrong = {}

\* When nothing is awaited and the search box is empty, the rows shown are those of
\* the account, folder and filter shown, in whatever order lists, folders and searches
\* were answered, for a user who lets a search or a deletion end before going on.
ListIsOfView ==
    ~Hasty /\ page.open /\ page.grid = "rows" /\ ~Busy /\ page.draft = None /\ page.pills = {}
        => \A r \in page.emails : r.of = Key(page)

\* A mail that was deleted while nothing else was under way is not shown again; if the
\* list of another view had it in the cache, it is shown while that view is listed anew,
\* and not once it has been (emailLibrary.js:1111-1114, 3268-3303).  A list that fails
\* leaves what the cache showed: of that nothing is said.
DeletedStaysGone ==
    \A r \in page.emails :
        /\ r.mail \notin ghost.gone
        /\ ~Hasty /\ page.open /\ r.mail \in ghost.stale => \E l \in page.loads : l.current

\* The stronger claim of emailLibrary.js:1111-1114, that reopening does not even briefly
\* show what was deleted.  The code refutes it: the cache is mended for one view only.
DeletedIsGone ==
    ~Hasty /\ page.open => \A r \in page.emails : r.mail \notin ghost.gone \cup ghost.stale

\* Something is awaited that will replace the spinner.
Earned(p) ==
    p.open /\ p.grid = "loading" =>
        \/ p.due \/ p.folders # {} \/ p.searches # {}
        \/ \E l \in p.loads : l.current /\ ~l.painted

\* A spinner that stands for something awaited comes down when that is over: no step
\* leaves the spinner with nothing under way, nor puts it up so, but the end of a search
\* (emailLibrary.js:3502-3507, and 1793, 1864, 3303 for the folders and the lists).
SpinnerIsEarned ==
    [][Earned(page) => Earned(page)' \/ SearchLocal \/ SearchFull \/ SearchFails]_vars

\* The stronger claim of emailLibrary.js:3502-3506, that a search renders again when it is
\* over.  The code refutes it: one that finds nothing renders before it is over, and one
\* that fails does not render.
SearchEndsSpinner ==
    ~Hasty /\ page.open /\ page.grid = "loading" => page.typing # None \/ Earned(page)

(***************************************************************************)
(* The inductive invariant of the theorems in EmailLibraryProofs.          *)
(***************************************************************************)
\* The user never does what is in S.
Never(S) == \A b \in Budgets : \A w \in S : b[w] = 0

\* A user who does not search; a network on which no request fails.
Browsing == Never({"types", "senders"})
Reliable == Never({"fails"})

Maybe(S) == {None} \cup S
Loads == [key : Keys, kept : BOOLEAN, painted : BOOLEAN, current : BOOLEAN,
          rows : Maybe(SUBSET Rows)]
Searches == [q : Queries, acct : Accounts, at : {"local", "full"},
             current : BOOLEAN, painted : BOOLEAN]
Pages == [open : BOOLEAN, acct : Accounts, folder : Folders, filter : Filters,
          search : Maybe(Queries), draft : Maybe(Queries), typing : Maybe(Queries),
          pills : SUBSET ({"text", "contact"} \X Queries),
          emails : SUBSET Rows, grid : {"loading", "rows", "failed"},
          pre : Maybe(SUBSET Rows), server : Maybe(SUBSET Rows),
          had : BOOLEAN, flight : BOOLEAN, mode : BOOLEAN, picked : SUBSET Rows,
          cache : [Keys -> Maybe(SUBSET Rows)], loads : SUBSET Loads,
          searches : SUBSET Searches,
          folders : SUBSET [acct : Accounts, current : BOOLEAN], due : BOOLEAN,
          warm : Maybe([key : Keys, rows : SUBSET Rows])]
Works == [kind : {"one", "delete", "done"}, rows : SUBSET Rows, todo : SUBSET Uids(Rows),
          sent : SUBSET Uids(Rows), hit : SUBSET Stored, view : Accounts \X Folders,
          calm : BOOLEAN, fades : BOOLEAN]
Ghosts == [left : [Spendable -> Nat], gone : SUBSET Stored, stale : SUBSET Stored,
           wrong : SUBSET [moved : BOOLEAN, sought : BOOLEAN]]

\* The variables have their types.
TypeOK ==
    /\ page \in Pages
    /\ mail \in [kept : SUBSET Stored, done : SUBSET Stored]
    /\ jobs \subseteq Works
    /\ ghost \in Ghosts
    /\ \A w \in Spendable : Never({w}) => ghost.left[w] = 0

\* Nothing of the page shows or will show the mail m.
Free(rows, m)  == \A r \in rows : r.mail # m
Lacks(rows, m) == rows # None => Free(rows, m)
Nowhere(p, m) ==
    /\ Free(p.emails, m) /\ Lacks(p.pre, m) /\ Lacks(p.server, m)
    /\ \A k \in Keys : Lacks(p.cache[k], m)
    /\ \A l \in p.loads : Lacks(l.rows, m)
    /\ p.warm # None => Free(p.warm.rows, m)

\* What was deleted in calm has left the server and the page.
GoneForGood == \A m \in ghost.gone : m \notin mail.kept /\ Nowhere(page, m)

\* Nothing is awaited beside a calm job, and what a job hit is of its rows.
JobsAreSound ==
    \A j \in jobs :
        /\ j.calm => /\ page.search = None /\ page.loads = {} /\ page.searches = {}
                     /\ page.warm = None
        /\ j.todo \subseteq Uids(j.rows)
        /\ \A m \in j.hit : m.uid \in Uids(j.rows) /\ (j.kind # "done" => m \notin mail.kept)

\* The rows that are cached or loaded are those of their view.
OfMailbox(rows, acct, folder) == \A r \in rows : r.of[1] = acct /\ r.of[2] = folder
Stocked(p) ==
    /\ \A l \in p.loads : l.rows # None => \A r \in l.rows : r.of = l.key
    /\ p.warm # None => \A r \in p.warm.rows : r.of = p.warm.key
    /\ Browsing => \A k \in Keys : p.cache[k] # None => OfMailbox(p.cache[k], k[1], k[2])

\* Who does not search has no search under way, and shows and chooses rows of the
\* mailbox that is open.
NoSearch(p) ==
    Browsing => /\ p.search = None /\ p.draft = None /\ p.typing = None
                /\ p.pills = {} /\ p.searches = {} /\ ~p.flight
OfTheFolder(p) ==
    Browsing => OfMailbox(p.emails, p.acct, p.folder) /\ OfMailbox(p.picked, p.acct, p.folder)

\* The current load is for the folder shown, and once the window has begun to
\* load, for the filter too.
LoadIsOfView(p) ==
    \A l \in p.loads : l.current =>
        /\ l.key[1] = p.acct /\ l.key[2] = p.folder
        /\ p.open /\ ~p.due => l.key = Key(p)

\* Without searches and failures: the rows are of the view, or to be replaced.
ViewHolds(p) ==
    Browsing /\ Reliable /\ p.open /\ ~p.due =>
        \/ \E l \in p.loads : l.current /\ l.key = Key(p)
        \/ \A r \in p.emails : r.of = Key(p)

Base(p) == p \in Pages /\ Stocked(p) /\ NoSearch(p) /\ OfTheFolder(p)
Sound(p) == Base(p) /\ LoadIsOfView(p) /\ ViewHolds(p)

\* What a job does is done to the rows it was begun on.
JobsFit ==
    Browsing => OnlyTheChosen /\ \A j \in jobs : OfMailbox(j.rows, j.view[1], j.view[2])

\* A search in flight is under way.
FlightHolds(p) == p.flight => p.searches # {}

\* Nothing will list the mail m, and if it is shown, the list is being loaded anew.
Fading(p, m) ==
    /\ \A l \in p.loads : Lacks(l.rows, m)
    /\ p.warm # None => Free(p.warm.rows, m)
    /\ p.open /\ ~Free(p.emails, m) => \E l \in p.loads : l.current

\* Without searches: what was deleted while another view's cache had it is gone from the
\* server, and fades.
StaleFades == Browsing => \A m \in ghost.stale : m \notin mail.kept /\ Fading(page, m)

IndInv == TypeOK /\ GoneForGood /\ JobsAreSound /\ Sound(page) /\ JobsFit
=============================================================================
