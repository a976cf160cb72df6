-------------------------- MODULE EmailLibraryProofs --------------------------
(***************************************************************************)
(* Theorems about EmailLibrary: the spinner stands for something, for      *)
(* every user; and for users who do not search, what was deleted fades,    *)
(* the list is of the view, and actions touch the chosen mails only.       *)
(*                                                                         *)
(* The operators of EmailLibrary that make one page of another come first, *)
(* each with what it keeps; then one lemma per action.                     *)
(***************************************************************************)
EXTENDS EmailLibrary, FiniteSetTheorems, TLAPS

(***************************************************************************)
(* What an operator may leave alone.                                       *)
(***************************************************************************)
\* q has the loads, the cache and the view of p.
Steady(p, q) ==
    /\ q.loads = p.loads /\ q.cache = p.cache /\ q.warm = p.warm /\ q.folders = p.folders
    /\ q.acct = p.acct /\ q.folder = p.folder /\ q.filter = p.filter
    /\ q.open = p.open /\ q.due = p.due

\* q shows no mail that p did not show.
Within(p, q) == \A m : Nowhere(p, m) => Nowhere(q, m)

LEMMA SteadyKeeps ==
    ASSUME NEW p, NEW q, Steady(p, q), Stocked(p)
    PROVE  Stocked(q) /\ (LoadIsOfView(p) => LoadIsOfView(q))
BY DEF Steady, Stocked, LoadIsOfView, Key

LEMMA WithinComposes ==
    ASSUME NEW p, NEW q, NEW r, Within(p, q), Within(q, r)
    PROVE  Within(p, r)
BY DEF Within

\* For a user who searches, only what every page keeps is left to show.
LEMMA SearchIsSound ==
    ASSUME NEW p, p \in Pages, ~Browsing, Stocked(p), LoadIsOfView(p)
    PROVE  Sound(p)
BY DEF Sound, Base, NoSearch, OfTheFolder, ViewHolds

LEMMA RenderedIs ==
    ASSUME NEW p \in Pages
    PROVE  /\ Rendered(p) \in Pages /\ Steady(p, Rendered(p)) /\ Within(p, Rendered(p))
           /\ Rendered(p).emails = p.emails /\ Rendered(p).picked = p.picked
           /\ Rendered(p).search = p.search /\ Rendered(p).searches = p.searches
           /\ (NoSearch(p) => NoSearch(Rendered(p)))
           /\ (OfTheFolder(p) => OfTheFolder(Rendered(p)))
           /\ (~p.flight => Rendered(p).grid = "rows")
<1> DEFINE g == IF p.emails = {} /\ p.flight THEN "loading" ELSE "rows"
           q == [p EXCEPT !.grid = g]
<1>1. Rendered(p) = q
  BY DEF Rendered
<1>2. q \in Pages
  BY DEF Pages
<1>3. Steady(p, q)
  BY DEF Pages, Steady
<1>4. Within(p, q)
  BY DEF Pages, Within, Nowhere
<1>5. /\ q.emails = p.emails /\ q.picked = p.picked /\ q.search = p.search
      /\ q.searches = p.searches
      /\ (NoSearch(p) => NoSearch(q)) /\ (OfTheFolder(p) => OfTheFolder(q))
      /\ (~p.flight => q.grid = "rows")
  BY DEF Pages, NoSearch, OfTheFolder
<1>. QED BY <1>1, <1>2, <1>3, <1>4, <1>5

LEMMA UnpickedIs ==
    ASSUME NEW p \in Pages
    PROVE  /\ Unpicked(p) \in Pages /\ Steady(p, Unpicked(p)) /\ Within(p, Unpicked(p))
           /\ Unpicked(p).emails = p.emails /\ Unpicked(p).picked = {}
           /\ Unpicked(p).search = p.search /\ Unpicked(p).searches = p.searches
           /\ Unpicked(p).grid = p.grid /\ Unpicked(p).flight = p.flight
           /\ (NoSearch(p) => NoSearch(Unpicked(p)))
<1> DEFINE q == [p EXCEPT !.mode = FALSE, !.picked = {}]
<1>1. Unpicked(p) = q
  BY DEF Unpicked
<1>2. q \in Pages
  BY DEF Pages
<1>3. Steady(p, q)
  BY DEF Pages, Steady
<1>4. Within(p, q)
  BY DEF Pages, Within, Nowhere
<1>5. /\ q.emails = p.emails /\ q.picked = {} /\ q.search = p.search
      /\ q.searches = p.searches /\ q.grid = p.grid /\ q.flight = p.flight
      /\ (NoSearch(p) => NoSearch(q))
  BY DEF Pages, NoSearch
<1>. QED BY <1>1, <1>2, <1>3, <1>4, <1>5

\* p's loads, none of them current any more.
LEMMA SupersededIs ==
    ASSUME NEW p \in Pages
    PROVE  /\ Superseded(p) \in Pages /\ Within(p, Superseded(p))
           /\ Superseded(p) = [p EXCEPT !.loads = Superseded(p).loads]
           /\ \A l \in Superseded(p).loads : ~l.current
           /\ (Stocked(p) => Stocked(Superseded(p)))
<1> DEFINE old == {[l EXCEPT !.current = FALSE] : l \in p.loads}
           q == [p EXCEPT !.loads = old]
<1>1. Superseded(p) = q
  BY DEF Superseded
<1>2. ASSUME NEW l \in p.loads
      PROVE  /\ [l EXCEPT !.current = FALSE] \in Loads
             /\ ~[l EXCEPT !.current = FALSE].current
             /\ [l EXCEPT !.current = FALSE].key = l.key
             /\ [l EXCEPT !.current = FALSE].rows = l.rows
  BY DEF Pages, Loads
<1>3. /\ old \subseteq Loads
      /\ \A l \in old : ~l.current /\ \E k \in p.loads : l.key = k.key /\ l.rows = k.rows
  BY <1>2
<1> HIDE DEF old
<1>4. q \in Pages /\ q.loads = old
  BY <1>3 DEF Pages
<1>5. q.cache = p.cache /\ q.warm = p.warm /\ q.emails = p.emails /\ q.pre = p.pre
      /\ q.server = p.server
  BY DEF Pages
<1>6. Within(p, q)
  <2> SUFFICES ASSUME NEW m, Nowhere(p, m) PROVE Nowhere(q, m)
    BY DEF Within
  <2>1. \A l \in old : Lacks(l.rows, m)
    BY <1>3 DEF Nowhere, Lacks
  <2>. QED BY <1>4, <1>5, <2>1 DEF Nowhere
<1>7. Stocked(p) => Stocked(q)
  <2> SUFFICES ASSUME Stocked(p) PROVE Stocked(q)
    OBVIOUS
  <2>1. \A l \in old : l.rows # None => \A r \in l.rows : r.of = l.key
    BY <1>3 DEF Stocked
  <2>. QED BY <1>4, <1>5, <2>1 DEF Stocked
<1>. QED BY <1>1, <1>3, <1>4, <1>6, <1>7

LEMMA FreshIs ==
    ASSUME NEW p \in Pages, Stocked(p), NoSearch(p)
    PROVE  /\ Base(Fresh(p)) /\ Within(p, Fresh(p))
           /\ Fresh(p).acct = p.acct /\ Fresh(p).folder = p.folder /\ Fresh(p).open = p.open
           /\ Fresh(p).folders = p.folders /\ Fresh(p).emails = {}
           /\ \A l \in Fresh(p).loads : ~l.current
<1> DEFINE u == Unpicked(p)
           s == Superseded(u)
           q == [s EXCEPT !.emails = {}, !.grid = "loading"]
<1>1. Fresh(p) = q
  BY DEF Fresh
<1>2. /\ u \in Pages /\ Steady(p, u) /\ Within(p, u) /\ u.picked = {} /\ NoSearch(u)
      /\ Stocked(u)
  BY UnpickedIs, SteadyKeeps
<1> HIDE DEF u
<1>3. /\ s \in Pages /\ Within(u, s) /\ s = [u EXCEPT !.loads = s.loads]
      /\ Stocked(s) /\ \A l \in s.loads : ~l.current
  BY <1>2, SupersededIs
<1> HIDE DEF s
<1>4. /\ s.picked = {} /\ NoSearch(s) /\ s.acct = p.acct /\ s.folder = p.folder
      /\ s.open = p.open /\ s.folders = p.folders
  BY <1>2, <1>3 DEF Pages, Steady, NoSearch
<1>5. /\ q \in Pages /\ q.emails = {} /\ q.loads = s.loads /\ q.picked = {}
      /\ q.acct = p.acct /\ q.folder = p.folder /\ q.open = p.open /\ q.folders = p.folders
  BY <1>3, <1>4 DEF Pages
<1>6. Stocked(q) /\ NoSearch(q) /\ Within(s, q)
  BY <1>3, <1>4 DEF Pages, Stocked, NoSearch, Within, Nowhere, Lacks, Free
<1>7. OfTheFolder(q)
  BY <1>5 DEF OfTheFolder, OfMailbox
<1>8. Within(p, q)
  BY <1>2, <1>3, <1>6, WithinComposes
<1>. QED BY <1>1, <1>3, <1>5, <1>6, <1>7, <1>8 DEF Base

\* A load begins for the view there is, with the rows the cache has of it.
LEMMA LoadIs ==
    ASSUME NEW p, Base(p), NEW useCache \in BOOLEAN
    PROVE  Sound(Load(p, useCache)) /\ Within(p, Load(p, useCache))
<1> DEFINE cacheable == p.search = None
           hit   == useCache /\ cacheable /\ p.cache[Key(p)] # None
           load  == [key |-> Key(p), kept |-> cacheable, painted |-> hit,
                     current |-> TRUE, rows |-> None]
           s     == Superseded(p)
           begun == [s EXCEPT !.loads = @ \cup {load}]
           q     == Load(p, useCache)
<1>1. p \in Pages /\ Stocked(p) /\ NoSearch(p) /\ OfTheFolder(p)
  BY DEF Base
<1>2. Key(p) \in Keys /\ Key(p)[1] = p.acct /\ Key(p)[2] = p.folder
  BY <1>1 DEF Key, Keys, Pages
<1>3. hit \in BOOLEAN /\ cacheable \in BOOLEAN
  OBVIOUS
<1>4. load \in Loads /\ load.key = Key(p) /\ load.current /\ load.rows = None /\ load.painted = hit
  BY <1>2, <1>3 DEF Loads, Maybe
<1>5. /\ s \in Pages /\ Within(p, s) /\ s = [p EXCEPT !.loads = s.loads]
      /\ Stocked(s) /\ \A l \in s.loads : ~l.current
  BY <1>1, SupersededIs
<1>6. /\ q = IF ~p.open THEN s
             ELSE IF hit THEN Rendered([begun EXCEPT !.emails = p.cache[Key(p)]])
             ELSE [begun EXCEPT !.grid = "loading"]
  BY DEF Load
<1> HIDE DEF hit, cacheable, load, s, q
<1>7. NoSearch(s) /\ OfTheFolder(s) /\ s.open = p.open
  BY <1>1, <1>5 DEF Pages, NoSearch, OfTheFolder
<1>8. CASE ~p.open
  <2>1. q = s
    BY <1>6, <1>8
  <2>2. Sound(s)
    BY <1>5, <1>7, <1>8 DEF Sound, Base, LoadIsOfView, ViewHolds
  <2>. QED BY <1>5, <2>1, <2>2 DEF q
<1>9. /\ begun \in Pages /\ begun.loads = s.loads \cup {load}
      /\ begun = [p EXCEPT !.loads = begun.loads]
  BY <1>1, <1>4, <1>5 DEF Pages
<1>10. Stocked(begun) /\ Within(s, begun)
  <2>1. begun.cache = s.cache /\ begun.warm = s.warm /\ begun.emails = s.emails
        /\ begun.pre = s.pre /\ begun.server = s.server
    BY <1>5 DEF Pages
  <2>. QED BY <1>4, <1>5, <1>9, <2>1 DEF Stocked, Within, Nowhere, Lacks
<1>11. NoSearch(begun) /\ OfTheFolder(begun) /\ Within(p, begun)
  BY <1>1, <1>5, <1>9, <1>10, WithinComposes DEF Pages, NoSearch, OfTheFolder
<1>12. /\ Key(begun) = Key(p) /\ begun.acct = p.acct /\ begun.folder = p.folder
       /\ \A l \in begun.loads : l.current => l = load
       /\ load \in begun.loads
  BY <1>1, <1>5, <1>9 DEF Pages, Key
<1> HIDE DEF begun
<1>13. CASE p.open /\ hit
  <2> DEFINE c == [begun EXCEPT !.emails = p.cache[Key(p)]]
  <2>1. p.cache[Key(p)] \in SUBSET Rows /\ p.cache[Key(p)] # None
    BY <1>1, <1>2, <1>13 DEF Pages, Maybe, hit
  <2>2. c \in Pages /\ Steady(begun, c) /\ c.emails = p.cache[Key(p)]
    BY <1>9, <2>1 DEF Pages, Steady
  <2>3. c.picked = begun.picked /\ NoSearch(c)
    BY <1>9, <1>11 DEF Pages, NoSearch
  <2>4. OfTheFolder(c)
    <3> SUFFICES ASSUME Browsing
                 PROVE  OfMailbox(c.emails, c.acct, c.folder) /\ OfMailbox(c.picked, c.acct, c.folder)
      BY DEF OfTheFolder
    <3>1. OfMailbox(p.cache[Key(p)], p.acct, p.folder)
      BY <1>1, <1>2, <2>1 DEF Stocked
    <3>2. c.acct = p.acct /\ c.folder = p.folder
      BY <1>12, <2>2 DEF Steady
    <3>. QED BY <1>11, <1>12, <2>2, <2>3, <3>1, <3>2 DEF OfTheFolder
  <2>5. Within(p, c)
    <3> SUFFICES ASSUME NEW m, Nowhere(p, m) PROVE Nowhere(c, m)
      BY DEF Within
    <3>1. Nowhere(begun, m)
      BY <1>11 DEF Within
    <3>2. Free(c.emails, m)
      BY <1>2, <2>1, <2>2 DEF Nowhere, Lacks
    <3>3. c.pre = begun.pre /\ c.server = begun.server
      BY <1>9 DEF Pages
    <3>. QED BY <2>2, <3>1, <3>2, <3>3 DEF Nowhere, Steady
  <2> HIDE DEF c
  <2>6. q = Rendered(c)
    BY <1>6, <1>13 DEF c
  <2>7. /\ q \in Pages /\ Steady(c, q) /\ Within(c, q) /\ NoSearch(q) /\ OfTheFolder(q)
        /\ (~c.flight => q.grid = "rows")
    BY <2>2, <2>3, <2>4, <2>6, RenderedIs
  <2>8. Base(q)
    BY <1>10, <2>2, <2>7, SteadyKeeps DEF Base
  <2>9. /\ q.loads = begun.loads /\ Key(q) = Key(p) /\ q.acct = p.acct /\ q.folder = p.folder
    BY <1>12, <2>2, <2>7 DEF Steady, Key
  <2>10. LoadIsOfView(q) /\ ViewHolds(q)
    BY <1>2, <1>4, <1>12, <2>9 DEF LoadIsOfView, ViewHolds
  <2>11. Within(p, q)
    BY <2>5, <2>7, WithinComposes
  <2>. QED BY <2>8, <2>10, <2>11 DEF Sound, q
<1>14. CASE p.open /\ ~hit
  <2> DEFINE c == [begun EXCEPT !.grid = "loading"]
  <2>1. c \in Pages /\ Steady(begun, c) /\ Within(begun, c)
    BY <1>9 DEF Pages, Steady, Within, Nowhere
  <2>2. NoSearch(c) /\ OfTheFolder(c)
    BY <1>9, <1>11 DEF Pages, NoSearch, OfTheFolder
  <2> HIDE DEF c
  <2>3. q = c
    BY <1>6, <1>14 DEF c
  <2>4. Base(c)
    BY <1>10, <2>1, <2>2, SteadyKeeps DEF Base
  <2>5. c.loads = begun.loads /\ Key(c) = Key(p) /\ c.acct = p.acct /\ c.folder = p.folder
    BY <1>12, <2>1 DEF Steady, Key
  <2>6. LoadIsOfView(c) /\ ViewHolds(c)
    BY <1>2, <1>4, <1>12, <2>5 DEF LoadIsOfView, ViewHolds
  <2>7. Within(p, c)
    BY <1>11, <2>1, WithinComposes
  <2>. QED BY <2>3, <2>4, <2>6, <2>7 DEF Sound, q
<1>. QED BY <1>8, <1>13, <1>14

\* The list and the snapshot become e and x, and the list is rendered.
LEMMA RelistedIs ==
    ASSUME NEW p \in Pages, NEW e \in SUBSET Rows, NEW x \in Maybe(SUBSET Rows),
           \A m : Nowhere(p, m) => Free(e, m) /\ Lacks(x, m)
    PROVE  LET q == Rendered([p EXCEPT !.emails = e, !.pre = x])
           IN  q \in Pages /\ Steady(p, q) /\ Within(p, q)
<1> DEFINE c == [p EXCEPT !.emails = e, !.pre = x]
<1>1. c \in Pages /\ Steady(p, c) /\ c.emails = e /\ c.pre = x /\ c.server = p.server
  BY DEF Pages, Steady
<1> HIDE DEF c
<1>2. Within(p, c)
  BY <1>1 DEF Within, Nowhere, Steady
<1>3. Rendered(c) \in Pages /\ Steady(c, Rendered(c)) /\ Within(c, Rendered(c))
  BY <1>1, RenderedIs
<1>4. Steady(p, Rendered(c)) /\ Within(p, Rendered(c))
  BY <1>1, <1>2, <1>3, WithinComposes DEF Steady
<1>. QED BY <1>3, <1>4 DEF c

LEMMA ApplyPillsIs ==
    ASSUME NEW p \in Pages
    PROVE  ApplyPills(p) \in Pages /\ Steady(p, ApplyPills(p)) /\ Within(p, ApplyPills(p))
<1> DEFINE pre     == IF p.pre = None THEN p.emails ELSE p.pre
           source  == IF p.server = None THEN pre ELSE p.server
           covered == IF p.had /\ ~(p.server # None /\ Cardinality(p.pills) > 1)
                      THEN {<<"text", p.search>>} ELSE {}
           draft   == IF p.draft = None THEN {} ELSE {<<"text", p.draft>>}
           found   == Locally(source, (p.pills \cup draft) \ covered)
           back    == IF p.pre = None THEN p.emails ELSE p.pre
<1>1. ApplyPills(p) = IF p.pills = {} /\ p.draft = None
                      THEN Rendered([p EXCEPT !.emails = back, !.pre = None])
                      ELSE Rendered([p EXCEPT !.emails = found, !.pre = pre])
  <2>1. [p EXCEPT !.emails = IF p.pre = None THEN @ ELSE p.pre, !.pre = None]
          = [p EXCEPT !.emails = back, !.pre = None]
    OBVIOUS
  <2>2. [p EXCEPT !.pre = pre, !.emails = found] = [p EXCEPT !.emails = found, !.pre = pre]
    BY DEF Pages
  <2>. QED BY <2>1, <2>2 DEF ApplyPills
<1>2. pre \in SUBSET Rows /\ source \in SUBSET Rows /\ back \in SUBSET Rows
  BY DEF Pages, Maybe
<1>3. \A m : Nowhere(p, m) => /\ Lacks(pre, m) /\ Free(back, m) /\ Lacks(None, m)
                              /\ Free(source, m)
  <2> SUFFICES ASSUME NEW m, Nowhere(p, m)
               PROVE  /\ Lacks(pre, m) /\ Free(back, m) /\ Lacks(None, m)
                      /\ Free(source, m)
    OBVIOUS
  <2>1. Free(p.emails, m) /\ Lacks(p.pre, m) /\ Lacks(p.server, m)
    BY DEF Nowhere
  <2>2. Free(pre, m) /\ Free(back, m) /\ Lacks(None, m)
    BY <2>1 DEF Lacks
  <2>3. Lacks(pre, m)
    BY <2>2 DEF Lacks
  <2>4. Free(source, m)
    BY <2>1, <2>2 DEF Lacks
  <2>. QED BY <2>2, <2>3, <2>4
<1>4. found \subseteq source
  BY DEF Locally
<1> HIDE DEF pre, source, found, back
<1>5. found \in SUBSET Rows /\ \A m : Nowhere(p, m) => Free(found, m)
  BY <1>2, <1>3, <1>4 DEF Free
<1>6. pre \in Maybe(SUBSET Rows) /\ None \in Maybe(SUBSET Rows)
  BY <1>2 DEF Maybe
<1>7. CASE p.pills = {} /\ p.draft = None
  <2> DEFINE q == Rendered([p EXCEPT !.emails = back, !.pre = None])
  <2>1. q \in Pages /\ Steady(p, q) /\ Within(p, q)
    BY <1>2, <1>3, <1>6, RelistedIs
  <2>. QED BY <1>1, <1>7, <2>1
<1>8. CASE ~(p.pills = {} /\ p.draft = None)
  <2> DEFINE q == Rendered([p EXCEPT !.emails = found, !.pre = pre])
  <2>1. q \in Pages /\ Steady(p, q) /\ Within(p, q)
    BY <1>3, <1>5, <1>6, RelistedIs
  <2>. QED BY <1>1, <1>8, <2>1
<1>. QED BY <1>7, <1>8

LEMMA AddPillIs ==
    ASSUME NEW p \in Pages, NEW pill \in {"text", "contact"} \X Queries
    PROVE  AddPill(p, pill) \in Pages /\ Steady(p, AddPill(p, pill)) /\ Within(p, AddPill(p, pill))
<1> DEFINE u == Unpicked(p)
           c == [u EXCEPT !.pills = @ \cup {pill}]
<1>1. u \in Pages /\ Steady(p, u) /\ Within(p, u)
  BY UnpickedIs
<1>2. AddPill(p, pill) = IF pill \in p.pills THEN u ELSE ApplyPills(c)
  BY DEF AddPill
<1> HIDE DEF u
<1>3. c \in Pages /\ Steady(u, c) /\ Within(u, c)
  BY <1>1 DEF Pages, Steady, Within, Nowhere
<1> HIDE DEF c
<1>4. ApplyPills(c) \in Pages /\ Steady(c, ApplyPills(c)) /\ Within(c, ApplyPills(c))
  BY <1>3, ApplyPillsIs
<1>5. Steady(p, ApplyPills(c)) /\ Within(p, ApplyPills(c))
  BY <1>1, <1>3, <1>4, WithinComposes DEF Steady
<1>. QED BY <1>1, <1>2, <1>4, <1>5

LEMMA DoSearchIs ==
    ASSUME NEW p \in Pages, p.search \in Queries
    PROVE  DoSearch(p) \in Pages /\ Steady(p, DoSearch(p)) /\ Within(p, DoSearch(p))
<1> DEFINE search == [q |-> p.search, acct |-> p.acct, at |-> "local",
                      current |-> TRUE, painted |-> FALSE]
           u == Unpicked(p)
           all == {[s EXCEPT !.current = FALSE] : s \in u.searches} \cup {search}
           c == [u EXCEPT !.searches = all, !.flight = TRUE]
<1>1. u \in Pages /\ Steady(p, u) /\ Within(p, u)
  BY UnpickedIs
<1>2. DoSearch(p) = Rendered(c)
  BY DEF DoSearch
<1> HIDE DEF u
<1>3. search \in Searches
  BY DEF Searches, Pages
<1>4. \A s \in u.searches : [s EXCEPT !.current = FALSE] \in Searches
  <2>1. \A s \in u.searches : s \in Searches
    BY <1>1 DEF Pages
  <2>2. \A s \in Searches : [s EXCEPT !.current = FALSE] \in Searches
    BY DEF Searches
  <2>. QED BY <2>1, <2>2
<1>5. all \subseteq Searches
  BY <1>3, <1>4
<1> HIDE DEF all
<1>6. c \in Pages /\ Steady(u, c) /\ Within(u, c)
  BY <1>1, <1>5 DEF Pages, Steady, Within, Nowhere
<1> HIDE DEF c
<1>7. Rendered(c) \in Pages /\ Steady(c, Rendered(c)) /\ Within(c, Rendered(c))
  BY <1>6, RenderedIs
<1>8. Steady(p, Rendered(c)) /\ Within(p, Rendered(c))
  BY <1>1, <1>6, <1>7, WithinComposes DEF Steady
<1>. QED BY <1>2, <1>7, <1>8

LEMMA ShownIs ==
    ASSUME NEW p \in Pages, NEW results \in SUBSET Rows
    PROVE  /\ Shown(p, results) \in Pages /\ Steady(p, Shown(p, results))
           /\ \A m : Nowhere(p, m) /\ Free(results, m) => Nowhere(Shown(p, results), m)
<1> DEFINE refines  == p.server # None /\ Cardinality(p.pills) > 1
           base     == IF refines THEN [p EXCEPT !.had = TRUE, !.emails = p.server]
                       ELSE [p EXCEPT !.had = TRUE, !.emails = results, !.pre = results,
                                      !.server = results]
           filtered == IF p.pills = {} THEN base ELSE ApplyPills(base)
           last     == IF filtered.emails = {} /\ ~refines
                       THEN [filtered EXCEPT !.emails = results] ELSE filtered
<1>1. Shown(p, results) = Rendered(last)
  BY DEF Shown
<1>2. /\ base \in Pages /\ Steady(p, base)
      /\ \A m : Nowhere(p, m) /\ Free(results, m) => Nowhere(base, m)
  <2>1. CASE refines
    <3> DEFINE b == [p EXCEPT !.had = TRUE, !.emails = p.server]
    <3>1. p.server \in SUBSET Rows /\ p.server # None
      BY <2>1 DEF Pages, Maybe
    <3>2. b \in Pages /\ Steady(p, b) /\ b.emails = p.server /\ b.pre = p.pre
          /\ b.server = p.server
      BY <3>1 DEF Pages, Steady
    <3> HIDE DEF b
    <3>3. \A m : Nowhere(p, m) => Nowhere(b, m)
      BY <3>1, <3>2 DEF Nowhere, Lacks, Steady
    <3>4. base = b
      BY <2>1 DEF b
    <3>. QED BY <3>2, <3>3, <3>4
  <2>2. CASE ~refines
    <3> DEFINE b == [p EXCEPT !.had = TRUE, !.emails = results, !.pre = results,
                             !.server = results]
    <3>1. results \in Maybe(SUBSET Rows)
      BY DEF Maybe
    <3>2. b \in Pages /\ Steady(p, b) /\ b.emails = results /\ b.pre = results
          /\ b.server = results
      BY <3>1 DEF Pages, Steady
    <3> HIDE DEF b
    <3>3. \A m : Nowhere(p, m) /\ Free(results, m) => Nowhere(b, m)
      BY <3>2 DEF Nowhere, Lacks, Steady
    <3>4. base = b
      BY <2>2 DEF b
    <3>. QED BY <3>2, <3>3, <3>4
  <2>. QED BY <2>1, <2>2
<1> HIDE DEF base, refines
<1>3. filtered \in Pages /\ Steady(base, filtered) /\ Within(base, filtered)
  <2>1. base \in Pages /\ Steady(base, base) /\ Within(base, base)
    BY <1>2 DEF Steady, Within
  <2>. QED BY <1>2, <2>1, ApplyPillsIs
<1> HIDE DEF filtered
<1>4. /\ last \in Pages /\ Steady(filtered, last)
      /\ \A m : Nowhere(filtered, m) /\ Free(results, m) => Nowhere(last, m)
  <2> DEFINE f == [filtered EXCEPT !.emails = results]
  <2>1. /\ f \in Pages /\ Steady(filtered, f)
        /\ f.emails = results /\ f.pre = filtered.pre /\ f.server = filtered.server
    BY <1>3 DEF Pages, Steady
  <2> HIDE DEF f
  <2>2. \A m : Nowhere(filtered, m) /\ Free(results, m) => Nowhere(f, m)
    BY <2>1 DEF Nowhere, Steady
  <2>3. last = f \/ last = filtered
    BY DEF f
  <2>4. Steady(filtered, filtered)
    BY DEF Steady
  <2>. QED BY <1>3, <2>1, <2>2, <2>3, <2>4
<1> HIDE DEF last
<1>5. Rendered(last) \in Pages /\ Steady(last, Rendered(last)) /\ Within(last, Rendered(last))
  BY <1>4, RenderedIs
<1>6. \A m : Nowhere(p, m) /\ Free(results, m) => Nowhere(Rendered(last), m)
  BY <1>2, <1>3, <1>4, <1>5 DEF Within
<1>7. Steady(p, Rendered(last))
  BY <1>2, <1>3, <1>4, <1>5 DEF Steady
<1>. QED BY <1>1, <1>5, <1>6, <1>7

\* q has the loads and the view of p.
SameView(p, q) ==
    /\ q.loads = p.loads /\ q.folders = p.folders /\ q.warm = p.warm
    /\ q.acct = p.acct /\ q.folder = p.folder /\ q.filter = p.filter
    /\ q.open = p.open /\ q.due = p.due

\* The cache of the view k becomes e.
LEMMA CachedIs ==
    ASSUME NEW p \in Pages, NEW k \in Keys, NEW e \in SUBSET Rows
    PROVE  LET q == [p EXCEPT !.cache[k] = e]
           IN  /\ q \in Pages /\ SameView(p, q) /\ q.emails = p.emails /\ q.picked = p.picked
               /\ q.grid = p.grid /\ q.search = p.search /\ q.searches = p.searches
               /\ (NoSearch(p) => NoSearch(q))
               /\ (Stocked(p) /\ (Browsing => OfMailbox(e, k[1], k[2])) => Stocked(q))
               /\ \A m : Nowhere(p, m) /\ Free(e, m) => Nowhere(q, m)
<1> DEFINE c == [p.cache EXCEPT ![k] = e]
           q == [p EXCEPT !.cache = c]
<1>1. [p EXCEPT !.cache[k] = e] = q
  BY DEF Pages
<1>2. p.cache \in [Keys -> Maybe(SUBSET Rows)] /\ e \in Maybe(SUBSET Rows)
  BY DEF Pages, Maybe
<1>3. c \in [Keys -> Maybe(SUBSET Rows)] /\ c[k] = e /\ \A j \in Keys : j # k => c[j] = p.cache[j]
  BY <1>2
<1> HIDE DEF c
<1>4. /\ q \in Pages /\ SameView(p, q) /\ q.emails = p.emails /\ q.picked = p.picked
      /\ q.grid = p.grid /\ q.search = p.search /\ q.searches = p.searches
      /\ q.cache = c /\ q.pre = p.pre /\ q.server = p.server
      /\ (NoSearch(p) => NoSearch(q))
  BY <1>3 DEF Pages, SameView, NoSearch
<1> HIDE DEF q
<1>5. ASSUME Stocked(p), Browsing => OfMailbox(e, k[1], k[2]) PROVE Stocked(q)
  <2>1. ASSUME Browsing, NEW j \in Keys, q.cache[j] # None
        PROVE  OfMailbox(q.cache[j], j[1], j[2])
    BY <1>3, <1>4, <1>5, <2>1 DEF Stocked
  <2>. QED BY <1>4, <1>5, <2>1 DEF Stocked, SameView
<1>6. ASSUME NEW m, Nowhere(p, m), Free(e, m) PROVE Nowhere(q, m)
  <2>1. \A j \in Keys : Lacks(q.cache[j], m)
    BY <1>3, <1>4, <1>6 DEF Nowhere, Lacks
  <2>. QED BY <1>4, <1>6, <2>1 DEF Nowhere, SameView
<1>. QED BY <1>1, <1>4, <1>5, <1>6

LEMMA PaintedIs ==
    ASSUME NEW p, Base(p), NEW l \in Loads, l.rows # None, \A r \in l.rows : r.of = l.key,
           l.key[1] = p.acct, l.key[2] = p.folder
    PROVE  LET q == Painted(p, l)
           IN  /\ Base(q) /\ SameView(p, q)
               /\ (Browsing => q.grid = "rows" /\ q.emails = l.rows)
               /\ \A m : Nowhere(p, m) /\ Free(l.rows, m) => Nowhere(q, m)
<1> DEFINE listed   == [p EXCEPT !.emails = l.rows]
           again    == [listed EXCEPT !.pre = l.rows]
           filtered == IF p.pills = {} /\ p.draft = None THEN Rendered(listed)
                       ELSE ApplyPills(again)
           q        == IF l.kept THEN [filtered EXCEPT !.cache[l.key] = filtered.emails]
                       ELSE filtered
<1>1. p \in Pages /\ Stocked(p) /\ NoSearch(p) /\ OfTheFolder(p)
  BY DEF Base
<1>2. l.rows \in SUBSET Rows /\ l.key \in Keys
  BY DEF Loads, Maybe
<1>3. Painted(p, l) = q
  BY DEF Painted
<1>4. /\ listed \in Pages /\ Steady(p, listed) /\ listed.emails = l.rows
      /\ listed.pre = p.pre /\ listed.server = p.server
      /\ listed.picked = p.picked /\ listed.flight = p.flight
      /\ NoSearch(listed)
  BY <1>1, <1>2 DEF Pages, Steady, NoSearch
<1> HIDE DEF listed
<1>5. \A m : Nowhere(p, m) /\ Free(l.rows, m) => Nowhere(listed, m)
  BY <1>4 DEF Nowhere, Steady
<1>6. /\ filtered \in Pages /\ Steady(p, filtered)
      /\ \A m : Nowhere(p, m) /\ Free(l.rows, m) => Nowhere(filtered, m)
      /\ (Browsing => /\ NoSearch(filtered) /\ filtered.emails = l.rows
                      /\ filtered.grid = "rows" /\ filtered.picked = p.picked)
  <2>1. CASE p.pills = {} /\ p.draft = None
    <3>1. /\ Rendered(listed) \in Pages /\ Steady(listed, Rendered(listed))
          /\ Within(listed, Rendered(listed)) /\ NoSearch(Rendered(listed))
          /\ Rendered(listed).emails = l.rows /\ Rendered(listed).picked = p.picked
          /\ (~p.flight => Rendered(listed).grid = "rows")
      BY <1>4, RenderedIs
    <3>2. Browsing => ~p.flight
      BY <1>1 DEF NoSearch
    <3>3. filtered = Rendered(listed)
      BY <2>1
    <3>4. Steady(p, Rendered(listed))
      BY <1>4, <3>1 DEF Steady
    <3>. QED BY <1>5, <3>1, <3>2, <3>3, <3>4 DEF Within
  <2>2. CASE ~(p.pills = {} /\ p.draft = None)
    <3>1. ~Browsing
      BY <1>1, <2>2 DEF NoSearch
    <3>2. l.rows \in Maybe(SUBSET Rows)
      BY <1>2 DEF Maybe
    <3>3. /\ again \in Pages /\ Steady(listed, again) /\ again.emails = l.rows
          /\ again.pre = l.rows /\ again.server = listed.server
      BY <1>4, <3>2 DEF Pages, Steady
    <3> HIDE DEF again
    <3>4. \A m : Nowhere(listed, m) /\ Free(l.rows, m) => Nowhere(again, m)
      BY <3>3 DEF Nowhere, Lacks, Steady
    <3>5. ApplyPills(again) \in Pages /\ Steady(again, ApplyPills(again))
          /\ Within(again, ApplyPills(again))
      BY <3>3, ApplyPillsIs
    <3>6. filtered = ApplyPills(again)
      BY <2>2
    <3>7. Steady(p, ApplyPills(again))
      BY <1>4, <3>3, <3>5 DEF Steady
    <3>. QED BY <1>5, <3>1, <3>4, <3>5, <3>6, <3>7 DEF Within
  <2>. QED BY <2>1, <2>2
<1> HIDE DEF filtered
<1>7. filtered.emails \in SUBSET Rows /\ Stocked(filtered) /\ SameView(p, filtered)
  <2>1. Stocked(filtered)
    BY <1>1, <1>6, SteadyKeeps
  <2>. QED BY <1>6, <2>1 DEF Pages, Steady, SameView
<1>8. Browsing => OfMailbox(filtered.emails, l.key[1], l.key[2])
  BY <1>6 DEF OfMailbox
<1>9. \A m : Nowhere(filtered, m) => Free(filtered.emails, m)
  BY DEF Nowhere
<1>10. /\ q \in Pages /\ SameView(filtered, q) /\ Stocked(q) /\ q.emails = filtered.emails
       /\ q.picked = filtered.picked /\ q.grid = filtered.grid
       /\ (NoSearch(filtered) => NoSearch(q))
       /\ \A m : Nowhere(filtered, m) => Nowhere(q, m)
  <2>1. CASE l.kept
    <3> DEFINE k == l.key
               e == filtered.emails
               c == [filtered EXCEPT !.cache[k] = e]
    <3>1. k \in Keys /\ e \in SUBSET Rows /\ (Browsing => OfMailbox(e, k[1], k[2]))
      BY <1>2, <1>7, <1>8
    <3>2. q = c
      BY <2>1
    <3>3. /\ c \in Pages /\ SameView(filtered, c) /\ c.emails = filtered.emails
          /\ c.picked = filtered.picked /\ c.grid = filtered.grid
          /\ (NoSearch(filtered) => NoSearch(c)) /\ Stocked(c)
          /\ \A m : Nowhere(filtered, m) /\ Free(e, m) => Nowhere(c, m)
      <4> HIDE DEF k, e
      <4>. QED BY <1>6, <1>7, <3>1, CachedIs
    <3> HIDE DEF c
    <3>. QED BY <1>9, <3>2, <3>3
  <2>2. CASE ~l.kept
    BY <1>6, <1>7, <2>2 DEF SameView
  <2>. QED BY <2>1, <2>2
<1> HIDE DEF q
<1>11. SameView(p, q)
  BY <1>7, <1>10 DEF SameView
<1>12. NoSearch(q)
  BY <1>6, <1>10 DEF NoSearch
<1>13. OfTheFolder(q)
  <2> SUFFICES ASSUME Browsing
               PROVE  OfMailbox(q.emails, q.acct, q.folder) /\ OfMailbox(q.picked, q.acct, q.folder)
    BY DEF OfTheFolder
  <2>1. q.emails = l.rows /\ q.picked = p.picked /\ q.acct = p.acct /\ q.folder = p.folder
    BY <1>6, <1>10, <1>11 DEF SameView
  <2>2. OfMailbox(p.picked, p.acct, p.folder)
    BY <1>1 DEF OfTheFolder
  <2>3. OfMailbox(l.rows, p.acct, p.folder)
    BY DEF OfMailbox
  <2>. QED BY <2>1, <2>2, <2>3
<1>14. Base(q)
  BY <1>10, <1>12, <1>13 DEF Base
<1>. QED BY <1>3, <1>6, <1>10, <1>11, <1>14

\* The rows of a finished job leave the page.
LEMMA RemovedIs ==
    ASSUME IndInv, NEW j \in jobs
    PROVE  LET q == Removed(j)
           IN  /\ Base(q) /\ SameView(page, q) /\ Within(page, q)
               /\ q.emails \subseteq page.emails
               /\ (Browsing => q.grid = "rows")
               /\ (j.kind # "done" /\ page.search = None =>
                    \A m : m.uid \in Uids(j.rows) =>
                        /\ Free(q.emails, m)
                        /\ q.cache[Key(page)] # None => Free(q.cache[Key(page)], m))
               /\ \A k \in Keys : k # Key(page) => q.cache[k] = page.cache[k]
               /\ q.pre = page.pre /\ q.server = page.server /\ q.search = page.search
<1> DEFINE uids    == Uids(j.rows)
           taken   == IF j.kind = "done" /\ ~j.fades THEN page
                      ELSE Taken(page, uids)
           cleared == IF j.kind = "one" THEN [taken EXCEPT !.picked = NotOf(@, uids)]
                      ELSE Unpicked(taken)
           shown   == Rendered(cleared)
<1>1. page \in Pages /\ Stocked(page) /\ NoSearch(page) /\ OfTheFolder(page)
  BY DEF IndInv, Sound, Base
<1>2. Removed(j) = WriteBack(shown)
  BY DEF Removed
<1>3. \A rows \in SUBSET Rows : NotOf(rows, uids) \subseteq rows
  BY DEF NotOf
<1>4. \A m : m.uid \in uids => Free(NotOf(page.emails, uids), m)
  BY DEF NotOf, Free, Uid
<1> HIDE DEF uids
<1>5. /\ taken \in Pages /\ Steady(page, taken) /\ taken.emails \subseteq page.emails
      /\ taken.picked = page.picked /\ taken.pre = page.pre /\ taken.server = page.server
      /\ taken.search = page.search /\ NoSearch(taken)
      /\ (j.kind # "done" => taken.emails = NotOf(page.emails, uids))
  <2> DEFINE e == NotOf(page.emails, uids)
             t == [page EXCEPT !.emails = e]
  <2>1. e \in SUBSET Rows /\ e \subseteq page.emails
    BY <1>1, <1>3 DEF Pages
  <2>2. taken = page \/ taken = t
    BY DEF Taken
  <2>3. j.kind # "done" => taken = t
    BY DEF Taken
  <2> HIDE DEF e
  <2>4. /\ t \in Pages /\ Steady(page, t) /\ t.emails = e
        /\ t.picked = page.picked /\ t.pre = page.pre /\ t.server = page.server
        /\ t.search = page.search /\ NoSearch(t)
    BY <1>1, <2>1 DEF Pages, Steady, NoSearch
  <2>5. Steady(page, page)
    BY DEF Steady
  <2> HIDE DEF t, taken
  <2>6. CASE taken = t
    BY <2>1, <2>4, <2>6 DEF e
  <2>7. CASE taken = page /\ j.kind = "done"
    BY <1>1, <2>5, <2>7
  <2>. QED BY <2>2, <2>3, <2>6, <2>7
<1> HIDE DEF taken
<1>6. /\ cleared \in Pages /\ Steady(taken, cleared) /\ cleared.emails = taken.emails
      /\ cleared.picked \subseteq taken.picked /\ cleared.pre = taken.pre
      /\ cleared.server = taken.server /\ cleared.search = taken.search /\ NoSearch(cleared)
  <2>1. NotOf(taken.picked, uids) \subseteq taken.picked
    BY DEF NotOf
  <2>2. CASE j.kind = "one"
    <3> DEFINE x == NotOf(taken.picked, uids)
               t == [taken EXCEPT !.picked = x]
    <3>1. cleared = t
      BY <2>2
    <3> HIDE DEF x
    <3>2. x \subseteq taken.picked
      BY <2>1 DEF x
    <3>3. /\ t \in Pages /\ Steady(taken, t) /\ t.emails = taken.emails /\ t.picked = x
          /\ t.pre = taken.pre /\ t.server = taken.server /\ t.search = taken.search
          /\ NoSearch(t)
      BY <1>5, <3>2 DEF Pages, Steady, NoSearch
    <3> HIDE DEF t, cleared
    <3>. QED BY <3>1, <3>2, <3>3
  <2>3. CASE j.kind # "one"
    <3>1. cleared = Unpicked(taken)
      BY <2>3
    <3>2. Unpicked(taken).pre = taken.pre /\ Unpicked(taken).server = taken.server
      BY <1>5 DEF Unpicked, Pages
    <3> HIDE DEF cleared
    <3>. QED BY <1>5, <3>1, <3>2, UnpickedIs
  <2>. QED BY <2>2, <2>3
<1> HIDE DEF cleared
<1>7. /\ shown \in Pages /\ Steady(cleared, shown) /\ shown.emails = cleared.emails
      /\ shown.picked = cleared.picked /\ shown.search = cleared.search /\ NoSearch(shown)
      /\ (~cleared.flight => shown.grid = "rows")
  BY <1>6, RenderedIs
<1>8. shown.pre = cleared.pre /\ shown.server = cleared.server
  BY <1>6 DEF Rendered, Pages
<1> HIDE DEF shown
<1>9. /\ shown.emails \subseteq page.emails /\ shown.picked \subseteq page.picked
      /\ shown.pre = page.pre /\ shown.server = page.server /\ shown.search = page.search
      /\ Steady(page, shown) /\ (Browsing => shown.grid = "rows")
      /\ (j.kind # "done" => shown.emails = NotOf(page.emails, uids))
  BY <1>5, <1>6, <1>7, <1>8 DEF Steady, NoSearch
<1>10. Stocked(shown)
  BY <1>1, <1>9, SteadyKeeps
<1>11. Within(page, shown)
  BY <1>9 DEF Within, Nowhere, Free, Steady
<1>12. Browsing => /\ OfMailbox(shown.emails, page.acct, page.folder)
                   /\ OfMailbox(shown.picked, page.acct, page.folder)
  BY <1>1, <1>9 DEF OfTheFolder, OfMailbox
<1>13. /\ Key(shown) = Key(page) /\ Key(page) \in Keys
       /\ Key(page)[1] = page.acct /\ Key(page)[2] = page.folder
  BY <1>1, <1>9 DEF Key, Keys, Pages, Steady
<1> DEFINE q == WriteBack(shown)
           k == Key(page)
           e == shown.emails
           c == [shown EXCEPT !.cache[k] = e]
<1>14. q = IF shown.search # None \/ shown.cache[k] = None THEN shown ELSE c
  BY <1>13 DEF WriteBack
<1>15. /\ c \in Pages /\ SameView(shown, c) /\ c.emails = shown.emails
       /\ c.picked = shown.picked /\ c.grid = shown.grid /\ c.search = shown.search
       /\ NoSearch(c) /\ Stocked(c)
       /\ \A m : Nowhere(shown, m) /\ Free(e, m) => Nowhere(c, m)
  <2>1. k \in Keys /\ e \in SUBSET Rows /\ (Browsing => OfMailbox(e, k[1], k[2]))
    BY <1>7, <1>12, <1>13 DEF Pages
  <2> HIDE DEF k, e
  <2>. QED BY <1>7, <1>10, <2>1, CachedIs
<1>16. /\ c.cache[k] = e /\ c.pre = shown.pre /\ c.server = shown.server
       /\ \A i \in Keys : i # k => c.cache[i] = shown.cache[i]
  BY <1>7, <1>13 DEF Pages
<1>17. SameView(page, shown) /\ SameView(page, c)
  BY <1>9, <1>15 DEF SameView, Steady
<1>18. shown.cache = page.cache
  BY <1>9 DEF Steady
<1> HIDE DEF c, q, k
<1>19. /\ q \in Pages /\ SameView(page, q) /\ q.emails = e /\ q.picked = shown.picked
       /\ q.grid = shown.grid /\ q.search = shown.search /\ NoSearch(q) /\ Stocked(q)
       /\ q.pre = shown.pre /\ q.server = shown.server
       /\ \A i \in Keys : i # k => q.cache[i] = page.cache[i]
  BY <1>7, <1>10, <1>14, <1>15, <1>16, <1>17, <1>18
<1>20. shown.search = None /\ q.cache[k] # None => q.cache[k] = e
  BY <1>14, <1>16
<1>21. Within(page, q)
  <2> SUFFICES ASSUME NEW m, Nowhere(page, m) PROVE Nowhere(q, m)
    BY DEF Within
  <2>1. Nowhere(shown, m)
    BY <1>11 DEF Within
  <2>2. Free(e, m)
    BY <2>1 DEF Nowhere
  <2>. QED BY <1>14, <1>15, <2>1, <2>2
<1>22. OfTheFolder(q)
  <2>1. q.acct = page.acct /\ q.folder = page.folder
    BY <1>19 DEF SameView
  <2>. QED BY <1>12, <1>19, <2>1 DEF OfTheFolder
<1>23. Base(q)
  BY <1>19, <1>22 DEF Base
<1>24. ASSUME j.kind # "done", page.search = None, NEW m, m.uid \in uids
       PROVE  Free(q.emails, m) /\ (q.cache[k] # None => Free(q.cache[k], m))
  BY <1>4, <1>9, <1>19, <1>20, <1>24
<1>. QED BY <1>2, <1>9, <1>19, <1>21, <1>23, <1>24 DEF uids, k, q

(***************************************************************************)
(* Steps of the page.                                                      *)
(***************************************************************************)
Quiet(p) == p.search = None /\ p.loads = {} /\ p.searches = {} /\ p.warm = None

\* q shows no mail of the past that p did not show.
Renews(p, q) == \A m : m \notin mail.kept /\ Nowhere(p, m) => Nowhere(q, m)

\* The budget is spent on what there is a budget for.
LEMMA SpendIs ==
    ASSUME IndInv, NEW what \in Spendable, Spend(what)
    PROVE  /\ ghost' \in Ghosts
           /\ \A w \in Spendable : Never({w}) => ghost'.left[w] = 0
           /\ ghost'.gone = ghost.gone /\ ghost'.wrong = ghost.wrong
           /\ ghost'.stale = ghost.stale
           /\ ~Never({what})
<1> DEFINE left == [ghost.left EXCEPT ![what] = @ - 1]
<1>1. /\ ghost \in Ghosts
      /\ \A w \in Spendable : Never({w}) => ghost.left[w] = 0
  BY DEF IndInv, TypeOK
<1>2. ghost.left[what] > 0 /\ ghost' = [ghost EXCEPT !.left = left]
  BY <1>1 DEF Spend, Ghosts
<1>3. left \in [Spendable -> Nat] /\ \A w \in Spendable : w # what => left[w] = ghost.left[w]
  BY <1>1, <1>2 DEF Ghosts
<1>4. ~Never({what})
  BY <1>1, <1>2
<1> HIDE DEF left
<1>5. /\ ghost' \in Ghosts /\ ghost'.left = left /\ ghost'.gone = ghost.gone
      /\ ghost'.wrong = ghost.wrong /\ ghost'.stale = ghost.stale
  BY <1>1, <1>2, <1>3 DEF Ghosts
<1>6. \A w \in Spendable : Never({w}) => ghost'.left[w] = 0
  BY <1>1, <1>3, <1>4, <1>5
<1>. QED BY <1>1, <1>2, <1>3, <1>4, <1>5, <1>6

\* The budget is spent, and no mail is deleted or found to be.
Spent ==
    /\ ghost' \in Ghosts
    /\ \A w \in Spendable : Never({w}) => ghost'.left[w] = 0
    /\ ghost'.gone = ghost.gone /\ ghost'.wrong = ghost.wrong
    /\ ghost'.stale \subseteq ghost.stale

Spending == ghost' = ghost \/ (\E what \in Spendable : Spend(what)) \/ Spent

LEMMA GhostIs == ASSUME IndInv, Spending PROVE Spent
<1>1. CASE ghost' = ghost
  BY <1>1 DEF IndInv, TypeOK, Spent
<1>2. CASE \E what \in Spendable : Spend(what)
  BY <1>2, SpendIs DEF Spent
<1>. QED BY <1>1, <1>2 DEF Spending

\* jobs that lose their calm.
LEMMA DisturbedIs ==
    ASSUME IndInv, Disturbed
    PROVE  /\ jobs' \subseteq Works
           /\ \A k \in jobs' : ~k.calm /\ \E j \in jobs :
                /\ k.kind = j.kind /\ k.rows = j.rows /\ k.todo = j.todo /\ k.hit = j.hit
                /\ k.view = j.view
<1>1. \A j \in jobs : j \in Works
  BY DEF IndInv, TypeOK
<1>2. ASSUME NEW j \in jobs
      PROVE  LET k == [j EXCEPT !.calm = FALSE]
             IN  /\ k \in Works /\ ~k.calm
                 /\ k.kind = j.kind /\ k.rows = j.rows /\ k.todo = j.todo /\ k.hit = j.hit
                 /\ k.view = j.view
  BY <1>1 DEF Works
<1>. QED BY <1>2 DEF Disturbed

LEMMA PageStep ==
    ASSUME IndInv, mail' = mail, Spending, Sound(page'), Renews(page, page'),
           Disturbed \/ (jobs' = jobs /\ (Quiet(page) => Quiet(page')))
    PROVE  IndInv'
<1>1. /\ ghost' \in Ghosts
      /\ \A w \in Spendable : Never({w}) => ghost'.left[w] = 0
      /\ ghost'.gone = ghost.gone /\ ghost'.wrong = ghost.wrong
  BY GhostIs DEF Spent
<1>2. /\ jobs' \subseteq Works
      /\ \A k \in jobs' : /\ k.calm => jobs' = jobs
                          /\ \E j \in jobs :
                               /\ k.kind = j.kind /\ k.rows = j.rows /\ k.todo = j.todo
                               /\ k.hit = j.hit /\ k.view = j.view
  <2>1. CASE Disturbed
    BY <2>1, DisturbedIs
  <2>2. CASE jobs' = jobs
    BY <2>2 DEF IndInv, TypeOK
  <2>. QED BY <2>1, <2>2
<1>3. TypeOK'
  <2>1. page' \in Pages
    BY DEF Sound, Base
  <2>2. mail' \in [kept : SUBSET Stored, done : SUBSET Stored]
    BY DEF IndInv, TypeOK
  <2>. QED BY <1>1, <1>2, <2>1, <2>2 DEF TypeOK
<1>4. GoneForGood'
  BY <1>1 DEF IndInv, GoneForGood, Renews
<1>5. JobsAreSound'
  <2> SUFFICES ASSUME NEW k \in jobs'
      PROVE  /\ k.calm => Quiet(page')
             /\ k.todo \subseteq Uids(k.rows)
             /\ \A m \in k.hit : /\ m.uid \in Uids(k.rows)
                                 /\ k.kind # "done" => m \notin mail'.kept
    BY DEF JobsAreSound, Quiet
  <2>1. PICK j \in jobs : /\ k.kind = j.kind /\ k.rows = j.rows /\ k.todo = j.todo
                          /\ k.hit = j.hit /\ k.view = j.view
    BY <1>2
  <2>2. /\ j.todo \subseteq Uids(j.rows)
        /\ \A m \in j.hit : m.uid \in Uids(j.rows) /\ (j.kind # "done" => m \notin mail.kept)
    BY DEF IndInv, JobsAreSound
  <2>3. k.calm => Quiet(page')
    <3> SUFFICES ASSUME k.calm PROVE Quiet(page')
      OBVIOUS
    <3>1. ~Disturbed
      BY DisturbedIs
    <3>2. k \in jobs /\ (Quiet(page) => Quiet(page'))
      BY <3>1
    <3>3. Quiet(page)
      BY <3>2 DEF IndInv, JobsAreSound, Quiet
    <3>. QED BY <3>2, <3>3
  <2>. QED BY <2>1, <2>2, <2>3
<1>6. JobsFit'
  <2> SUFFICES ASSUME Browsing
               PROVE  OnlyTheChosen' /\ \A k \in jobs' : OfMailbox(k.rows, k.view[1], k.view[2])
    BY DEF JobsFit
  <2>1. OnlyTheChosen /\ \A j \in jobs : OfMailbox(j.rows, j.view[1], j.view[2])
    BY DEF IndInv, JobsFit
  <2>2. OnlyTheChosen'
    BY <1>1, <2>1 DEF OnlyTheChosen
  <2>3. \A k \in jobs' : OfMailbox(k.rows, k.view[1], k.view[2])
    BY <1>2, <2>1
  <2>. QED BY <2>2, <2>3
<1>7. Sound(page)'
  OBVIOUS
<1>. QED BY <1>3, <1>4, <1>5, <1>6, <1>7 DEF IndInv

\* Who does not search spends nothing on it.
LEMMA Browses ==
    ASSUME IndInv
    PROVE  /\ Spend("types") => ~Browsing
           /\ Spend("senders") => ~Browsing
           /\ Spend("fails") => ~Reliable
<1>1. {"types", "senders", "fails"} \subseteq Spendable
  BY DEF Spendable
<1>2. Browsing => Never({"types"}) /\ Never({"senders"})
  BY DEF Browsing, Never
<1>3. Reliable => Never({"fails"})
  BY DEF Reliable
<1>. QED BY <1>1, <1>2, <1>3, SpendIs

\* Nothing but the view changes, and what is loaded for the old one is not current.
LEMMA WithinRenews == ASSUME NEW p, NEW q, Within(p, q) PROVE Renews(p, q)
BY DEF Within, Renews

LEMMA PageIs == ASSUME IndInv
                PROVE  /\ page \in Pages /\ Stocked(page) /\ NoSearch(page) /\ OfTheFolder(page)
                       /\ LoadIsOfView(page) /\ ViewHolds(page)
                       /\ Base(page)
BY DEF IndInv, Sound, Base

(***************************************************************************)
(* The view.                                                               *)
(***************************************************************************)
LEMMA OpenKeeps == ASSUME IndInv, Open PROVE IndInv'
<1> DEFINE asked == {[f EXCEPT !.current = FALSE] : f \in page.folders}
<1>1. /\ page' = [page EXCEPT !.open = TRUE, !.due = TRUE, !.emails = {}, !.grid = "loading",
                              !.search = None, !.draft = None, !.pills = {},
                              !.filter = "all", !.mode = FALSE, !.picked = {},
                              !.folders = asked]
      /\ mail' = mail /\ Disturbed /\ Spend("opens")
  BY DEF Open
<1>2. Spending
  BY <1>1 DEF Spending, Spendable
<1>3. asked \subseteq [acct : Accounts, current : BOOLEAN]
  BY PageIs DEF Pages
<1> HIDE DEF asked
<1>4. page' \in Pages
  <2>1. None \in Maybe(Queries) /\ "all" \in Filters
    BY DEF Maybe, Filters
  <2>. QED BY <1>1, <1>3, <2>1, PageIs DEF Pages
<1>5. /\ page'.open /\ page'.due /\ page'.emails = {} /\ page'.picked = {}
      /\ page'.loads = page.loads /\ page'.cache = page.cache /\ page'.warm = page.warm
      /\ page'.acct = page.acct /\ page'.folder = page.folder
      /\ page'.pre = page.pre /\ page'.server = page.server
      /\ page'.search = None /\ page'.draft = None /\ page'.pills = {}
      /\ page'.typing = page.typing /\ page'.searches = page.searches
      /\ page'.flight = page.flight
  BY <1>1, PageIs DEF Pages
<1>6. Base(page')
  BY <1>4, <1>5, PageIs DEF Base, Stocked, NoSearch, OfTheFolder, OfMailbox
<1>7. Sound(page')
  BY <1>5, <1>6, PageIs DEF Sound, LoadIsOfView, ViewHolds
<1>8. Renews(page, page')
  BY <1>5 DEF Renews, Nowhere, Free
<1>. QED BY <1>1, <1>2, <1>7, <1>8, PageStep

LEMMA FirstLoadKeeps == ASSUME IndInv, FirstLoad PROVE IndInv'
<1> DEFINE p == [page EXCEPT !.due = FALSE]
<1>1. /\ page' = IF page.open THEN Load(p, TRUE) ELSE p
      /\ mail' = mail /\ ghost' = ghost /\ Disturbed
  BY DEF FirstLoad
<1>2. /\ p \in Pages /\ Base(p) /\ Within(page, p) /\ p.open = page.open
      /\ p.loads = page.loads /\ p.acct = page.acct /\ p.folder = page.folder
  BY PageIs DEF Pages, Base, Stocked, NoSearch, OfTheFolder, Within, Nowhere
<1> HIDE DEF p
<1>3. Sound(page') /\ Within(page, page')
  <2>1. CASE page.open
    BY <1>1, <1>2, <2>1, LoadIs, WithinComposes
  <2>2. CASE ~page.open
    <3>1. page' = p
      BY <1>1, <2>2
    <3>2. Sound(p)
      BY <1>2, <2>2, PageIs DEF Sound, LoadIsOfView, ViewHolds
    <3>. QED BY <1>2, <3>1, <3>2
  <2>. QED BY <2>1, <2>2
<1>4. Spending /\ Renews(page, page')
  BY <1>1, <1>3, WithinRenews DEF Spending
<1>. QED BY <1>1, <1>3, <1>4, PageStep

LEMMA CloseKeeps == ASSUME IndInv, Close PROVE IndInv'
<1> DEFINE p == [page EXCEPT !.open = FALSE]
<1>1. page' = p /\ mail' = mail /\ ghost' = ghost /\ jobs' = jobs
  BY DEF Close
<1>2. /\ p \in Pages /\ Base(p) /\ Within(page, p) /\ ~p.open
      /\ p.loads = page.loads /\ p.acct = page.acct /\ p.folder = page.folder
      /\ (Quiet(page) => Quiet(p))
  BY PageIs DEF Pages, Base, Stocked, NoSearch, OfTheFolder, Within, Nowhere, Quiet
<1> HIDE DEF p
<1>3. Sound(p)
  BY <1>2, PageIs DEF Sound, LoadIsOfView, ViewHolds
<1>4. Spending /\ Renews(page, p)
  BY <1>1, <1>2, WithinRenews DEF Spending
<1>. QED BY <1>1, <1>2, <1>3, <1>4, PageStep

LEMMA PickFolderKeeps == ASSUME IndInv, NEW f \in Folders, PickFolder(f) PROVE IndInv'
<1> DEFINE p == [page EXCEPT !.folder = f]
<1>1. page' = Load(Fresh(p), FALSE) /\ mail' = mail /\ Disturbed /\ Spend("folders")
  BY DEF PickFolder
<1>2. p \in Pages /\ Stocked(p) /\ NoSearch(p) /\ Within(page, p)
  BY PageIs DEF Pages, Stocked, NoSearch, Within, Nowhere
<1> HIDE DEF p
<1>3. Base(Fresh(p)) /\ Within(p, Fresh(p))
  BY <1>2, FreshIs
<1>4. Sound(page') /\ Within(page, page')
  BY <1>1, <1>2, <1>3, LoadIs, WithinComposes
<1>5. Spending /\ Renews(page, page')
  BY <1>1, <1>4, WithinRenews DEF Spending, Spendable
<1>. QED BY <1>1, <1>4, <1>5, PageStep

LEMMA PickFilterKeeps == ASSUME IndInv, NEW f \in Filters, PickFilter(f) PROVE IndInv'
<1> DEFINE p == [page EXCEPT !.filter = f]
<1>1. page' = Load(Fresh(p), FALSE) /\ mail' = mail /\ Disturbed /\ Spend("filters")
  BY DEF PickFilter
<1>2. p \in Pages /\ Stocked(p) /\ NoSearch(p) /\ Within(page, p)
  BY PageIs DEF Pages, Stocked, NoSearch, Within, Nowhere
<1> HIDE DEF p
<1>3. Base(Fresh(p)) /\ Within(p, Fresh(p))
  BY <1>2, FreshIs
<1>4. Sound(page') /\ Within(page, page')
  BY <1>1, <1>2, <1>3, LoadIs, WithinComposes
<1>5. Spending /\ Renews(page, page')
  BY <1>1, <1>4, WithinRenews DEF Spending, Spendable
<1>. QED BY <1>1, <1>4, <1>5, PageStep

LEMMA RefreshKeeps == ASSUME IndInv, Refresh PROVE IndInv'
<1>1. page' = Load(page, TRUE) /\ mail' = mail /\ Disturbed /\ Spend("refreshes")
  BY DEF Refresh
<1>2. Sound(page') /\ Within(page, page')
  BY <1>1, PageIs, LoadIs
<1>3. Spending /\ Renews(page, page')
  BY <1>1, <1>2, WithinRenews DEF Spending, Spendable
<1>. QED BY <1>1, <1>2, <1>3, PageStep

LEMMA PickAccountKeeps == ASSUME IndInv, NEW a \in Accounts, PickAccount(a) PROVE IndInv'
<1> DEFINE p == [page EXCEPT !.acct = a]
           s == Fresh(p)
           asked == {[f EXCEPT !.current = FALSE] : f \in s.folders}
                      \cup {[acct |-> a, current |-> TRUE]}
           q == [s EXCEPT !.folders = asked]
<1>1. page' = q /\ mail' = mail /\ Disturbed /\ Spend("accounts")
  BY DEF PickAccount
<1>2. p \in Pages /\ Stocked(p) /\ NoSearch(p) /\ Within(page, p)
  BY PageIs DEF Pages, Stocked, NoSearch, Within, Nowhere
<1> HIDE DEF p
<1>3. /\ Base(s) /\ Within(p, s) /\ s.emails = {} /\ \A l \in s.loads : ~l.current
  BY <1>2, FreshIs
<1> HIDE DEF s
<1>4. s \in Pages
  BY <1>3 DEF Base
<1>5. asked \subseteq [acct : Accounts, current : BOOLEAN] /\ asked # {}
  <2>1. \A f \in s.folders : [f EXCEPT !.current = FALSE] \in [acct : Accounts, current : BOOLEAN]
    <3>1. s.folders \subseteq [acct : Accounts, current : BOOLEAN]
      BY <1>4 DEF Pages
    <3>2. \A f \in [acct : Accounts, current : BOOLEAN] :
             [f EXCEPT !.current = FALSE] \in [acct : Accounts, current : BOOLEAN]
      OBVIOUS
    <3>. QED BY <3>1, <3>2
  <2>2. [acct |-> a, current |-> TRUE] \in [acct : Accounts, current : BOOLEAN]
    OBVIOUS
  <2>. QED BY <2>1, <2>2
<1> HIDE DEF asked
<1>6. /\ q \in Pages /\ q.folders = asked /\ q.loads = s.loads /\ q.emails = {}
      /\ Base(q) /\ Within(s, q)
  BY <1>3, <1>4, <1>5 DEF Pages, Base, Stocked, NoSearch, OfTheFolder, Within, Nowhere
<1> HIDE DEF q
<1>7. Sound(q)
  BY <1>3, <1>5, <1>6 DEF Sound, LoadIsOfView, ViewHolds
<1>8. Within(page, q)
  BY <1>2, <1>3, <1>6, WithinComposes
<1>9. Spending /\ Renews(page, q)
  BY <1>1, <1>8, WithinRenews DEF Spending, Spendable
<1>. QED BY <1>1, <1>7, <1>9, PageStep

LEMMA RowsAreOfHas == \A r \in Rows : <<r.of[1], r.of[2]>> \in Has
BY EmailAssumption DEF Rows

\* In a mailbox the account does not have, there is nothing to show or to choose.
LEMMA NothingIsShown ==
    ASSUME NEW p \in Pages, OfTheFolder(p), Browsing, <<p.acct, p.folder>> \notin Has
    PROVE  p.emails = {} /\ p.picked = {}
<1>1. p.emails \subseteq Rows /\ p.picked \subseteq Rows
  BY DEF Pages
<1>2. \A r \in p.emails \cup p.picked : r.of[1] = p.acct /\ r.of[2] = p.folder
  BY DEF OfTheFolder, OfMailbox
<1>. QED BY <1>1, <1>2, RowsAreOfHas

LEMMA ResettledIs ==
    ASSUME NEW p, Base(p), NEW f
    PROVE  Base(Resettled(p, f)) /\ Within(p, Resettled(p, f))
<1> DEFINE empty == [k \in Keys |-> None]
           c == [p EXCEPT !.folder = Inbox, !.filter = "all", !.search = None, !.typing = None,
                          !.cache = empty]
<1>1. p \in Pages /\ Stocked(p) /\ NoSearch(p) /\ OfTheFolder(p)
  BY DEF Base
<1>2. CASE ~(p.open /\ f.current /\ f.acct = p.acct /\ <<p.acct, p.folder>> \notin Has)
  <2>1. Resettled(p, f) = p
    BY <1>2 DEF Resettled
  <2>. QED BY <2>1 DEF Within
<1>3. CASE p.open /\ f.current /\ f.acct = p.acct /\ <<p.acct, p.folder>> \notin Has
  <2>1. Resettled(p, f) = c
    BY <1>3 DEF Resettled
  <2>2. empty \in [Keys -> Maybe(SUBSET Rows)] /\ \A k \in Keys : empty[k] = None
    BY DEF Maybe
  <2> HIDE DEF empty
  <2>3. None \in Maybe(Queries) /\ "all" \in Filters /\ Inbox \in Folders
    BY EmailAssumption DEF Maybe, Filters
  <2>4. /\ c \in Pages /\ c.cache = empty /\ c.emails = p.emails /\ c.picked = p.picked
        /\ c.loads = p.loads /\ c.warm = p.warm /\ c.pre = p.pre /\ c.server = p.server
        /\ NoSearch(c)
    BY <1>1, <2>2, <2>3 DEF Pages, NoSearch
  <2> HIDE DEF c
  <2>5. Stocked(c)
    BY <1>1, <2>2, <2>4 DEF Stocked
  <2>6. Browsing => p.emails = {} /\ p.picked = {}
    BY <1>1, <1>3, NothingIsShown
  <2>7. OfTheFolder(c)
    BY <2>4, <2>6 DEF OfTheFolder, OfMailbox
  <2>8. Within(p, c)
    BY <2>2, <2>4 DEF Within, Nowhere, Lacks
  <2>. QED BY <2>1, <2>4, <2>5, <2>7, <2>8 DEF Base
<1>. QED BY <1>2, <1>3

LEMMA FoldersAnswerKeeps == ASSUME IndInv, FoldersAnswer PROVE IndInv'
<1>1. PICK f \in page.folders :
        LET p == [page EXCEPT !.folders = @ \ {f}]
        IN  /\ \/ page' = Load(Resettled(p, f), TRUE) /\ UNCHANGED ghost
               \/ page' = Load(p, TRUE) /\ Spend("fails")
            /\ mail' = mail /\ Disturbed
  BY DEF FoldersAnswer
<1> DEFINE p == [page EXCEPT !.folders = @ \ {f}]
<1>2. Base(p) /\ Within(page, p)
  BY PageIs DEF Pages, Base, Stocked, NoSearch, OfTheFolder, Within, Nowhere
<1>3. /\ \/ page' = Load(Resettled(p, f), TRUE) /\ UNCHANGED ghost
         \/ page' = Load(p, TRUE) /\ Spend("fails")
      /\ mail' = mail /\ Disturbed
  BY <1>1
<1> HIDE DEF p
<1>4. Base(Resettled(p, f)) /\ Within(p, Resettled(p, f))
  BY <1>2, ResettledIs
<1>5. Sound(page') /\ Within(page, page')
  BY <1>2, <1>3, <1>4, LoadIs, WithinComposes
<1>6. Spending /\ Renews(page, page')
  BY <1>3, <1>5, WithinRenews DEF Spending, Spendable
<1>. QED BY <1>3, <1>5, <1>6, PageStep

(***************************************************************************)
(* Loads.                                                                  *)
(***************************************************************************)
\* The rows of a mail there is, listed for a view of its mailbox.
LEMMA RowIs ==
    ASSUME NEW m \in Stored, NEW what \in Filters \cup {"search"}
    PROVE  /\ Row(m, <<m.acct, m.folder, what>>) \in Rows
           /\ Row(m, <<m.acct, m.folder, what>>).mail = m
BY EmailAssumption DEF Row, Rows

LEMMA ListedIs ==
    ASSUME IndInv, NEW key \in Keys
    PROVE  /\ Listed(key) \subseteq Rows /\ \A r \in Listed(key) : r.of = key
           /\ \A m : m \notin mail.kept => Free(Listed(key), m)
<1>1. mail.kept \subseteq Stored
  BY DEF IndInv, TypeOK
<1>2. key = <<key[1], key[2], key[3]>> /\ key[3] \in Filters
  BY DEF Keys
<1>3. ASSUME NEW r \in Listed(key)
      PROVE  r \in Rows /\ r.of = key /\ r.mail \in mail.kept
  <2>1. PICK m \in mail.kept : r = Row(m, key) /\ m.acct = key[1] /\ m.folder = key[2]
    BY DEF Listed
  <2>2. key = <<m.acct, m.folder, key[3]>> /\ m \in Stored
    BY <1>1, <1>2, <2>1
  <2>3. r = Row(m, <<m.acct, m.folder, key[3]>>)
    BY <2>1, <2>2
  <2>4. r \in Rows /\ r.mail = m
    BY <1>2, <2>2, <2>3, RowIs
  <2>5. r.of = key
    BY <2>1 DEF Row
  <2>. QED BY <2>4, <2>5
<1>. QED BY <1>3 DEF Free

\* The page without one of its loads.
LEMMA UnloadedIs ==
    ASSUME IndInv, NEW l \in page.loads
    PROVE  LET p == [page EXCEPT !.loads = @ \ {l}]
           IN  /\ p \in Pages /\ Base(p) /\ LoadIsOfView(p) /\ Within(page, p)
               /\ p.loads = page.loads \ {l} /\ p.acct = page.acct /\ p.folder = page.folder
               /\ p.filter = page.filter /\ p.open = page.open /\ p.due = page.due
               /\ p.folders = page.folders /\ p.emails = page.emails /\ p.grid = page.grid
               /\ Key(p) = Key(page)
<1> DEFINE p == [page EXCEPT !.loads = @ \ {l}]
<1>1. /\ p \in Pages
      /\ p.loads = page.loads \ {l} /\ p.acct = page.acct /\ p.folder = page.folder
      /\ p.filter = page.filter /\ p.open = page.open /\ p.due = page.due
      /\ p.folders = page.folders /\ p.emails = page.emails /\ p.grid = page.grid
      /\ p.cache = page.cache /\ p.warm = page.warm /\ p.picked = page.picked
      /\ p.pre = page.pre /\ p.server = page.server
      /\ NoSearch(p)
  BY PageIs DEF Pages, NoSearch
<1> HIDE DEF p
<1>2. Key(p) = Key(page)
  BY <1>1 DEF Key
<1>3. Stocked(p) /\ OfTheFolder(p) /\ LoadIsOfView(p)
  BY <1>1, <1>2, PageIs DEF Stocked, OfTheFolder, LoadIsOfView
<1>4. Within(page, p)
  BY <1>1 DEF Within, Nowhere
<1>. QED BY <1>1, <1>2, <1>3, <1>4 DEF Base, p

LEMMA ServeKeeps == ASSUME IndInv, Serve PROVE IndInv'
<1>1. PICK l \in page.loads :
        /\ page' = [page EXCEPT !.loads = (@ \ {l}) \cup {[l EXCEPT !.rows = Listed(l.key)]}]
        /\ UNCHANGED <<mail, jobs, ghost>>
  BY DEF Serve
<1> DEFINE rows == Listed(l.key)
           k == [l EXCEPT !.rows = rows]
           all == (page.loads \ {l}) \cup {k}
           q == [page EXCEPT !.loads = all]
<1>2. page' = q
  BY <1>1
<1>3. l \in Loads
  BY PageIs DEF Pages
<1>4. /\ rows \subseteq Rows /\ \A r \in rows : r.of = l.key
      /\ \A m : m \notin mail.kept => Free(rows, m)
  BY <1>3, ListedIs DEF Loads
<1> HIDE DEF rows
<1>5. /\ k \in Loads /\ k.rows = rows /\ k.key = l.key /\ k.current = l.current
      /\ k.painted = l.painted
  BY <1>3, <1>4 DEF Loads, Maybe
<1> HIDE DEF k
<1>6. all \subseteq Loads /\ k \in all /\ \A i \in all : i = k \/ i \in page.loads
  BY <1>5, PageIs DEF Pages
<1>7. \A i \in page.loads : i \in all \/ i = l
  OBVIOUS
<1> HIDE DEF all
<1>8. /\ q \in Pages /\ q.loads = all /\ q.acct = page.acct /\ q.folder = page.folder
      /\ q.filter = page.filter /\ q.open = page.open /\ q.due = page.due
      /\ q.folders = page.folders /\ q.emails = page.emails /\ q.grid = page.grid
      /\ q.cache = page.cache /\ q.warm = page.warm /\ q.picked = page.picked
      /\ q.pre = page.pre /\ q.server = page.server
      /\ NoSearch(q)
  BY <1>6, PageIs DEF Pages, NoSearch
<1>9. Key(q) = Key(page)
  BY <1>8 DEF Key
<1> HIDE DEF q
<1>10. Stocked(q) /\ OfTheFolder(q)
  BY <1>4, <1>5, <1>6, <1>8, PageIs DEF Stocked, OfTheFolder
<1>11. LoadIsOfView(q)
  BY <1>5, <1>6, <1>8, <1>9, PageIs DEF LoadIsOfView
<1>12. ViewHolds(q)
  BY <1>5, <1>6, <1>7, <1>8, <1>9, PageIs DEF ViewHolds
<1>13. Renews(page, q)
  <2> SUFFICES ASSUME NEW m, m \notin mail.kept, Nowhere(page, m) PROVE Nowhere(q, m)
    BY DEF Renews
  <2>1. \A i \in all : Lacks(i.rows, m)
    BY <1>4, <1>5, <1>6 DEF Nowhere, Lacks
  <2>. QED BY <1>8, <2>1 DEF Nowhere
<1>14. Sound(q)
  BY <1>8, <1>10, <1>11, <1>12 DEF Sound, Base
<1>15. Quiet(page) => Quiet(q)
  BY DEF Quiet
<1>. QED BY <1>1, <1>2, <1>13, <1>14, <1>15, PageStep DEF Spending

LEMMA LoadAnswerKeeps == ASSUME IndInv, LoadAnswer PROVE IndInv'
<1>1. PICK l \in page.loads :
        LET p == [page EXCEPT !.loads = @ \ {l}]
        IN  /\ l.rows # None
            /\ page' = IF MayPaint(l) THEN Painted(p, l) ELSE p
            /\ UNCHANGED <<mail, jobs, ghost>>
  BY DEF LoadAnswer
<1> DEFINE p == [page EXCEPT !.loads = @ \ {l}]
<1>2. l \in Loads /\ l.rows # None /\ \A r \in l.rows : r.of = l.key
  BY <1>1, PageIs DEF Pages, Stocked
<1>3. /\ p \in Pages /\ Base(p) /\ LoadIsOfView(p) /\ Within(page, p)
      /\ p.loads = page.loads \ {l} /\ p.acct = page.acct /\ p.folder = page.folder
      /\ p.filter = page.filter /\ p.open = page.open /\ p.due = page.due
      /\ p.folders = page.folders /\ p.emails = page.emails /\ p.grid = page.grid
      /\ Key(p) = Key(page)
  BY UnloadedIs
<1>4. page' = IF MayPaint(l) THEN Painted(p, l) ELSE p
  BY <1>1
<1>5. UNCHANGED <<mail, jobs, ghost>>
  BY <1>1
<1> HIDE DEF p
<1>6. Sound(page') /\ Renews(page, page')
  <2>1. CASE MayPaint(l)
    <3> DEFINE q == Painted(p, l)
    <3>1. l.current /\ l.key[1] = p.acct /\ l.key[2] = p.folder
          /\ (p.open /\ ~p.due => l.key = Key(p))
      BY <1>3, <2>1, PageIs DEF MayPaint, LoadIsOfView
    <3>2. /\ Base(q) /\ SameView(p, q)
          /\ (Browsing => q.grid = "rows" /\ q.emails = l.rows)
          /\ \A m : Nowhere(p, m) /\ Free(l.rows, m) => Nowhere(q, m)
      BY <1>2, <1>3, <3>1, PaintedIs
    <3> HIDE DEF q
    <3>3. Key(q) = Key(p)
      BY <3>2 DEF Key, SameView
    <3>4. LoadIsOfView(q)
      BY <1>3, <3>2, <3>3 DEF LoadIsOfView, SameView
    <3>5. ViewHolds(q)
      BY <1>2, <3>1, <3>2, <3>3 DEF ViewHolds, SameView
    <3>6. Renews(page, q)
      <4> SUFFICES ASSUME NEW m, m \notin mail.kept, Nowhere(page, m) PROVE Nowhere(q, m)
        BY DEF Renews
      <4>1. Nowhere(p, m) /\ Free(l.rows, m)
        BY <1>2, <1>3 DEF Within, Nowhere, Lacks
      <4>. QED BY <3>2, <4>1
    <3>7. page' = q
      BY <1>4, <2>1 DEF q
    <3>. QED BY <3>2, <3>4, <3>5, <3>6, <3>7 DEF Sound
  <2>2. CASE ~MayPaint(l)
    <3>1. ~l.current
      BY <2>2, PageIs DEF MayPaint, LoadIsOfView
    <3>2. ViewHolds(p)
      BY <1>3, <3>1, PageIs DEF ViewHolds
    <3>. QED BY <1>3, <1>4, <2>2, <3>2, WithinRenews DEF Sound
  <2>. QED BY <2>1, <2>2
<1>7. ~Quiet(page)
  BY DEF Quiet
<1>. QED BY <1>5, <1>6, <1>7, PageStep DEF Spending

LEMMA LoadFailsKeeps == ASSUME IndInv, LoadFails PROVE IndInv'
<1>1. PICK l \in page.loads :
        /\ LET spent == IF <<l.key[1], l.key[2]>> \in Has THEN 1 ELSE 0
           IN  /\ ghost.left["fails"] >= spent
               /\ ghost' = [ghost EXCEPT
                              !.left["fails"] = @ - spent,
                              !.stale = IF MayPaint(l) THEN @ \ Mails(page.emails) ELSE @]
        /\ page' = [page EXCEPT !.loads = @ \ {l},
                                !.grid = IF MayPaint(l) /\ ~l.painted THEN "failed" ELSE @]
        /\ UNCHANGED <<mail, jobs>>
  BY DEF LoadFails
<1> DEFINE p == [page EXCEPT !.loads = @ \ {l}]
           g == IF MayPaint(l) /\ ~l.painted THEN "failed" ELSE page.grid
           q == [p EXCEPT !.grid = g]
<1>2. page' = q
  BY <1>1, PageIs DEF Pages
<1>3. /\ p \in Pages /\ Base(p) /\ LoadIsOfView(p) /\ Within(page, p)
      /\ p.loads = page.loads \ {l} /\ p.acct = page.acct /\ p.folder = page.folder
      /\ p.filter = page.filter /\ p.open = page.open /\ p.due = page.due
      /\ p.folders = page.folders /\ p.emails = page.emails /\ p.grid = page.grid
      /\ Key(p) = Key(page)
  BY UnloadedIs
<1> HIDE DEF p
<1>4. g \in {"loading", "rows", "failed"}
  BY PageIs DEF Pages
<1>5. /\ q \in Pages /\ Steady(p, q) /\ q.emails = p.emails /\ q.picked = p.picked /\ q.grid = g
      /\ Within(p, q) /\ NoSearch(q) /\ OfTheFolder(q)
  <2> HIDE DEF g
  <2>. QED BY <1>3, <1>4 DEF Pages, Steady, Within, Nowhere, NoSearch, OfTheFolder, Base
<1> HIDE DEF q
<1>6. Base(q) /\ LoadIsOfView(q)
  BY <1>3, <1>5, SteadyKeeps DEF Base
<1>7. Key(q) = Key(page) /\ q.loads = page.loads \ {l} /\ q.emails = page.emails
      /\ q.open = page.open /\ q.due = page.due /\ q.folders = page.folders
  BY <1>3, <1>5 DEF Steady, Key
<1>8. l.current => /\ l.key[1] = page.acct /\ l.key[2] = page.folder /\ MayPaint(l)
  BY PageIs DEF LoadIsOfView, MayPaint
<1>9. Spent /\ (Reliable => <<l.key[1], l.key[2]>> \notin Has)
  <2> DEFINE spent == IF <<l.key[1], l.key[2]>> \in Has THEN 1 ELSE 0
             left  == [ghost.left EXCEPT !["fails"] = @ - spent]
             stale == IF MayPaint(l) THEN ghost.stale \ Mails(page.emails) ELSE ghost.stale
  <2>1. /\ ghost \in Ghosts /\ "fails" \in Spendable
        /\ \A w \in Spendable : Never({w}) => ghost.left[w] = 0
    BY DEF IndInv, TypeOK, Spendable
  <2>2. spent \in {0, 1} /\ ghost.left["fails"] >= spent
    BY <1>1
  <2>3. left \in [Spendable -> Nat] /\ \A w \in Spendable : left[w] <= ghost.left[w]
    BY <2>1, <2>2 DEF Ghosts
  <2>4. stale \subseteq ghost.stale
    OBVIOUS
  <2>5. ghost' = [ghost EXCEPT !.left = left, !.stale = stale]
    BY <1>1, <2>1 DEF Ghosts
  <2>6. \A w \in Spendable : Never({w}) => left[w] = 0
    <3> SUFFICES ASSUME NEW w \in Spendable, Never({w}) PROVE left[w] = 0
      OBVIOUS
    <3>1. ghost.left[w] = 0 /\ left[w] \in Nat /\ left[w] <= ghost.left[w]
      BY <2>1, <2>3
    <3>. QED BY <3>1
  <2>7. Reliable => spent = 0
    BY <2>1, <2>2 DEF Reliable
  <2> HIDE DEF left, stale
  <2>8. Spent
    BY <2>1, <2>3, <2>4, <2>5, <2>6 DEF Spent, Ghosts
  <2>. QED BY <2>7, <2>8
<1>10. ViewHolds(q)
  <2> SUFFICES ASSUME Browsing, Reliable, q.open, ~q.due
               PROVE  \/ \E i \in q.loads : i.current /\ i.key = Key(q)
                      \/ \A r \in q.emails : r.of = Key(q)
    BY DEF ViewHolds
  <2>1. <<l.key[1], l.key[2]>> \notin Has
    BY <1>9
  <2>2. CASE l.current
    <3>1. page.emails = {}
      BY <1>8, <2>1, <2>2, PageIs, NothingIsShown
    <3>. QED BY <1>7, <3>1
  <2>3. CASE ~l.current
    BY <1>7, <2>3, PageIs DEF ViewHolds
  <2>. QED BY <2>2, <2>3
<1>11. Sound(q)
  BY <1>6, <1>10 DEF Sound
<1>12. Renews(page, q)
  BY <1>3, <1>5, WithinComposes, WithinRenews
<1>13. ~Quiet(page)
  BY DEF Quiet
<1>14. Spending
  BY <1>9 DEF Spending
<1>. QED BY <1>1, <1>2, <1>11, <1>12, <1>13, <1>14, PageStep

\* The inbox of an account, listed while the window is closed.
LEMMA WarmKeeps == ASSUME IndInv, NEW a \in Accounts, Warm(a) PROVE IndInv'
<1> DEFINE key == <<a, Inbox, "all">>
           rows == Listed(key)
           w == [key |-> key, rows |-> rows]
           q == [page EXCEPT !.warm = w]
<1>1. page' = q /\ mail' = mail /\ Disturbed /\ Spend("warms")
  BY DEF Warm
<1>2. key \in Keys
  BY EmailAssumption DEF Keys, Filters
<1> HIDE DEF key
<1>3. /\ rows \subseteq Rows /\ \A r \in rows : r.of = key
      /\ \A m : m \notin mail.kept => Free(rows, m)
  BY <1>2, ListedIs
<1> HIDE DEF rows
<1>4. w \in Maybe([key : Keys, rows : SUBSET Rows]) /\ w.key = key /\ w.rows = rows
  BY <1>2, <1>3 DEF Maybe
<1> HIDE DEF w
<1>5. /\ q \in Pages /\ q.warm = w /\ q.loads = page.loads /\ q.cache = page.cache
      /\ q.emails = page.emails /\ q.pre = page.pre /\ q.server = page.server
      /\ q.grid = page.grid /\ q.folders = page.folders /\ q.due = page.due
      /\ q.open = page.open /\ q.acct = page.acct /\ q.folder = page.folder
      /\ q.filter = page.filter /\ NoSearch(q) /\ OfTheFolder(q)
  BY <1>4, PageIs DEF Pages, NoSearch, OfTheFolder
<1> HIDE DEF q
<1>6. Stocked(q) /\ Renews(page, q)
  BY <1>3, <1>4, <1>5, PageIs DEF Stocked, Renews, Nowhere
<1>7. Sound(q)
  BY <1>5, <1>6, PageIs DEF Sound, Base, LoadIsOfView, ViewHolds, Key
<1>8. Spending
  BY <1>1 DEF Spending, Spendable
<1>. QED BY <1>1, <1>6, <1>7, <1>8, PageStep

LEMMA WarmedKeeps == ASSUME IndInv, Warmed PROVE IndInv'
<1> DEFINE k == page.warm.key
           e == page.warm.rows
           c == [page EXCEPT !.cache[k] = e]
           q == [c EXCEPT !.warm = None]
<1>1. /\ page.warm # None /\ mail' = mail /\ ghost' = ghost /\ Disturbed
      /\ page' = [page EXCEPT !.cache[page.warm.key] = page.warm.rows, !.warm = None]
  BY DEF Warmed
<1>2. page' = q
  BY <1>1, PageIs DEF Pages
<1>3. k \in Keys /\ e \in SUBSET Rows /\ \A r \in e : r.of = k
  BY <1>1, PageIs DEF Pages, Maybe, Stocked
<1>4. \A m : Nowhere(page, m) => Free(e, m)
  BY <1>1 DEF Nowhere
<1> HIDE DEF k, e
<1>5. Browsing => OfMailbox(e, k[1], k[2])
  BY <1>3 DEF OfMailbox
<1>6. /\ c \in Pages /\ SameView(page, c) /\ c.emails = page.emails /\ c.picked = page.picked
      /\ c.grid = page.grid /\ NoSearch(c) /\ Stocked(c)
      /\ \A m : Nowhere(page, m) /\ Free(e, m) => Nowhere(c, m)
  BY <1>3, <1>5, PageIs, CachedIs
<1> HIDE DEF c
<1>7. None \in Maybe([key : Keys, rows : SUBSET Rows])
  BY DEF Maybe
<1>8. /\ q \in Pages /\ q.warm = None /\ q.loads = c.loads /\ q.cache = c.cache
      /\ q.emails = c.emails /\ q.pre = c.pre /\ q.server = c.server /\ q.picked = c.picked
      /\ q.grid = c.grid /\ q.folders = c.folders /\ q.due = c.due
      /\ q.open = c.open /\ q.acct = c.acct /\ q.folder = c.folder
      /\ q.filter = c.filter /\ NoSearch(q)
  BY <1>6, <1>7 DEF Pages, NoSearch
<1> HIDE DEF q
<1>9. Stocked(q) /\ Within(c, q)
  BY <1>6, <1>8 DEF Stocked, Within, Nowhere
<1>10. Renews(page, q)
  BY <1>4, <1>6, <1>9 DEF Renews, Within
<1>11. Sound(q)
  BY <1>6, <1>8, <1>9, PageIs
     DEF SameView, Sound, Base, OfTheFolder, LoadIsOfView, ViewHolds, Key
<1>. QED BY <1>1, <1>2, <1>10, <1>11, PageStep DEF Spending

(***************************************************************************)
(* Search.                                                                 *)
(***************************************************************************)
LEMMA SearchStep ==
    ASSUME IndInv, ~Browsing, mail' = mail, Spending, page' \in Pages, Steady(page, page'),
           Renews(page, page'), Disturbed \/ (jobs' = jobs /\ (Quiet(page) => Quiet(page')))
    PROVE  IndInv'
<1>1. Stocked(page') /\ LoadIsOfView(page')
  BY PageIs, SteadyKeeps
<1>2. Sound(page')
  BY <1>1, SearchIsSound
<1>. QED BY <1>2, PageStep

LEMMA TypeKeeps == ASSUME IndInv, NEW q \in Queries, Type(q) PROVE IndInv'
<1> DEFINE u == Unpicked(page)
           p == [u EXCEPT !.draft = q, !.typing = q]
<1>1. page' = p /\ mail' = mail /\ jobs' = jobs /\ Spend("types")
  BY DEF Type
<1>2. /\ u \in Pages /\ Steady(page, u) /\ Within(page, u) /\ u.search = page.search
      /\ u.searches = page.searches
  BY PageIs, UnpickedIs
<1> HIDE DEF u
<1>3. q \in Maybe(Queries)
  BY DEF Maybe
<1>4. /\ p \in Pages /\ Steady(u, p) /\ Within(u, p) /\ p.search = u.search
      /\ p.searches = u.searches
  BY <1>2, <1>3 DEF Pages, Steady, Within, Nowhere
<1> HIDE DEF p
<1>5. Steady(page, p) /\ Within(page, p)
  BY <1>2, <1>4, WithinComposes DEF Steady
<1>6. Quiet(page) => Quiet(p)
  BY <1>2, <1>4, <1>5 DEF Quiet, Steady
<1>7. Spending /\ Renews(page, p) /\ ~Browsing
  BY <1>1, <1>5, WithinRenews, Browses DEF Spending, Spendable
<1>. QED BY <1>1, <1>4, <1>5, <1>6, <1>7, SearchStep

LEMMA PauseKeeps == ASSUME IndInv, Pause PROVE IndInv'
<1> DEFINE t == page.typing
           p == [page EXCEPT !.search = t, !.typing = None]
<1>1. /\ page.typing # None /\ page' = DoSearch(p) /\ mail' = mail /\ ghost' = ghost
      /\ Disturbed
  BY DEF Pause
<1>2. ~Browsing /\ t \in Queries /\ t \in Maybe(Queries) /\ None \in Maybe(Queries)
  BY <1>1, PageIs DEF NoSearch, Pages, Maybe
<1> HIDE DEF t
<1>3. p \in Pages /\ Steady(page, p) /\ Within(page, p) /\ p.search = t
  BY <1>2, PageIs DEF Pages, Steady, Within, Nowhere
<1> HIDE DEF p
<1>4. page' \in Pages /\ Steady(p, page') /\ Within(p, page')
  BY <1>1, <1>2, <1>3, DoSearchIs
<1>5. Steady(page, page') /\ Renews(page, page')
  BY <1>3, <1>4, WithinComposes, WithinRenews DEF Steady
<1>. QED BY <1>1, <1>2, <1>4, <1>5, SearchStep DEF Spending

LEMMA ClearKeeps == ASSUME IndInv, Clear PROVE IndInv'
<1> DEFINE u == Unpicked(page)
           p == [u EXCEPT !.draft = None, !.typing = None]
           c == [p EXCEPT !.had = FALSE, !.pre = None, !.search = None]
<1>1. /\ page.draft # None /\ mail' = mail /\ Spend("clears") /\ Disturbed
      /\ page' = IF ~p.had THEN p ELSE Load(c, TRUE)
  BY DEF Clear
<1>2. ~Browsing /\ Spending
  BY <1>1, PageIs DEF NoSearch, Spending, Spendable
<1>3. u \in Pages /\ Steady(page, u) /\ Within(page, u)
  BY PageIs, UnpickedIs
<1> HIDE DEF u
<1>4. None \in Maybe(Queries) /\ None \in Maybe(SUBSET Rows)
  BY DEF Maybe
<1>5. p \in Pages /\ Steady(u, p) /\ Within(u, p)
  BY <1>3, <1>4 DEF Pages, Steady, Within, Nowhere
<1> HIDE DEF p
<1>6. Steady(page, p) /\ Within(page, p)
  BY <1>3, <1>5, WithinComposes DEF Steady
<1>7. CASE ~p.had
  <2>1. page' = p
    BY <1>1, <1>7
  <2>. QED BY <1>1, <1>2, <1>5, <1>6, <2>1, WithinRenews, SearchStep
<1>8. CASE p.had
  <2>1. c \in Pages /\ Steady(p, c) /\ Within(p, c)
    BY <1>4, <1>5 DEF Pages, Steady, Within, Nowhere, Lacks
  <2> HIDE DEF c
  <2>2. Stocked(c)
    BY <1>6, <2>1, PageIs, SteadyKeeps
  <2>3. Base(c)
    BY <1>2, <2>1, <2>2 DEF Base, NoSearch, OfTheFolder
  <2>4. page' = Load(c, TRUE)
    BY <1>1, <1>8
  <2>5. Sound(page') /\ Within(c, page')
    BY <2>3, <2>4, LoadIs
  <2>6. Renews(page, page')
    BY <1>6, <2>1, <2>5, WithinComposes, WithinRenews
  <2>. QED BY <1>1, <1>2, <2>5, <2>6, PageStep
<1>. QED BY <1>7, <1>8

LEMMA EnterKeeps == ASSUME IndInv, Enter PROVE IndInv'
<1> DEFINE d == page.draft
           a == AddPill(page, <<"text", d>>)
           p == [a EXCEPT !.draft = None, !.typing = None, !.search = d]
<1>1. /\ page.draft # None /\ mail' = mail /\ Spend("enters") /\ Disturbed
      /\ page' = DoSearch(p)
  BY DEF Enter
<1>2. /\ ~Browsing /\ Spending /\ d \in Queries /\ d \in Maybe(Queries)
      /\ None \in Maybe(Queries)
  BY <1>1, PageIs DEF NoSearch, Pages, Maybe, Spending, Spendable
<1> HIDE DEF d
<1>3. <<"text", d>> \in {"text", "contact"} \X Queries
  BY <1>2
<1>4. a \in Pages /\ Steady(page, a) /\ Within(page, a)
  BY <1>3, PageIs, AddPillIs
<1> HIDE DEF a
<1>5. p \in Pages /\ Steady(a, p) /\ Within(a, p) /\ p.search = d
  BY <1>2, <1>4 DEF Pages, Steady, Within, Nowhere
<1> HIDE DEF p
<1>6. page' \in Pages /\ Steady(p, page') /\ Within(p, page')
  BY <1>1, <1>2, <1>5, DoSearchIs
<1>7. Steady(page, page') /\ Renews(page, page')
  BY <1>4, <1>5, <1>6, WithinComposes, WithinRenews DEF Steady
<1>. QED BY <1>1, <1>2, <1>6, <1>7, SearchStep

LEMMA SenderKeeps == ASSUME IndInv, NEW q \in Queries, Sender(q) PROVE IndInv'
<1>1. /\ mail' = mail /\ Spend("senders") /\ Disturbed
      /\ page' = AddPill(page, <<"contact", q>>)
  BY DEF Sender
<1>2. <<"contact", q>> \in {"text", "contact"} \X Queries
  OBVIOUS
<1>3. page' \in Pages /\ Steady(page, page') /\ Within(page, page')
  BY <1>1, <1>2, PageIs, AddPillIs
<1>4. ~Browsing /\ Spending /\ Renews(page, page')
  BY <1>1, <1>3, Browses, WithinRenews DEF Spending, Spendable
<1>. QED BY <1>1, <1>3, <1>4, SearchStep

LEMMA RemovePillKeeps == ASSUME IndInv, NEW x \in page.pills, RemovePill(x) PROVE IndInv'
<1> DEFINE u == Unpicked(page)
           left == u.pills \ {x}
           p == [u EXCEPT !.pills = left]
           c == [p EXCEPT !.had = FALSE, !.pre = None, !.server = None, !.search = None]
           y == (CHOOSE z \in p.pills : TRUE)[2]
           e == [p EXCEPT !.draft = None, !.typing = None, !.search = y]
<1>1. /\ mail' = mail /\ Spend("unpills") /\ Disturbed
      /\ page' = IF p.pills = {} /\ p.draft = None /\ p.had THEN Load(c, TRUE)
                 ELSE IF p.pills # {} THEN DoSearch(e)
                 ELSE ApplyPills(p)
  BY DEF RemovePill
<1>2. ~Browsing /\ Spending
  BY <1>1, PageIs DEF NoSearch, Spending, Spendable
<1>3. u \in Pages /\ Steady(page, u) /\ Within(page, u)
  BY PageIs, UnpickedIs
<1> HIDE DEF u
<1>4. None \in Maybe(Queries) /\ None \in Maybe(SUBSET Rows)
  BY DEF Maybe
<1>5. p \in Pages /\ Steady(u, p) /\ Within(u, p)
  BY <1>3 DEF Pages, Steady, Within, Nowhere
<1> HIDE DEF p
<1>6. Steady(page, p) /\ Within(page, p)
  BY <1>3, <1>5, WithinComposes DEF Steady
<1>7. CASE p.pills = {} /\ p.draft = None /\ p.had
  <2>1. c \in Pages /\ Steady(p, c) /\ Within(p, c)
    BY <1>4, <1>5 DEF Pages, Steady, Within, Nowhere, Lacks
  <2> HIDE DEF c
  <2>2. Stocked(c)
    BY <1>6, <2>1, PageIs, SteadyKeeps
  <2>3. Base(c)
    BY <1>2, <2>1, <2>2 DEF Base, NoSearch, OfTheFolder
  <2>4. page' = Load(c, TRUE)
    BY <1>1, <1>7
  <2>5. Sound(page') /\ Within(c, page')
    BY <2>3, <2>4, LoadIs
  <2>6. Renews(page, page')
    BY <1>6, <2>1, <2>5, WithinComposes, WithinRenews
  <2>. QED BY <1>1, <1>2, <2>5, <2>6, PageStep
<1>8. CASE p.pills # {}
  <2>1. y \in Queries
    <3>1. PICK z \in p.pills : y = z[2]
      BY <1>8
    <3>. QED BY <1>5, <3>1 DEF Pages
  <2>2. y \in Maybe(Queries)
    BY <2>1 DEF Maybe
  <2>3. page' = DoSearch(e)
    BY <1>1, <1>8
  <2> HIDE DEF y
  <2>4. e \in Pages /\ Steady(p, e) /\ Within(p, e) /\ e.search = y
    BY <1>4, <1>5, <2>2 DEF Pages, Steady, Within, Nowhere
  <2> HIDE DEF e
  <2>5. page' \in Pages /\ Steady(e, page') /\ Within(e, page')
    BY <2>1, <2>3, <2>4, DoSearchIs
  <2>6. Steady(page, page') /\ Renews(page, page')
    BY <1>6, <2>4, <2>5, WithinComposes, WithinRenews DEF Steady
  <2>. QED BY <1>1, <1>2, <2>5, <2>6, SearchStep
<1>9. CASE p.pills = {} /\ ~(p.draft = None /\ p.had)
  <2>1. page' = ApplyPills(p)
    BY <1>1, <1>9
  <2>2. page' \in Pages /\ Steady(p, page') /\ Within(p, page')
    BY <1>5, <2>1, ApplyPillsIs
  <2>3. Steady(page, page') /\ Renews(page, page')
    BY <1>6, <2>2, WithinComposes, WithinRenews DEF Steady
  <2>. QED BY <1>1, <1>2, <2>2, <2>3, SearchStep
<1>. QED BY <1>7, <1>8, <1>9

\* What a search finds is on the server.
LEMMA FoundIs ==
    ASSUME IndInv, NEW s, NEW folders
    PROVE  /\ Found(s, folders) \subseteq Rows
           /\ \A m : m \notin mail.kept => Free(Found(s, folders), m)
<1>1. mail.kept \subseteq Stored
  BY DEF IndInv, TypeOK
<1>2. ASSUME NEW r \in Found(s, folders)
      PROVE  r \in Rows /\ r.mail \in mail.kept
  <2>1. PICK m \in mail.kept : r = Row(m, <<m.acct, m.folder, "search">>)
    BY DEF Found
  <2>. QED BY <1>1, <2>1, RowIs
<1>. QED BY <1>2 DEF Free

\* The page without one of its searches.
LEMMA UnsearchedIs ==
    ASSUME IndInv, NEW s \in page.searches
    PROVE  LET p == [page EXCEPT !.searches = @ \ {s}]
           IN  /\ p \in Pages /\ Steady(page, p) /\ Within(page, p) /\ p.emails = page.emails
               /\ ~Browsing /\ ~Quiet(page) /\ s \in Searches
<1>1. ~Browsing
  BY PageIs DEF NoSearch
<1>. QED BY <1>1, PageIs DEF Pages, Steady, Within, Nowhere, Quiet

LEMMA SearchLocalKeeps == ASSUME IndInv, SearchLocal PROVE IndInv'
<1>1. PICK s \in page.searches :
        LET results == Found(s, Folders)
            p == [page EXCEPT !.searches = @ \ {s}]
            rest == [s EXCEPT !.at = "full", !.painted = results # {}]
        IN  /\ page' = IF ~StillCurrent(s) THEN [p EXCEPT !.flight = FALSE]
                       ELSE [IF results = {} THEN p ELSE Shown(p, results)
                               EXCEPT !.searches = @ \cup {rest}]
            /\ UNCHANGED <<mail, jobs, ghost>>
  BY DEF SearchLocal
<1> DEFINE results == Found(s, Folders)
           p == [page EXCEPT !.searches = @ \ {s}]
           rest == [s EXCEPT !.at = "full", !.painted = results # {}]
           b == IF results = {} THEN p ELSE Shown(p, results)
           dropped == [p EXCEPT !.flight = FALSE]
           more == b.searches \cup {rest}
           shown == [b EXCEPT !.searches = more]
<1>2. /\ page' = IF ~StillCurrent(s) THEN dropped ELSE shown
      /\ UNCHANGED <<mail, jobs, ghost>>
  BY <1>1
<1>3. /\ p \in Pages /\ Steady(page, p) /\ Within(page, p)
      /\ ~Browsing /\ ~Quiet(page) /\ s \in Searches
  BY UnsearchedIs
<1> HIDE DEF p
<1>4. results \in SUBSET Rows /\ \A m : m \notin mail.kept => Free(results, m)
  BY FoundIs
<1>5. rest \in Searches
  <2> DEFINE found == results # {}
  <2>1. found \in BOOLEAN
    OBVIOUS
  <2> HIDE DEF found
  <2>2. [s EXCEPT !.at = "full", !.painted = found] \in Searches
    BY <1>3, <2>1 DEF Searches
  <2>. QED BY <2>2 DEF found
<1> HIDE DEF results, rest
<1>6. /\ b \in Pages /\ Steady(p, b)
      /\ \A m : Nowhere(p, m) /\ Free(results, m) => Nowhere(b, m)
  <2>1. CASE results = {}
    BY <1>3, <2>1 DEF Steady
  <2>2. CASE results # {}
    <3>1. b = Shown(p, results)
      BY <2>2
    <3> HIDE DEF b
    <3>. QED BY <1>3, <1>4, <3>1, ShownIs
  <2>. QED BY <2>1, <2>2
<1> HIDE DEF b
<1>7. more \subseteq Searches
  BY <1>5, <1>6 DEF Pages
<1> HIDE DEF more
<1>8. dropped \in Pages /\ Steady(p, dropped) /\ Within(p, dropped)
  BY <1>3 DEF Pages, Steady, Within, Nowhere
<1>9. shown \in Pages /\ Steady(b, shown) /\ Within(b, shown)
  BY <1>6, <1>7 DEF Pages, Steady, Within, Nowhere
<1> HIDE DEF dropped, shown
<1>10. page' \in Pages /\ Steady(page, page') /\ Renews(page, page')
  <2>1. CASE page' = dropped
    BY <1>3, <1>8, <2>1, WithinComposes, WithinRenews DEF Steady
  <2>2. CASE page' = shown
    <3>1. Steady(page, shown)
      BY <1>3, <1>6, <1>9 DEF Steady
    <3>2. Renews(page, shown)
      BY <1>3, <1>4, <1>6, <1>9 DEF Renews, Within
    <3>. QED BY <1>9, <2>2, <3>1, <3>2
  <2>. QED BY <1>2, <2>1, <2>2
<1>. QED BY <1>2, <1>3, <1>10, SearchStep DEF Spending

LEMMA SearchFullKeeps == ASSUME IndInv, SearchFull PROVE IndInv'
<1>1. PICK s \in page.searches :
        LET found == Found(s, {Inbox})
            results == IF s.painted THEN Merged(page.emails, found) ELSE found
            p == [page EXCEPT !.searches = @ \ {s}]
        IN  /\ page' = [IF ~StillCurrent(s) \/ (s.painted /\ results = {}) THEN p
                        ELSE Shown(p, results) EXCEPT !.flight = FALSE]
            /\ UNCHANGED <<mail, jobs, ghost>>
  BY DEF SearchFull
<1> DEFINE found == Found(s, {Inbox})
           results == IF s.painted THEN Merged(page.emails, found) ELSE found
           p == [page EXCEPT !.searches = @ \ {s}]
           b == IF ~StillCurrent(s) \/ (s.painted /\ results = {}) THEN p
                ELSE Shown(p, results)
           q == [b EXCEPT !.flight = FALSE]
<1>2. page' = q /\ UNCHANGED <<mail, jobs, ghost>>
  BY <1>1
<1>3. /\ p \in Pages /\ Steady(page, p) /\ Within(page, p) /\ p.emails = page.emails
      /\ ~Browsing /\ ~Quiet(page)
  BY UnsearchedIs
<1> HIDE DEF p
<1>4. found \in SUBSET Rows /\ \A m : m \notin mail.kept => Free(found, m)
  BY FoundIs
<1> HIDE DEF found
<1>5. /\ results \in SUBSET Rows
      /\ \A m : m \notin mail.kept /\ Nowhere(p, m) => Free(results, m)
  <2>1. results \subseteq page.emails \cup found
    BY DEF Merged
  <2>2. page.emails \subseteq Rows
    BY PageIs DEF Pages
  <2> HIDE DEF results
  <2>. QED BY <1>3, <1>4, <2>1, <2>2 DEF Nowhere, Free
<1> HIDE DEF results
<1>6. /\ b \in Pages /\ Steady(p, b)
      /\ \A m : Nowhere(p, m) /\ Free(results, m) => Nowhere(b, m)
  <2>1. CASE b = p
    BY <1>3, <2>1 DEF Steady
  <2>2. CASE b = Shown(p, results)
    <3> HIDE DEF b
    <3>. QED BY <1>3, <1>5, <2>2, ShownIs
  <2>. QED BY <2>1, <2>2
<1> HIDE DEF b
<1>7. q \in Pages /\ Steady(b, q) /\ Within(b, q)
  BY <1>6 DEF Pages, Steady, Within, Nowhere
<1> HIDE DEF q
<1>8. Steady(page, q)
  BY <1>3, <1>6, <1>7 DEF Steady
<1>9. Renews(page, q)
  BY <1>3, <1>5, <1>6, <1>7 DEF Renews, Within
<1>. QED BY <1>2, <1>3, <1>7, <1>8, <1>9, SearchStep DEF Spending

LEMMA SearchFailsKeeps == ASSUME IndInv, SearchFails PROVE IndInv'
<1>1. PICK s \in page.searches :
        LET p == [page EXCEPT !.searches = @ \ {s}]
        IN  /\ Spend("misses")
            /\ page' = IF s.at = "local" /\ StillCurrent(s)
                       THEN [p EXCEPT !.searches = @ \cup {[s EXCEPT !.at = "full"]}]
                       ELSE [p EXCEPT !.flight = FALSE]
            /\ UNCHANGED <<mail, jobs>>
  BY DEF SearchFails
<1> DEFINE p == [page EXCEPT !.searches = @ \ {s}]
           more == p.searches \cup {[s EXCEPT !.at = "full"]}
           dropped == [p EXCEPT !.flight = FALSE]
           moved == [p EXCEPT !.searches = more]
<1>2. /\ page' = dropped \/ page' = moved
      /\ mail' = mail /\ jobs' = jobs /\ Spend("misses")
  BY <1>1
<1>3. /\ p \in Pages /\ Steady(page, p) /\ Within(page, p)
      /\ ~Browsing /\ ~Quiet(page) /\ s \in Searches
  BY UnsearchedIs
<1> HIDE DEF p
<1>4. more \subseteq Searches
  BY <1>3 DEF Pages, Searches
<1> HIDE DEF more
<1>5. dropped \in Pages /\ Steady(p, dropped) /\ Within(p, dropped)
  BY <1>3 DEF Pages, Steady, Within, Nowhere
<1>6. moved \in Pages /\ Steady(p, moved) /\ Within(p, moved)
  BY <1>3, <1>4 DEF Pages, Steady, Within, Nowhere
<1> HIDE DEF dropped, moved
<1>7. page' \in Pages /\ Steady(page, page') /\ Renews(page, page')
  BY <1>2, <1>3, <1>5, <1>6, WithinComposes, WithinRenews DEF Steady
<1>8. Spending
  BY <1>2 DEF Spending, Spendable
<1>. QED BY <1>2, <1>3, <1>7, <1>8, SearchStep

(***************************************************************************)
(* Selection.                                                              *)
(***************************************************************************)
\* The selection x is of rows that are shown or chosen.
LEMMA PickedIs ==
    ASSUME IndInv, NEW x \in SUBSET (page.emails \cup page.picked),
           page' = [page EXCEPT !.mode = TRUE, !.picked = x],
           mail' = mail, jobs' = jobs, Spend("ticks")
    PROVE  IndInv'
<1> DEFINE q == [page EXCEPT !.mode = TRUE, !.picked = x]
<1>1. /\ q \in Pages /\ Steady(page, q) /\ Within(page, q) /\ NoSearch(q)
      /\ q.emails = page.emails /\ q.picked = x /\ q.grid = page.grid
      /\ (Quiet(page) => Quiet(q))
  BY PageIs DEF Pages, Steady, Within, Nowhere, NoSearch, Quiet
<1>2. page' = q
  OBVIOUS
<1> HIDE DEF q
<1>3. OfTheFolder(q)
  BY <1>1, PageIs DEF OfTheFolder, OfMailbox, Steady
<1>4. Base(q) /\ LoadIsOfView(q)
  BY <1>1, <1>3, PageIs, SteadyKeeps DEF Base
<1>5. Sound(q)
  BY <1>1, <1>4, PageIs DEF Sound, ViewHolds, Steady, Key
<1>6. Spending /\ Renews(page, q)
  BY <1>1, WithinRenews DEF Spending, Spendable
<1>. QED BY <1>1, <1>2, <1>5, <1>6, PageStep

LEMMA TickKeeps == ASSUME IndInv, NEW r \in page.emails, Tick(r) PROVE IndInv'
<1> DEFINE x == IF Uid(r) \in Uids(page.picked) THEN NotOf(page.picked, {Uid(r)})
                ELSE page.picked \cup {r}
<1>1. /\ page' = [page EXCEPT !.mode = TRUE, !.picked = x]
      /\ mail' = mail /\ jobs' = jobs /\ Spend("ticks")
  BY DEF Tick
<1>2. x \in SUBSET (page.emails \cup page.picked)
  BY DEF NotOf
<1> HIDE DEF x
<1>. QED BY <1>1, <1>2, PickedIs

LEMMA TickAllKeeps == ASSUME IndInv, TickAll PROVE IndInv'
<1> DEFINE x == NotOf(page.emails, Uids(page.picked)) \cup page.picked
<1>1. /\ page' = [page EXCEPT !.mode = TRUE, !.picked = x]
      /\ mail' = mail /\ jobs' = jobs /\ Spend("ticks")
  BY DEF TickAll
<1>2. x \in SUBSET (page.emails \cup page.picked)
  BY DEF NotOf
<1> HIDE DEF x
<1>. QED BY <1>1, <1>2, PickedIs

(***************************************************************************)
(* Deletions and bulk actions.                                             *)
(***************************************************************************)
JobIsSound(k) ==
    /\ k \in Works
    /\ k.calm => Quiet(page)
    /\ k.todo \subseteq Uids(k.rows)
    /\ \A m \in k.hit : m.uid \in Uids(k.rows) /\ (k.kind # "done" => m \notin mail.kept)
    /\ Browsing => OfMailbox(k.rows, k.view[1], k.view[2])

LEMMA JobsAre == ASSUME IndInv PROVE \A j \in jobs : JobIsSound(j)
<1>1. \A j \in jobs : j \in Works
  BY DEF IndInv, TypeOK
<1>2. \A j \in jobs :
        /\ j.calm => Quiet(page)
        /\ j.todo \subseteq Uids(j.rows)
        /\ \A m \in j.hit : m.uid \in Uids(j.rows) /\ (j.kind # "done" => m \notin mail.kept)
  BY DEF IndInv, JobsAreSound, Quiet
<1>3. \A j \in jobs : Browsing => OfMailbox(j.rows, j.view[1], j.view[2])
  BY DEF IndInv, JobsFit
<1>. QED BY <1>1, <1>2, <1>3 DEF JobIsSound

\* A step that changes jobs and the budget only.
LEMMA JobStep ==
    ASSUME IndInv, page' = page, mail' = mail, Spending, \A k \in jobs' : JobIsSound(k)
    PROVE  IndInv'
<1>1. /\ ghost' \in Ghosts
      /\ \A w \in Spendable : Never({w}) => ghost'.left[w] = 0
      /\ ghost'.gone = ghost.gone /\ ghost'.wrong = ghost.wrong
  BY GhostIs DEF Spent
<1>2. TypeOK'
  BY <1>1 DEF IndInv, TypeOK, JobIsSound
<1>3. GoneForGood'
  BY <1>1 DEF IndInv, GoneForGood
<1>4. JobsAreSound'
  BY DEF JobsAreSound, JobIsSound, Quiet
<1>5. JobsFit'
  BY <1>1 DEF IndInv, JobsFit, JobIsSound, OnlyTheChosen
<1>6. Sound(page)'
  BY DEF IndInv
<1>. QED BY <1>2, <1>3, <1>4, <1>5, <1>6 DEF IndInv

LEMMA BeginKeeps ==
    ASSUME IndInv, NEW kind \in {"one", "delete", "done"}, NEW rows \in SUBSET Rows,
           Browsing => OfMailbox(rows, page.acct, page.folder),
           Begin(kind, rows), page' = page, mail' = mail, Spending
    PROVE  IndInv'
<1> DEFINE calm == jobs = {} /\ ~Busy /\ ~Searching
           new == [kind |-> kind, rows |-> rows, todo |-> Uids(rows), sent |-> {},
                   hit |-> {}, view |-> <<page.acct, page.folder>>, fades |-> FALSE,
                   calm |-> calm]
<1>1. jobs' = {[j EXCEPT !.calm = FALSE] : j \in jobs} \cup {new}
  BY DEF Begin
<1>2. calm \in BOOLEAN /\ (calm => Quiet(page))
  BY DEF Busy, Searching, Quiet
<1> HIDE DEF calm
<1>3. Uids(rows) \in SUBSET Uids(Rows)
  BY DEF Uids
<1>4. <<page.acct, page.folder>> \in Accounts \X Folders
  BY PageIs DEF Pages
<1>5. new \in Works
  BY <1>2, <1>3, <1>4 DEF Works
<1>6. JobIsSound(new)
  BY <1>2, <1>5 DEF JobIsSound
<1>7. ASSUME NEW j \in jobs PROVE JobIsSound([j EXCEPT !.calm = FALSE])
  BY JobsAre DEF JobIsSound, Works
<1> HIDE DEF new
<1>8. \A k \in jobs' : JobIsSound(k)
  BY <1>1, <1>6, <1>7
<1>. QED BY <1>8, JobStep

LEMMA DeleteKeeps == ASSUME IndInv, NEW r \in page.emails, Delete(r) PROVE IndInv'
<1>1. Begin("one", {r}) /\ page' = page /\ mail' = mail /\ Spend("deletes")
  BY DEF Delete
<1>2. {r} \in SUBSET Rows
  BY PageIs DEF Pages
<1>3. Browsing => OfMailbox({r}, page.acct, page.folder)
  BY PageIs DEF OfTheFolder, OfMailbox
<1>4. Spending
  BY <1>1 DEF Spending, Spendable
<1>. QED BY <1>1, <1>2, <1>3, <1>4, BeginKeeps

LEMMA BulkKeeps == ASSUME IndInv, NEW kind \in {"delete", "done"}, Bulk(kind) PROVE IndInv'
<1>1. Begin(kind, page.picked) /\ page' = page /\ mail' = mail /\ Spend("bulks")
  BY DEF Bulk
<1>2. page.picked \in SUBSET Rows
  BY PageIs DEF Pages
<1>3. Browsing => OfMailbox(page.picked, page.acct, page.folder)
  BY PageIs DEF OfTheFolder
<1>4. Spending
  BY <1>1 DEF Spending, Spendable
<1>. QED BY <1>1, <1>2, <1>3, <1>4, BeginKeeps

LEMMA RequestLostKeeps == ASSUME IndInv, RequestLost PROVE IndInv'
<1>0. PICK j \in jobs :
        \E u \in j.todo :
           /\ IF Target(u) \in mail.kept THEN Spend("fails") ELSE UNCHANGED ghost
           /\ Replace(j, [j EXCEPT !.todo = @ \ {u}, !.sent = @ \cup {u}, !.calm = FALSE])
           /\ page' = page /\ mail' = mail
  BY DEF RequestLost
<1>1. PICK u \in j.todo :
        /\ IF Target(u) \in mail.kept THEN Spend("fails") ELSE UNCHANGED ghost
        /\ Replace(j, [j EXCEPT !.todo = @ \ {u}, !.sent = @ \cup {u}, !.calm = FALSE])
        /\ page' = page /\ mail' = mail
  BY <1>0
<1> DEFINE k == [j EXCEPT !.todo = @ \ {u}, !.sent = @ \cup {u}, !.calm = FALSE]
<1>2. jobs' = (jobs \ {j}) \cup {k}
  BY <1>1 DEF Replace
<1>3. JobIsSound(k)
  BY JobsAre DEF JobIsSound, Works
<1> HIDE DEF k
<1>4. \A i \in jobs' : JobIsSound(i)
  BY <1>2, <1>3, JobsAre
<1>5. Spending
  BY <1>1 DEF Spending, Spendable
<1>. QED BY <1>1, <1>4, <1>5, JobStep

LEMMA ReplyKeeps == ASSUME IndInv, Reply PROVE IndInv'
<1>0. PICK j \in jobs :
        \E u \in j.sent :
           Replace(j, [j EXCEPT !.sent = @ \ {u}]) /\ UNCHANGED <<page, mail, ghost>>
  BY DEF Reply
<1>1. PICK u \in j.sent :
        Replace(j, [j EXCEPT !.sent = @ \ {u}]) /\ UNCHANGED <<page, mail, ghost>>
  BY <1>0
<1> DEFINE k == [j EXCEPT !.sent = @ \ {u}]
<1>2. jobs' = (jobs \ {j}) \cup {k}
  BY <1>1 DEF Replace
<1>3. JobIsSound(k)
  BY JobsAre DEF JobIsSound, Works
<1> HIDE DEF k
<1>4. \A i \in jobs' : JobIsSound(i)
  BY <1>2, <1>3, JobsAre
<1>. QED BY <1>1, <1>4, JobStep DEF Spending

LEMMA DeleteFailsKeeps == ASSUME IndInv, DeleteFails PROVE IndInv'
<1>1. PICK j \in jobs : Spend("fails") /\ jobs' = jobs \ {j} /\ UNCHANGED <<page, mail>>
  BY DEF DeleteFails
<1>2. \A i \in jobs' : JobIsSound(i)
  BY <1>1, JobsAre
<1>3. Spending
  BY <1>1 DEF Spending, Spendable
<1>. QED BY <1>1, <1>2, <1>3, JobStep

LEMMA FadeDoneKeeps == ASSUME IndInv, FadeDone PROVE IndInv'
<1>1. PICK j \in jobs :
        Replace(j, [j EXCEPT !.fades = TRUE]) /\ UNCHANGED <<page, mail, ghost>>
  BY DEF FadeDone
<1> DEFINE k == [j EXCEPT !.fades = TRUE]
<1>2. jobs' = (jobs \ {j}) \cup {k}
  BY <1>1 DEF Replace
<1>3. JobIsSound(k)
  BY JobsAre DEF JobIsSound, Works
<1> HIDE DEF k
<1>4. \A i \in jobs' : JobIsSound(i)
  BY <1>2, <1>3, JobsAre
<1>. QED BY <1>1, <1>4, JobStep DEF Spending

\* A uid means the mail of the mailbox that is shown when the request is sent.
LEMMA RequestKeeps == ASSUME IndInv, Request PROVE IndInv'
<1>1. PICK j \in jobs, m \in mail.kept :
        /\ m.uid \in j.todo /\ m = Target(m.uid)
        /\ Replace(j, [j EXCEPT !.todo = @ \ {m.uid}, !.sent = @ \cup {m.uid},
                                !.hit = @ \cup {m}])
        /\ mail' = IF j.kind = "done" THEN [mail EXCEPT !.done = @ \cup {m}]
                   ELSE [mail EXCEPT !.kept = @ \ {m}]
        /\ ghost' = [ghost EXCEPT !.wrong =
                       IF \E r \in j.rows : r.mail = m THEN @
                       ELSE @ \cup {[moved |-> j.view # <<page.acct, page.folder>>,
                                     sought |-> \E r \in j.rows : r.of[3] = "search"]}]
        /\ page' = page
  BY DEF Request
<1> DEFINE k == [j EXCEPT !.todo = @ \ {m.uid}, !.sent = @ \cup {m.uid}, !.hit = @ \cup {m}]
           moved == j.view # <<page.acct, page.folder>>
           sought == \E r \in j.rows : r.of[3] = "search"
           w == [moved |-> moved, sought |-> sought]
           wrong == IF \E r \in j.rows : r.mail = m THEN ghost.wrong ELSE ghost.wrong \cup {w}
<1>2. jobs' = (jobs \ {j}) \cup {k}
  BY <1>1 DEF Replace
<1>3. mail \in [kept : SUBSET Stored, done : SUBSET Stored]
  BY DEF IndInv, TypeOK
<1>4. /\ mail' \in [kept : SUBSET Stored, done : SUBSET Stored]
      /\ mail'.kept \subseteq mail.kept /\ (j.kind # "done" => m \notin mail'.kept)
  <2>1. CASE j.kind = "done"
    BY <1>1, <1>3, <2>1
  <2>2. CASE j.kind # "done"
    BY <1>1, <1>3, <2>2
  <2>. QED BY <2>1, <2>2
<1>5. JobIsSound(j) /\ m \in Stored
  BY <1>1, <1>3, JobsAre
<1>6. /\ k \in Works /\ k.calm = j.calm /\ k.rows = j.rows /\ k.view = j.view
      /\ k.kind = j.kind /\ k.todo \subseteq j.todo /\ k.hit = j.hit \cup {m}
  BY <1>1, <1>5 DEF JobIsSound, Works
<1> HIDE DEF k
<1>7. /\ ghost \in Ghosts
      /\ \A x \in Spendable : Never({x}) => ghost.left[x] = 0
  BY DEF IndInv, TypeOK
<1>8. moved \in BOOLEAN /\ sought \in BOOLEAN
  BY Zenon
<1>9. ghost' = [ghost EXCEPT !.wrong = wrong]
  BY <1>1
<1>10. w \in [moved : BOOLEAN, sought : BOOLEAN] /\ w.moved = moved
  BY <1>8
<1> HIDE DEF w, sought, moved
<1>11. wrong \subseteq [moved : BOOLEAN, sought : BOOLEAN]
  BY <1>7, <1>10 DEF Ghosts
<1>12. wrong \subseteq ghost.wrong \cup {w}
       /\ ((\E r \in j.rows : r.mail = m) => wrong = ghost.wrong)
  OBVIOUS
<1> HIDE DEF wrong
<1>13. /\ ghost' \in Ghosts
       /\ ghost'.left = ghost.left /\ ghost'.gone = ghost.gone /\ ghost'.wrong = wrong
  BY <1>7, <1>9, <1>11 DEF Ghosts
<1>14. jobs' \subseteq Works
  BY <1>2, <1>6 DEF IndInv, TypeOK
<1>15. TypeOK'
  <2>1. page' \in Pages
    BY <1>1, PageIs
  <2>. QED BY <1>4, <1>7, <1>13, <1>14, <2>1 DEF TypeOK
<1>16. GoneForGood'
  <2>1. \A x \in ghost.gone : x \notin mail.kept /\ Nowhere(page, x)
    BY DEF IndInv, GoneForGood
  <2>2. \A x \in ghost'.gone : x \notin mail'.kept /\ Nowhere(page', x)
    BY <1>1, <1>4, <1>13, <2>1
  <2>. QED BY <2>2 DEF GoneForGood
<1>17. JobsAreSound'
  <2> SUFFICES ASSUME NEW i \in jobs'
      PROVE  /\ i.calm => Quiet(page')
             /\ i.todo \subseteq Uids(i.rows)
             /\ \A x \in i.hit : /\ x.uid \in Uids(i.rows)
                                 /\ i.kind # "done" => x \notin mail'.kept
    BY DEF JobsAreSound, Quiet
  <2>1. CASE i \in jobs
    BY <1>1, <1>4, <2>1, JobsAre DEF JobIsSound
  <2>2. CASE i = k
    BY <1>1, <1>4, <1>5, <1>6, <2>2 DEF JobIsSound
  <2>. QED BY <1>2, <2>1, <2>2
<1>18. JobsFit'
  <2> SUFFICES ASSUME Browsing
               PROVE  OnlyTheChosen' /\ \A i \in jobs' : OfMailbox(i.rows, i.view[1], i.view[2])
    BY DEF JobsFit
  <2>1. \A i \in jobs' : OfMailbox(i.rows, i.view[1], i.view[2])
    BY <1>2, <1>5, <1>6, JobsAre DEF JobIsSound
  <2>2. ASSUME ~moved PROVE \E r \in j.rows : r.mail = m
    <3>1. j.view = <<page.acct, page.folder>>
      BY <2>2 DEF moved
    <3>2. PICK r \in j.rows : r.mail.uid = m.uid
      BY <1>1, <1>5 DEF JobIsSound, Uids, Uid
    <3>3. r.of[1] = page.acct /\ r.of[2] = page.folder
      BY <1>5, <3>1 DEF JobIsSound, OfMailbox
    <3>4. r.mail \in Stored /\ r.mail.acct = page.acct /\ r.mail.folder = page.folder
      BY <1>5, <3>3 DEF JobIsSound, Works, Rows
    <3>5. r.mail = [acct |-> page.acct, folder |-> page.folder, uid |-> m.uid]
      BY <3>2, <3>4, EmailAssumption
    <3>. QED BY <1>1, <3>5 DEF Target
  <2>3. OnlyTheChosen
    BY DEF IndInv, JobsFit
  <2>4. \A x \in wrong : x.moved \/ x.sought
    BY <1>10, <1>12, <2>2, <2>3 DEF OnlyTheChosen
  <2>5. OnlyTheChosen'
    BY <1>13, <2>4 DEF OnlyTheChosen
  <2>. QED BY <2>1, <2>5
<1>19. Sound(page)'
  BY <1>1 DEF IndInv
<1>. QED BY <1>15, <1>16, <1>17, <1>18, <1>19 DEF IndInv

LEMMA RemovedSearches == ASSUME IndInv, NEW j PROVE Removed(j).searches = page.searches
<1> DEFINE taken   == IF j.kind = "done" /\ ~j.fades THEN page
                      ELSE Taken(page, Uids(j.rows))
           cleared == IF j.kind = "one" THEN [taken EXCEPT !.picked = NotOf(@, Uids(j.rows))]
                      ELSE Unpicked(taken)
<1>1. \A p, e : /\ [p EXCEPT !.emails = e].searches = p.searches
                /\ [p EXCEPT !.picked = e].searches = p.searches
                /\ [p EXCEPT !.grid = e].searches = p.searches
                /\ [p EXCEPT !.cache = e].searches = p.searches
                /\ [p EXCEPT !.mode = FALSE, !.picked = {}].searches = p.searches
  OBVIOUS
<1>2. taken.searches = page.searches
  BY <1>1 DEF Taken
<1> HIDE DEF taken
<1>3. cleared.searches = taken.searches
  BY <1>1 DEF Unpicked
<1>4. Removed(j) = WriteBack(Rendered(cleared))
  BY DEF Removed, taken
<1> HIDE DEF cleared
<1>5. Rendered(cleared).searches = cleared.searches
  BY <1>1 DEF Rendered
<1>6. \A p : WriteBack(p).searches = p.searches
  BY <1>1 DEF WriteBack
<1>. QED BY <1>2, <1>3, <1>4, <1>5, <1>6

\* What a calm deletion hit is on the page no more.
LEMMA JobEndsKeeps == ASSUME IndInv, JobEnds PROVE IndInv'
<1>1. PICK j \in jobs :
        /\ jobs' = jobs \ {j} /\ page' = Removed(j) /\ mail' = mail
        /\ ghost' = [ghost EXCEPT
                       !.gone = @ \cup {m \in Deleted(j) : ~CachedElsewhere(m)},
                       !.stale = @ \cup {m \in Deleted(j) : CachedElsewhere(m)}]
  BY DEF JobEnds
<1> DEFINE q == Removed(j)
           new == {m \in Deleted(j) : ~CachedElsewhere(m)}
           gone == ghost.gone \cup new
           stale == ghost.stale \cup {m \in Deleted(j) : CachedElsewhere(m)}
<1>2. page' = q /\ ghost' = [ghost EXCEPT !.gone = gone, !.stale = stale]
  BY <1>1
<1>3. JobIsSound(j)
  BY JobsAre
<1>4. /\ Base(q) /\ SameView(page, q) /\ Within(page, q) /\ q.emails \subseteq page.emails
      /\ (Browsing => q.grid = "rows")
      /\ (j.kind # "done" /\ page.search = None =>
            \A m : m.uid \in Uids(j.rows) =>
                /\ Free(q.emails, m)
                /\ q.cache[Key(page)] # None => Free(q.cache[Key(page)], m))
      /\ \A k \in Keys : k # Key(page) => q.cache[k] = page.cache[k]
      /\ q.pre = page.pre /\ q.server = page.server /\ q.search = page.search
      /\ q.searches = page.searches
  BY RemovedIs, RemovedSearches
<1> HIDE DEF q
<1>5. q.loads = page.loads /\ q.warm = page.warm /\ Key(q) = Key(page)
  BY <1>4 DEF SameView, Key
<1>6. Quiet(page) => Quiet(q)
  BY <1>4, <1>5 DEF Quiet
<1>7. ASSUME NEW m \in new PROVE m \in Stored /\ m \notin mail.kept /\ Nowhere(q, m)
  <2>1. /\ m \in j.hit /\ j.calm /\ j.kind # "done" /\ ~CachedElsewhere(m)
        /\ page.pre = None /\ page.server = None
    BY DEF Deleted
  <2>2. Quiet(page) /\ m.uid \in Uids(j.rows) /\ m \notin mail.kept /\ m \in Stored
    BY <1>3, <2>1 DEF JobIsSound, Works
  <2>3. /\ Free(q.emails, m)
        /\ q.cache[Key(page)] # None => Free(q.cache[Key(page)], m)
    BY <1>4, <2>1, <2>2 DEF Quiet
  <2>4. /\ page.pre = None /\ page.server = None
        /\ \A k \in Keys : k # Key(page) => Lacks(page.cache[k], m)
    BY <2>1 DEF CachedElsewhere, Mails, Lacks, Free
  <2>5. \A k \in Keys : Lacks(q.cache[k], m)
    BY <1>4, <2>3, <2>4 DEF Lacks
  <2>6. Lacks(q.pre, m) /\ Lacks(q.server, m)
    BY <1>4, <2>4 DEF Lacks
  <2>7. q.loads = {} /\ q.warm = None
    BY <1>5, <2>2 DEF Quiet
  <2>. QED BY <2>2, <2>3, <2>5, <2>6, <2>7 DEF Nowhere
<1>8. /\ ghost \in Ghosts
      /\ \A x \in Spendable : Never({x}) => ghost.left[x] = 0
  BY DEF IndInv, TypeOK
<1>9. \A m \in gone : m \in ghost.gone \/ m \in new
  OBVIOUS
<1>9a. stale \subseteq Stored
  BY <1>3, <1>8 DEF Deleted, JobIsSound, Works, Ghosts
<1> HIDE DEF new, gone, stale
<1>10. gone \subseteq Stored
  BY <1>7, <1>8, <1>9 DEF Ghosts
<1>11. /\ ghost' \in Ghosts
       /\ ghost'.left = ghost.left /\ ghost'.gone = gone /\ ghost'.wrong = ghost.wrong
  BY <1>2, <1>8, <1>9a, <1>10 DEF Ghosts
<1>12. TypeOK'
  <2>1. page' \in Pages
    BY <1>2, <1>4 DEF Base
  <2>2. jobs' \subseteq Works
    BY <1>1 DEF IndInv, TypeOK
  <2>3. mail' \in [kept : SUBSET Stored, done : SUBSET Stored]
    BY <1>1 DEF IndInv, TypeOK
  <2>. QED BY <1>8, <1>11, <2>1, <2>2, <2>3 DEF TypeOK
<1>13. GoneForGood'
  <2>1. \A m \in ghost.gone : m \notin mail.kept /\ Nowhere(q, m)
    BY <1>4 DEF IndInv, GoneForGood, Within
  <2>2. \A m \in ghost'.gone : m \notin mail'.kept /\ Nowhere(page', m)
    BY <1>1, <1>2, <1>7, <1>9, <1>11, <2>1
  <2>. QED BY <2>2 DEF GoneForGood
<1>14. JobsAreSound'
  <2> SUFFICES ASSUME NEW i \in jobs'
      PROVE  /\ i.calm => Quiet(page')
             /\ i.todo \subseteq Uids(i.rows)
             /\ \A x \in i.hit : /\ x.uid \in Uids(i.rows)
                                 /\ i.kind # "done" => x \notin mail'.kept
    BY DEF JobsAreSound, Quiet
  <2>1. JobIsSound(i)
    BY <1>1, JobsAre
  <2>. QED BY <1>1, <1>2, <1>6, <2>1 DEF JobIsSound
<1>15. JobsFit'
  <2> SUFFICES ASSUME Browsing
               PROVE  OnlyTheChosen' /\ \A i \in jobs' : OfMailbox(i.rows, i.view[1], i.view[2])
    BY DEF JobsFit
  <2>1. OnlyTheChosen /\ \A i \in jobs : OfMailbox(i.rows, i.view[1], i.view[2])
    BY DEF IndInv, JobsFit
  <2>2. OnlyTheChosen'
    BY <1>11, <2>1 DEF OnlyTheChosen
  <2>. QED BY <1>1, <2>1, <2>2
<1>16. Sound(q)
  BY <1>4, <1>5, PageIs DEF Sound, LoadIsOfView, ViewHolds, SameView
<1>17. Sound(page)'
  BY <1>2, <1>16
<1>. QED BY <1>12, <1>13, <1>14, <1>15, <1>17 DEF IndInv

(***************************************************************************)
(* The theorems.                                                           *)
(***************************************************************************)
LEMMA InitIs == Init => IndInv
<1> SUFFICES ASSUME Init PROVE IndInv
  OBVIOUS
<1> DEFINE empty == [k \in Keys |-> None]
<1>1. /\ page = [open |-> FALSE, acct |-> First, folder |-> Inbox, filter |-> "all",
                 search |-> None, draft |-> None, typing |-> None, pills |-> {},
                 emails |-> {}, grid |-> "loading",
                 pre |-> None, server |-> None, had |-> FALSE, flight |-> FALSE,
                 mode |-> FALSE, picked |-> {}, cache |-> empty,
                 loads |-> {}, searches |-> {}, folders |-> {}, due |-> FALSE, warm |-> None]
      /\ mail = [kept |-> Stored, done |-> Answered]
      /\ jobs = {}
  BY DEF Init
<1>2. PICK b \in Budgets : ghost = [left |-> b, wrong |-> {}, gone |-> {}, stale |-> {}]
  BY DEF Init
<1>3. empty \in [Keys -> Maybe(SUBSET Rows)] /\ \A k \in Keys : empty[k] = None
  BY DEF Maybe
<1> HIDE DEF empty
<1>4. /\ None \in Maybe(Queries) /\ None \in Maybe(SUBSET Rows)
      /\ None \in Maybe([key : Keys, rows : SUBSET Rows]) /\ "all" \in Filters
      /\ First \in Accounts /\ Inbox \in Folders
  BY EmailAssumption DEF Maybe, Filters
<1>5. page \in Pages
  BY <1>1, <1>3, <1>4 DEF Pages
<1>6. ghost \in Ghosts
      /\ \A w \in Spendable : Never({w}) => ghost.left[w] = 0
  BY <1>2, EmailAssumption DEF Never, Ghosts
<1>7. mail \in [kept : SUBSET Stored, done : SUBSET Stored]
  BY <1>1, EmailAssumption
<1>8. TypeOK
  BY <1>1, <1>5, <1>6, <1>7 DEF TypeOK
<1>9. GoneForGood /\ JobsAreSound /\ JobsFit
  BY <1>1, <1>2 DEF GoneForGood, JobsAreSound, JobsFit, OnlyTheChosen
<1>10. Stocked(page) /\ NoSearch(page) /\ OfTheFolder(page) /\ LoadIsOfView(page)
  BY <1>1, <1>3 DEF Stocked, NoSearch, OfTheFolder, OfMailbox, LoadIsOfView
<1>11. ViewHolds(page)
  BY <1>1 DEF ViewHolds
<1>. QED BY <1>5, <1>8, <1>9, <1>10, <1>11 DEF IndInv, Sound, Base

LEMMA NextIs == IndInv /\ [Next]_vars => IndInv'
<1> SUFFICES ASSUME IndInv, [Next]_vars PROVE IndInv'
  OBVIOUS
<1>1. CASE Serve \/ LoadAnswer \/ LoadFails
  BY <1>1, ServeKeeps, LoadAnswerKeeps, LoadFailsKeeps
<1>2. CASE Open \/ FirstLoad \/ Close \/ Refresh \/ FoldersAnswer \/ Warmed
  BY <1>2, OpenKeeps, FirstLoadKeeps, CloseKeeps, RefreshKeeps, FoldersAnswerKeeps, WarmedKeeps
<1>3. CASE \E f \in Folders : PickFolder(f)
  BY <1>3, PickFolderKeeps
<1>4. CASE \E f \in Filters : PickFilter(f)
  BY <1>4, PickFilterKeeps
<1>5. CASE \E a \in Accounts : PickAccount(a) \/ Warm(a)
  BY <1>5, PickAccountKeeps, WarmKeeps
<1>6. CASE SearchLocal \/ SearchFull \/ SearchFails \/ Pause \/ Clear \/ Enter
  BY <1>6, SearchLocalKeeps, SearchFullKeeps, SearchFailsKeeps, PauseKeeps, ClearKeeps, EnterKeeps
<1>7. CASE \E q \in Queries : Type(q) \/ Sender(q)
  BY <1>7, TypeKeeps, SenderKeeps
<1>8. CASE \E x \in page.pills : RemovePill(x)
  BY <1>8, RemovePillKeeps
<1>9. CASE \E r \in page.emails : Tick(r) \/ Delete(r)
  BY <1>9, TickKeeps, DeleteKeeps
<1>10. CASE TickAll \/ \E k \in {"delete", "done"} : Bulk(k)
  BY <1>10, TickAllKeeps, BulkKeeps
<1>11. CASE Request \/ RequestLost \/ Reply \/ DeleteFails \/ FadeDone \/ JobEnds
  BY <1>11, RequestKeeps, RequestLostKeeps, ReplyKeeps, DeleteFailsKeeps, FadeDoneKeeps,
     JobEndsKeeps
<1>12. CASE UNCHANGED vars
  <2>1. page' = page /\ mail' = mail /\ jobs' = jobs /\ ghost' = ghost
    BY <1>12 DEF vars
  <2>. QED BY <2>1, JobsAre, JobStep DEF Spending
<1>. QED BY <1>1, <1>2, <1>3, <1>4, <1>5, <1>6, <1>7, <1>8, <1>9, <1>10, <1>11, <1>12 DEF Next

\* Every state of the mail window satisfies the inductive invariant.
THEOREM Inductive == Spec => []IndInv
BY InitIs, NextIs, PTL DEF Spec

\* The variables of the mail window have their types, for every user.
THEOREM TypeCorrect == Spec => []TypeOK
<1>1. IndInv => TypeOK
  BY DEF IndInv
<1>. QED BY <1>1, Inductive, PTL

(***************************************************************************)
(* The spinner, for every user.                                            *)
(***************************************************************************)
Shaped(p) == {"grid", "flight", "searches", "loads", "folders", "open"} \subseteq DOMAIN p
Flies(p) == Shaped(p) /\ FlightHolds(p)
Waits(p) == Flies(p) /\ Earned(p)

LEMMA PagesAreShaped == ASSUME NEW p \in Pages PROVE Shaped(p)
BY DEF Pages, Shaped

\* Rendering shows the spinner for a search only.
LEMMA RenderedWaits == ASSUME NEW p, Flies(p) PROVE Waits(Rendered(p))
BY DEF Rendered, Waits, Flies, Shaped, FlightHolds, Earned

LEMMA UnpickedWaits ==
    ASSUME NEW p, Flies(p)
    PROVE  Flies(Unpicked(p)) /\ (Waits(p) => Waits(Unpicked(p)))
BY DEF Unpicked, Waits, Flies, Shaped, FlightHolds, Earned

LEMMA SupersededFlies ==
    ASSUME NEW p, Flies(p)
    PROVE  Flies(Superseded(p)) /\ Superseded(p).open = p.open
BY DEF Superseded, Flies, Shaped, FlightHolds

LEMMA FreshFlies == ASSUME NEW p, Flies(p) PROVE Flies(Fresh(p))
<1>1. Flies(Superseded(Unpicked(p)))
  BY UnpickedWaits, SupersededFlies
<1> DEFINE s == Superseded(Unpicked(p))
<1> HIDE DEF s
<1>2. Fresh(p) = [s EXCEPT !.emails = {}, !.grid = "loading"]
  BY DEF Fresh, s
<1>3. Flies(s)
  BY <1>1 DEF s
<1>. QED BY <1>2, <1>3 DEF Flies, Shaped, FlightHolds

\* A load that has nothing to paint is what its spinner waits for.
LEMMA LoadWaits == ASSUME NEW p, Flies(p), NEW useCache \in BOOLEAN PROVE Waits(Load(p, useCache))
<1> DEFINE cacheable == p.search = None
           hit   == useCache /\ cacheable /\ p.cache[Key(p)] # None
           load  == [key |-> Key(p), kept |-> cacheable, painted |-> hit,
                     current |-> TRUE, rows |-> None]
           s     == Superseded(p)
           begun == [s EXCEPT !.loads = @ \cup {load}]
           c     == [begun EXCEPT !.emails = p.cache[Key(p)]]
           w     == [begun EXCEPT !.grid = "loading"]
<1>1. Load(p, useCache) = IF ~p.open THEN s ELSE IF hit THEN Rendered(c) ELSE w
  BY DEF Load
<1>2. load.current /\ load.painted = hit
  OBVIOUS
<1>3. Flies(s) /\ s.open = p.open
  BY SupersededFlies
<1> HIDE DEF s, load, hit
<1>4. Flies(begun) /\ load \in begun.loads
  BY <1>3 DEF Flies, Shaped, FlightHolds
<1> HIDE DEF begun
<1>5. CASE ~p.open
  BY <1>1, <1>3, <1>5 DEF Waits, Earned
<1>6. CASE p.open /\ hit
  <2>1. Flies(c)
    BY <1>4 DEF Flies, Shaped, FlightHolds
  <2>. QED BY <1>1, <1>6, <2>1, RenderedWaits
<1>7. CASE p.open /\ ~hit
  <2>1. Flies(w) /\ load \in w.loads
    BY <1>4 DEF Flies, Shaped, FlightHolds
  <2>. QED BY <1>1, <1>2, <1>7, <2>1 DEF Waits, Earned
<1>. QED BY <1>5, <1>6, <1>7

LEMMA ApplyPillsWaits == ASSUME NEW p, Flies(p) PROVE Waits(ApplyPills(p))
<1>1. \A e, x : Flies([p EXCEPT !.emails = e, !.pre = x])
  BY DEF Flies, Shaped, FlightHolds
<1>2. \A e, x : Flies([p EXCEPT !.pre = x, !.emails = e])
  BY DEF Flies, Shaped, FlightHolds
<1>3. \E e, x : \/ ApplyPills(p) = Rendered([p EXCEPT !.emails = e, !.pre = x])
                \/ ApplyPills(p) = Rendered([p EXCEPT !.pre = x, !.emails = e])
  BY Zenon DEF ApplyPills
<1>. QED BY <1>1, <1>2, <1>3, RenderedWaits

LEMMA AddPillWaits ==
    ASSUME NEW p, Flies(p), NEW x
    PROVE  Flies(AddPill(p, x)) /\ (Waits(p) => Waits(AddPill(p, x)))
<1> DEFINE u == Unpicked(p)
           c == [u EXCEPT !.pills = @ \cup {x}]
<1>1. Flies(u) /\ (Waits(p) => Waits(u))
  BY UnpickedWaits
<1> HIDE DEF u
<1>2. Flies(c)
  BY <1>1 DEF Flies, Shaped, FlightHolds
<1> HIDE DEF c
<1>3. Waits(ApplyPills(c))
  BY <1>2, ApplyPillsWaits
<1>4. AddPill(p, x) = u \/ AddPill(p, x) = ApplyPills(c)
  BY DEF AddPill, u, c
<1>. QED BY <1>1, <1>3, <1>4 DEF Waits

LEMMA DoSearchWaits == ASSUME NEW p, Flies(p) PROVE Waits(DoSearch(p))
<1> DEFINE u == Unpicked(p)
           search == [q |-> p.search, acct |-> p.acct, at |-> "local",
                      current |-> TRUE, painted |-> FALSE]
           all == {[s EXCEPT !.current = FALSE] : s \in u.searches} \cup {search}
           c == [u EXCEPT !.searches = all, !.flight = TRUE]
<1>1. DoSearch(p) = Rendered(c)
  BY DEF DoSearch
<1>2. Flies(u) /\ all # {}
  BY UnpickedWaits
<1> HIDE DEF u, all
<1>3. Flies(c)
  BY <1>2 DEF Flies, Shaped, FlightHolds
<1>. QED BY <1>1, <1>3, RenderedWaits

LEMMA ShownFlies == ASSUME NEW p, Flies(p), NEW results PROVE Flies(Shown(p, results))
<1> DEFINE refines  == p.server # None /\ Cardinality(p.pills) > 1
           base     == IF refines THEN [p EXCEPT !.had = TRUE, !.emails = p.server]
                       ELSE [p EXCEPT !.had = TRUE, !.emails = results, !.pre = results,
                                      !.server = results]
           filtered == IF p.pills = {} THEN base ELSE ApplyPills(base)
           last     == IF filtered.emails = {} /\ ~refines
                       THEN [filtered EXCEPT !.emails = results] ELSE filtered
<1>1. Shown(p, results) = Rendered(last)
  BY DEF Shown
<1>2. Flies(base)
  BY DEF Flies, Shaped, FlightHolds
<1> HIDE DEF base, refines
<1>3. Flies(filtered)
  BY <1>2, ApplyPillsWaits DEF Waits
<1> HIDE DEF filtered
<1>4. Flies(last)
  BY <1>3 DEF Flies, Shaped, FlightHolds
<1> HIDE DEF last
<1>. QED BY <1>1, <1>4, RenderedWaits DEF Waits

LEMMA PaintedWaits == ASSUME NEW p, Flies(p), NEW l PROVE Waits(Painted(p, l))
<1> DEFINE listed   == [p EXCEPT !.emails = l.rows]
           again    == [listed EXCEPT !.pre = l.rows]
           filtered == IF p.pills = {} /\ p.draft = None THEN Rendered(listed)
                       ELSE ApplyPills(again)
<1>1. Painted(p, l) = IF l.kept THEN [filtered EXCEPT !.cache[l.key] = filtered.emails]
                      ELSE filtered
  BY DEF Painted
<1>2. Flies(listed) /\ Flies(again)
  BY DEF Flies, Shaped, FlightHolds
<1> HIDE DEF listed, again
<1>3. Waits(filtered)
  BY <1>2, RenderedWaits, ApplyPillsWaits
<1> HIDE DEF filtered
<1>. QED BY <1>1, <1>3 DEF Waits, Flies, Shaped, FlightHolds, Earned

LEMMA RemovedWaits == ASSUME Flies(page), NEW j PROVE Waits(Removed(j))
<1> DEFINE uids    == Uids(j.rows)
           taken   == IF j.kind = "done" /\ ~j.fades THEN page ELSE Taken(page, uids)
           cleared == IF j.kind = "one" THEN [taken EXCEPT !.picked = NotOf(@, uids)]
                      ELSE Unpicked(taken)
           shown   == Rendered(cleared)
<1>1. Removed(j) = WriteBack(shown)
  BY DEF Removed
<1>2. Flies(taken)
  BY DEF Taken, Flies, Shaped, FlightHolds
<1> HIDE DEF taken
<1>3. Flies(cleared)
  <2>1. Flies([taken EXCEPT !.picked = NotOf(@, uids)])
    BY <1>2 DEF Flies, Shaped, FlightHolds
  <2>. QED BY <1>2, <2>1, UnpickedWaits
<1> HIDE DEF cleared
<1>4. Waits(shown)
  BY <1>3, RenderedWaits
<1> HIDE DEF shown
<1>. QED BY <1>1, <1>4 DEF WriteBack, Waits, Flies, Shaped, FlightHolds, Earned

\* q is p but for what the spinner has nothing to do with.
LEMMA ViewsWait ==
    ASSUME Waits(page) \/ Flies(page),
           /\ page'.open = page.open /\ page'.grid = page.grid /\ page'.flight = page.flight
           /\ page'.due = page.due /\ page'.folders = page.folders
           /\ page'.searches = page.searches /\ page'.loads = page.loads
    PROVE  FlightHolds(page') /\ (Earned(page) => Earned(page'))
BY DEF Waits, Flies, FlightHolds, Earned

\* The steps of loads and of the view.
LEMMA LoadsWait ==
    ASSUME IndInv, FlightHolds(page), Serve \/ LoadAnswer \/ LoadFails
    PROVE  FlightHolds(page') /\ (Earned(page) => Earned(page'))
<1>1. page \in Pages /\ Flies(page) /\ LoadIsOfView(page)
  BY PageIs, PagesAreShaped DEF Flies
<1>2. CASE Serve
  <2>1. PICK l \in page.loads :
          page' = [page EXCEPT !.loads = (@ \ {l}) \cup {[l EXCEPT !.rows = Listed(l.key)]}]
    BY <1>2 DEF Serve
  <2> DEFINE k == [l EXCEPT !.rows = Listed(l.key)]
  <2>2. k.current = l.current /\ k.painted = l.painted
    BY <1>1 DEF Pages, Loads
  <2> HIDE DEF k
  <2>3. /\ page'.loads = (page.loads \ {l}) \cup {k}
        /\ page'.open = page.open /\ page'.grid = page.grid /\ page'.flight = page.flight
        /\ page'.due = page.due /\ page'.folders = page.folders
        /\ page'.searches = page.searches
    BY <1>1, <2>1 DEF Pages, k
  <2>4. \A i \in page.loads : \E n \in page'.loads : n.current = i.current /\ n.painted = i.painted
    BY <2>2, <2>3
  <2>. QED BY <2>3, <2>4 DEF FlightHolds, Earned
<1>3. ASSUME NEW l \in page.loads
      PROVE  LET p == [page EXCEPT !.loads = @ \ {l}]
             IN  Flies(p) /\ (Earned(page) /\ (~l.current \/ l.painted) => Earned(p))
  BY <1>1 DEF Pages, Flies, Shaped, FlightHolds, Earned
<1>4. \A l \in page.loads : l.current => MayPaint(l)
  BY <1>1 DEF LoadIsOfView, MayPaint
<1>5. CASE LoadAnswer
  <2>1. PICK l \in page.loads :
          LET p == [page EXCEPT !.loads = @ \ {l}]
          IN  page' = IF MayPaint(l) THEN Painted(p, l) ELSE p
    BY <1>5 DEF LoadAnswer
  <2> DEFINE p == [page EXCEPT !.loads = @ \ {l}]
  <2>2. Flies(p) /\ (Earned(page) /\ ~l.current => Earned(p))
    BY <1>3
  <2>3. page' = Painted(p, l) \/ (page' = p /\ ~l.current)
    BY <1>4, <2>1
  <2> HIDE DEF p
  <2>4. Waits(Painted(p, l))
    BY <2>2, PaintedWaits
  <2>. QED BY <2>2, <2>3, <2>4 DEF Waits, Flies
<1>6. CASE LoadFails
  <2>1. PICK l \in page.loads :
          page' = [page EXCEPT !.loads = @ \ {l},
                               !.grid = IF MayPaint(l) /\ ~l.painted THEN "failed" ELSE @]
    BY <1>6 DEF LoadFails
  <2> DEFINE p == [page EXCEPT !.loads = @ \ {l}]
             f == [p EXCEPT !.grid = "failed"]
  <2>2. Flies(p) /\ (Earned(page) /\ (~l.current \/ l.painted) => Earned(p))
    BY <1>3
  <2>3. page' = f \/ (page' = p /\ (~l.current \/ l.painted))
    BY <1>1, <1>4, <2>1 DEF Pages
  <2> HIDE DEF p
  <2>4. FlightHolds(f) /\ f.grid = "failed"
    BY <2>2 DEF Flies, Shaped, FlightHolds
  <2>5. Earned(f)
    BY <2>4 DEF Earned
  <2> HIDE DEF f
  <2>. QED BY <2>2, <2>3, <2>4, <2>5 DEF Flies
<1>. QED BY <1>2, <1>5, <1>6

\* A load begins with the step.
LEMMA LoadingWaits ==
    ASSUME Flies(page),
           \/ \E f \in Folders : PickFolder(f)
           \/ \E f \in Filters : PickFilter(f)
           \/ Refresh \/ FoldersAnswer
    PROVE  Waits(page')
<1>1. CASE \E f \in Folders : PickFolder(f)
  <2>1. PICK f \in Folders : page' = Load(Fresh([page EXCEPT !.folder = f]), FALSE)
    BY <1>1 DEF PickFolder
  <2>2. Flies([page EXCEPT !.folder = f])
    BY DEF Flies, Shaped, FlightHolds
  <2>. QED BY <2>1, <2>2, FreshFlies, LoadWaits
<1>2. CASE \E f \in Filters : PickFilter(f)
  <2>1. PICK f \in Filters : page' = Load(Fresh([page EXCEPT !.filter = f]), FALSE)
    BY <1>2 DEF PickFilter
  <2>2. Flies([page EXCEPT !.filter = f])
    BY DEF Flies, Shaped, FlightHolds
  <2>. QED BY <2>1, <2>2, FreshFlies, LoadWaits
<1>3. CASE Refresh
  BY <1>3, LoadWaits DEF Refresh
<1>4. CASE FoldersAnswer
  <2>1. PICK f \in page.folders :
          LET p == [page EXCEPT !.folders = @ \ {f}]
          IN  page' = Load(Resettled(p, f), TRUE) \/ page' = Load(p, TRUE)
    BY <1>4 DEF FoldersAnswer
  <2> DEFINE p == [page EXCEPT !.folders = @ \ {f}]
  <2>2. Flies(p)
    BY DEF Flies, Shaped, FlightHolds
  <2>3. page' = Load(Resettled(p, f), TRUE) \/ page' = Load(p, TRUE)
    BY <2>1
  <2> HIDE DEF p
  <2>4. Flies(Resettled(p, f))
    BY <2>2 DEF Resettled, Flies, Shaped, FlightHolds
  <2>. QED BY <2>2, <2>3, <2>4, LoadWaits
<1>. QED BY <1>1, <1>2, <1>3, <1>4

\* The search box and the pills.
LEMMA SearchingWaits ==
    ASSUME IndInv, Waits(page) \/ Flies(page),
           \/ Pause \/ Clear \/ Enter
           \/ \E q \in Queries : Type(q) \/ Sender(q)
           \/ \E x \in page.pills : RemovePill(x)
    PROVE  FlightHolds(page') /\ (Earned(page) => Earned(page'))
<1>1. page \in Pages /\ Flies(page) /\ (Earned(page) => Waits(page))
  BY PageIs DEF Waits
<1>2. CASE Pause
  <2> DEFINE p == [page EXCEPT !.search = page.typing, !.typing = None]
  <2>1. Flies(p) /\ page' = DoSearch(p)
    BY <1>1, <1>2 DEF Pause, Flies, Shaped, FlightHolds
  <2> HIDE DEF p
  <2>. QED BY <2>1, DoSearchWaits DEF Waits, Flies
<1>3. CASE Clear
  <2> DEFINE u == Unpicked(page)
             p == [u EXCEPT !.draft = None, !.typing = None]
             c == [p EXCEPT !.had = FALSE, !.pre = None, !.search = None]
  <2>1. page' = p \/ page' = Load(c, TRUE)
    BY <1>3 DEF Clear
  <2>2. Flies(u) /\ (Waits(page) => Waits(u))
    BY <1>1, UnpickedWaits
  <2> HIDE DEF u
  <2>3. Flies(p) /\ (Waits(u) => Waits(p))
    BY <2>2 DEF Waits, Flies, Shaped, FlightHolds, Earned
  <2> HIDE DEF p
  <2>4. Flies(c)
    BY <2>3 DEF Flies, Shaped, FlightHolds
  <2> HIDE DEF c
  <2>5. Waits(Load(c, TRUE))
    BY <2>4, LoadWaits
  <2>. QED BY <1>1, <2>1, <2>2, <2>3, <2>5 DEF Waits, Flies
<1>4. CASE Enter
  <2> DEFINE a == AddPill(page, <<"text", page.draft>>)
             p == [a EXCEPT !.draft = None, !.typing = None, !.search = page.draft]
  <2>1. page' = DoSearch(p)
    BY <1>4 DEF Enter
  <2>2. Flies(a)
    BY <1>1, AddPillWaits
  <2> HIDE DEF a
  <2>3. Flies(p)
    BY <2>2 DEF Flies, Shaped, FlightHolds
  <2> HIDE DEF p
  <2>. QED BY <2>1, <2>3, DoSearchWaits DEF Waits, Flies
<1>5. CASE \E q \in Queries : Type(q)
  <2>1. PICK q \in Queries : page' = [Unpicked(page) EXCEPT !.draft = q, !.typing = q]
    BY <1>5 DEF Type
  <2> DEFINE u == Unpicked(page)
             p == [u EXCEPT !.draft = q, !.typing = q]
  <2>2. Flies(u) /\ (Waits(page) => Waits(u))
    BY <1>1, UnpickedWaits
  <2>3. page' = p
    BY <2>1
  <2> HIDE DEF u
  <2>4. Flies(p) /\ (Waits(u) => Waits(p))
    BY <2>2 DEF Waits, Flies, Shaped, FlightHolds, Earned
  <2> HIDE DEF p
  <2>. QED BY <1>1, <2>2, <2>3, <2>4 DEF Waits, Flies
<1>6. CASE \E q \in Queries : Sender(q)
  <2>1. PICK q \in Queries : page' = AddPill(page, <<"contact", q>>)
    BY <1>6 DEF Sender
  <2>. QED BY <1>1, <2>1, AddPillWaits DEF Waits, Flies
<1>7. CASE \E x \in page.pills : RemovePill(x)
  <2>1. PICK x \in page.pills :
          LET p == [Unpicked(page) EXCEPT !.pills = @ \ {x}]
          IN  page' = IF p.pills = {} /\ p.draft = None /\ p.had
                      THEN Load([p EXCEPT !.had = FALSE, !.pre = None, !.server = None,
                                          !.search = None], TRUE)
                      ELSE IF p.pills # {}
                      THEN DoSearch([p EXCEPT !.draft = None, !.typing = None,
                                              !.search = (CHOOSE y \in p.pills : TRUE)[2]])
                      ELSE ApplyPills(p)
    BY <1>7 DEF RemovePill
  <2> DEFINE u == Unpicked(page)
             p == [u EXCEPT !.pills = @ \ {x}]
             next == (CHOOSE y \in p.pills : TRUE)[2]
             c == [p EXCEPT !.had = FALSE, !.pre = None, !.server = None, !.search = None]
             d == [p EXCEPT !.draft = None, !.typing = None, !.search = next]
  <2>2. page' = Load(c, TRUE) \/ page' = DoSearch(d) \/ page' = ApplyPills(p)
    BY <2>1
  <2>3. Flies(u)
    BY <1>1, UnpickedWaits
  <2> HIDE DEF u, next
  <2>4. Flies(p)
    BY <2>3 DEF Flies, Shaped, FlightHolds
  <2> HIDE DEF p
  <2>5. Flies(c) /\ Flies(d)
    BY <2>4 DEF Flies, Shaped, FlightHolds
  <2> HIDE DEF c, d
  <2>. QED BY <2>2, <2>4, <2>5, LoadWaits, DoSearchWaits, ApplyPillsWaits DEF Waits, Flies
<1>. QED BY <1>2, <1>3, <1>4, <1>5, <1>6, <1>7

\* The answers of a search leave none in flight, or one under way.
LEMMA SearchesFly ==
    ASSUME IndInv, FlightHolds(page), SearchLocal \/ SearchFull \/ SearchFails
    PROVE  FlightHolds(page')
<1>1. page \in Pages /\ Flies(page)
  BY PageIs, PagesAreShaped DEF Flies
<1>2. \A p : Shaped(p) => FlightHolds([p EXCEPT !.flight = FALSE])
  BY DEF Shaped, FlightHolds
<1>3. \A p, x : Shaped(p) => FlightHolds([p EXCEPT !.searches = @ \cup {x}])
  BY DEF Shaped, FlightHolds
<1>4. \A s : Shaped([page EXCEPT !.searches = @ \ {s}])
  BY <1>1 DEF Shaped, Flies
<1>5. CASE SearchFails
  <2>1. PICK s \in page.searches :
          LET p == [page EXCEPT !.searches = @ \ {s}]
          IN  \/ page' = [p EXCEPT !.searches = @ \cup {[s EXCEPT !.at = "full"]}]
              \/ page' = [p EXCEPT !.flight = FALSE]
    BY <1>5 DEF SearchFails
  <2> DEFINE p == [page EXCEPT !.searches = @ \ {s}]
             rest == [s EXCEPT !.at = "full"]
  <2>2. Shaped(p)
    BY <1>4
  <2>3. \/ page' = [p EXCEPT !.searches = @ \cup {rest}]
        \/ page' = [p EXCEPT !.flight = FALSE]
    BY <2>1
  <2> HIDE DEF p, rest
  <2>4. FlightHolds([p EXCEPT !.flight = FALSE])
    BY <1>2, <2>2
  <2>5. FlightHolds([p EXCEPT !.searches = @ \cup {rest}])
    BY <1>3, <2>2
  <2>. QED BY <2>3, <2>4, <2>5
<1>6. ASSUME NEW s \in page.searches, NEW results \in SUBSET Rows
      PROVE  Shaped(Shown([page EXCEPT !.searches = @ \ {s}], results))
  <2>1. [page EXCEPT !.searches = @ \ {s}] \in Pages
    BY UnsearchedIs
  <2>. QED BY <2>1, ShownIs, PagesAreShaped
<1>7. CASE SearchLocal
  <2>1. PICK s \in page.searches :
          LET results == Found(s, Folders)
              p == [page EXCEPT !.searches = @ \ {s}]
              rest == [s EXCEPT !.at = "full", !.painted = results # {}]
          IN  page' = IF ~StillCurrent(s) THEN [p EXCEPT !.flight = FALSE]
                      ELSE [IF results = {} THEN p ELSE Shown(p, results)
                              EXCEPT !.searches = @ \cup {rest}]
    BY <1>7 DEF SearchLocal
  <2> DEFINE results == Found(s, Folders)
             p == [page EXCEPT !.searches = @ \ {s}]
             rest == [s EXCEPT !.at = "full", !.painted = results # {}]
             b == IF results = {} THEN p ELSE Shown(p, results)
  <2>2. Shaped(p) /\ Shaped(b)
    BY <1>4, <1>6, FoundIs
  <2>3. page' = [p EXCEPT !.flight = FALSE] \/ page' = [b EXCEPT !.searches = @ \cup {rest}]
    BY <2>1
  <2>4. FlightHolds([p EXCEPT !.flight = FALSE])
    <3> HIDE DEF p
    <3>. QED BY <1>2, <2>2
  <2>5. FlightHolds([b EXCEPT !.searches = @ \cup {rest}])
    <3> HIDE DEF b, rest
    <3>. QED BY <1>3, <2>2
  <2> HIDE DEF p, b, rest
  <2>. QED BY <2>3, <2>4, <2>5
<1>8. CASE SearchFull
  <2>1. PICK s \in page.searches :
          LET found == Found(s, {Inbox})
              results == IF s.painted THEN Merged(page.emails, found) ELSE found
              p == [page EXCEPT !.searches = @ \ {s}]
          IN  page' = [IF ~StillCurrent(s) \/ (s.painted /\ results = {}) THEN p
                       ELSE Shown(p, results) EXCEPT !.flight = FALSE]
    BY <1>8 DEF SearchFull
  <2> DEFINE found == Found(s, {Inbox})
             results == IF s.painted THEN Merged(page.emails, found) ELSE found
             p == [page EXCEPT !.searches = @ \ {s}]
             b == IF ~StillCurrent(s) \/ (s.painted /\ results = {}) THEN p
                  ELSE Shown(p, results)
  <2>2. results \in SUBSET Rows
    BY FoundIs, <1>1 DEF Merged, Pages
  <2>3. Shaped(b) /\ page' = [b EXCEPT !.flight = FALSE]
    BY <1>4, <1>6, <2>1, <2>2
  <2> HIDE DEF b
  <2>. QED BY <1>2, <2>3
<1>. QED BY <1>5, <1>7, <1>8

LEMMA NextWaits ==
    ASSUME IndInv, FlightHolds(page), [Next]_vars
    PROVE  /\ FlightHolds(page')
           /\ Earned(page) => Earned(page') \/ SearchLocal \/ SearchFull \/ SearchFails
<1>1. page \in Pages /\ Flies(page)
  BY PageIs, PagesAreShaped DEF Flies
<1>2. CASE Serve \/ LoadAnswer \/ LoadFails
  BY <1>2, LoadsWait
<1>3. CASE Open
  <2>1. page'.due /\ page'.flight = page.flight /\ page'.searches = page.searches
    BY <1>1, <1>3 DEF Open, Pages
  <2>. QED BY <2>1 DEF Earned, FlightHolds
<1>4. CASE FirstLoad
  <2> DEFINE p == [page EXCEPT !.due = FALSE]
  <2>1. page' = Load(p, TRUE) \/ (page' = p /\ ~page.open)
    BY <1>4 DEF FirstLoad
  <2>2. Flies(p) /\ p.open = page.open
    BY <1>1 DEF Flies, Shaped, FlightHolds
  <2> HIDE DEF p
  <2>3. Waits(Load(p, TRUE))
    BY <2>2, LoadWaits
  <2>. QED BY <2>1, <2>2, <2>3 DEF Waits, Flies, Earned
<1>5. CASE Close
  <2>1. ~page'.open /\ page'.flight = page.flight /\ page'.searches = page.searches
    BY <1>1, <1>5 DEF Close, Pages
  <2>. QED BY <2>1 DEF Earned, FlightHolds
<1>6. CASE \/ \E f \in Folders : PickFolder(f)
           \/ \E f \in Filters : PickFilter(f)
           \/ Refresh \/ FoldersAnswer
  BY <1>1, <1>6, LoadingWaits DEF Waits, Flies
<1>7. CASE \E a \in Accounts : PickAccount(a)
  <2>1. PICK a \in Accounts :
          page' = [Fresh([page EXCEPT !.acct = a])
                     EXCEPT !.folders = {[f EXCEPT !.current = FALSE] : f \in @}
                                           \cup {[acct |-> a, current |-> TRUE]}]
    BY <1>7 DEF PickAccount
  <2> DEFINE s == Fresh([page EXCEPT !.acct = a])
             new == [acct |-> a, current |-> TRUE]
             asked == {[f EXCEPT !.current = FALSE] : f \in s.folders} \cup {new}
  <2>2. page' = [s EXCEPT !.folders = asked]
    BY <2>1
  <2>3. Flies([page EXCEPT !.acct = a])
    BY <1>1 DEF Flies, Shaped, FlightHolds
  <2>4. Flies(s) /\ asked # {}
    BY <2>3, FreshFlies
  <2> HIDE DEF s, asked
  <2>5. FlightHolds(page') /\ page'.folders # {}
    BY <2>2, <2>4 DEF Flies, Shaped, FlightHolds
  <2>. QED BY <2>5 DEF Earned
<1>8. CASE Warmed \/ \E a \in Accounts : Warm(a)
  <2>1. /\ page'.open = page.open /\ page'.grid = page.grid /\ page'.flight = page.flight
        /\ page'.due = page.due /\ page'.folders = page.folders
        /\ page'.searches = page.searches /\ page'.loads = page.loads
    BY <1>1, <1>8 DEF Warmed, Warm, Pages
  <2>. QED BY <1>1, <2>1, ViewsWait
<1>9. CASE SearchLocal \/ SearchFull \/ SearchFails
  BY <1>9, SearchesFly
<1>10. CASE \/ Pause \/ Clear \/ Enter
            \/ \E q \in Queries : Type(q) \/ Sender(q)
            \/ \E x \in page.pills : RemovePill(x)
  BY <1>1, <1>10, SearchingWaits
<1>11. CASE TickAll \/ \E r \in page.emails : Tick(r)
  <2>1. /\ page'.open = page.open /\ page'.grid = page.grid /\ page'.flight = page.flight
        /\ page'.due = page.due /\ page'.folders = page.folders
        /\ page'.searches = page.searches /\ page'.loads = page.loads
    BY <1>1, <1>11 DEF TickAll, Tick, Pages
  <2>. QED BY <1>1, <2>1, ViewsWait
<1>12. CASE \/ \E r \in page.emails : Delete(r)
            \/ \E k \in {"delete", "done"} : Bulk(k)
            \/ Request \/ RequestLost \/ Reply \/ DeleteFails \/ FadeDone
            \/ UNCHANGED vars
  <2>1. page' = page
    BY <1>12 DEF Delete, Bulk, Request, RequestLost, Reply, DeleteFails, FadeDone, vars
  <2>. QED BY <2>1
<1>13. CASE JobEnds
  <2>1. PICK j \in jobs : page' = Removed(j)
    BY <1>13 DEF JobEnds
  <2>. QED BY <1>1, <2>1, RemovedWaits DEF Waits, Flies
<1>. QED BY <1>2, <1>3, <1>4, <1>5, <1>6, <1>7, <1>8, <1>9, <1>10, <1>11, <1>12, <1>13
     DEF Next

LEMMA InitWaits == Init => FlightHolds(page)
  BY DEF Init, FlightHolds

\* For every user, and whatever requests fail: once the spinner stands for something
\* awaited, no step but the end of a search leaves it with nothing under way that would
\* replace it, though loads, lists of folders, searches, deletions, pills and changes of
\* view overlap, and each may be superseded before it is answered.
THEOREM SpinnerStandsForSomething == Spec => SpinnerIsEarned
<1>1. Spec => []IndInv
  BY Inductive
<1>2. Init => FlightHolds(page)
  BY InitWaits
<1>3. IndInv /\ FlightHolds(page) /\ [Next]_vars => FlightHolds(page)'
  BY NextWaits
<1>4. IndInv /\ FlightHolds(page) /\ [Next]_vars
      => [Earned(page) => Earned(page)' \/ SearchLocal \/ SearchFull \/ SearchFails]_vars
  BY NextWaits
<1>. QED BY <1>1, <1>2, <1>3, <1>4, PTL DEF Spec, SpinnerIsEarned

(***************************************************************************)
(* Deleted mails, for users who do not search.                             *)
(***************************************************************************)
Listing(p) == /\ {"loads", "warm", "open", "emails", "grid", "cache"} \subseteq DOMAIN p
              /\ \A l \in p.loads : {"rows", "current"} \subseteq DOMAIN l

\* No list that is awaited has the mail m.
Unlisted(p, m) == /\ Listing(p)
                  /\ \A l \in p.loads : Lacks(l.rows, m)
                  /\ p.warm # None => Free(p.warm.rows, m)

LEMMA PagesAreListing == ASSUME NEW p \in Pages PROVE Listing(p)
<1>1. p.loads \subseteq Loads
  BY DEF Pages
<1>2. \A l \in Loads : {"rows", "current"} \subseteq DOMAIN l
  BY DEF Loads
<1>. QED BY <1>1, <1>2 DEF Pages, Listing

LEMMA FadingIsUnlisted ==
    ASSUME NEW p \in Pages, NEW m, Fading(p, m)
    PROVE  Unlisted(p, m)
BY PagesAreListing DEF Fading, Unlisted

LEMMA SupersededLists ==
    ASSUME NEW p, NEW m, Unlisted(p, m)
    PROVE  /\ Unlisted(Superseded(p), m)
           /\ Superseded(p).open = p.open /\ Superseded(p).emails = p.emails
<1> DEFINE old == {[l EXCEPT !.current = FALSE] : l \in p.loads}
           q == [p EXCEPT !.loads = old]
<1>1. Superseded(p) = q
  BY DEF Superseded
<1>2. ASSUME NEW l \in p.loads
      PROVE  LET k == [l EXCEPT !.current = FALSE]
             IN  {"rows", "current"} \subseteq DOMAIN k /\ k.rows = l.rows
  BY DEF Unlisted, Listing
<1>3. \A k \in old : /\ {"rows", "current"} \subseteq DOMAIN k
                     /\ \E l \in p.loads : k.rows = l.rows
  BY <1>2
<1> HIDE DEF old
<1>4. /\ q.loads = old /\ q.warm = p.warm /\ q.open = p.open /\ q.emails = p.emails
      /\ DOMAIN q = DOMAIN p
  BY DEF Unlisted, Listing
<1>5. Unlisted(q, m)
  BY <1>3, <1>4 DEF Unlisted, Listing, Lacks
<1>. QED BY <1>1, <1>4, <1>5

\* What is shown while a load is under way will be replaced.
LEMMA LoadFades ==
    ASSUME NEW p, NEW m, Unlisted(p, m), NEW useCache \in BOOLEAN
    PROVE  Fading(Load(p, useCache), m)
<1> DEFINE cacheable == p.search = None
           hit   == useCache /\ cacheable /\ p.cache[Key(p)] # None
           load  == [key |-> Key(p), kept |-> cacheable, painted |-> hit,
                     current |-> TRUE, rows |-> None]
           s     == Superseded(p)
           begun == [s EXCEPT !.loads = @ \cup {load}]
           c     == [begun EXCEPT !.emails = p.cache[Key(p)]]
           w     == [begun EXCEPT !.grid = "loading"]
<1>1. Load(p, useCache) = IF ~p.open THEN s ELSE IF hit THEN Rendered(c) ELSE w
  BY DEF Load
<1>2. load.current /\ load.rows = None
  OBVIOUS
<1>3. Unlisted(s, m) /\ s.open = p.open
  BY SupersededLists
<1> HIDE DEF s, load, hit
<1>4. /\ load \in begun.loads /\ \A l \in begun.loads : Lacks(l.rows, m)
      /\ begun.warm # None => Free(begun.warm.rows, m)
      /\ {"loads", "warm", "open", "emails", "grid"} \subseteq DOMAIN begun
  <2>1. /\ begun.loads = s.loads \cup {load} /\ begun.warm = s.warm
        /\ DOMAIN begun = DOMAIN s
    BY <1>3 DEF Unlisted, Listing
  <2>. QED BY <1>2, <1>3, <2>1 DEF Unlisted, Listing, Lacks
<1> HIDE DEF begun
<1>5. CASE ~p.open
  BY <1>1, <1>3, <1>5 DEF Unlisted, Fading
<1>6. ASSUME NEW q, q.loads = begun.loads, q.warm = begun.warm PROVE Fading(q, m)
  BY <1>2, <1>4, <1>6 DEF Fading
<1>7. w.loads = begun.loads /\ w.warm = begun.warm
  BY <1>4
<1>8. Rendered(c).loads = begun.loads /\ Rendered(c).warm = begun.warm
  <2>1. c.loads = begun.loads /\ c.warm = begun.warm /\ DOMAIN c = DOMAIN begun
    BY <1>4
  <2> HIDE DEF c
  <2>. QED BY <1>4, <2>1 DEF Rendered
<1>. QED BY <1>1, <1>5, <1>6, <1>7, <1>8

LEMMA FreshLists ==
    ASSUME NEW p, NEW m, Unlisted(p, m)
    PROVE  Unlisted(Fresh(p), m) /\ Fresh(p).emails = {}
<1> DEFINE u == Unpicked(p)
           s == Superseded(u)
<1>1. Unlisted(u, m)
  BY DEF Unpicked, Unlisted, Listing
<1> HIDE DEF u
<1>2. Unlisted(s, m)
  BY <1>1, SupersededLists
<1>3. Fresh(p) = [s EXCEPT !.emails = {}, !.grid = "loading"]
  BY DEF Fresh, s, u
<1> HIDE DEF s
<1>. QED BY <1>2, <1>3 DEF Unlisted, Listing

\* The steps that begin a load, for a mail that no list awaited has.
LEMMA LoadingFades ==
    ASSUME NEW m, Unlisted(page, m),
           \/ FirstLoad
           \/ \E f \in Folders : PickFolder(f)
           \/ \E f \in Filters : PickFilter(f)
           \/ Refresh \/ FoldersAnswer
    PROVE  Fading(page', m)
<1>1. CASE FirstLoad
  <2> DEFINE p == [page EXCEPT !.due = FALSE]
  <2>1. page' = Load(p, TRUE) \/ (page' = p /\ ~page.open)
    BY <1>1 DEF FirstLoad
  <2>2. Unlisted(p, m) /\ p.open = page.open
    BY DEF Unlisted, Listing
  <2> HIDE DEF p
  <2>. QED BY <2>1, <2>2, LoadFades DEF Unlisted, Fading
<1>2. CASE \E f \in Folders : PickFolder(f)
  <2>1. PICK f \in Folders : page' = Load(Fresh([page EXCEPT !.folder = f]), FALSE)
    BY <1>2 DEF PickFolder
  <2>2. Unlisted([page EXCEPT !.folder = f], m)
    BY DEF Unlisted, Listing
  <2>. QED BY <2>1, <2>2, FreshLists, LoadFades
<1>3. CASE \E f \in Filters : PickFilter(f)
  <2>1. PICK f \in Filters : page' = Load(Fresh([page EXCEPT !.filter = f]), FALSE)
    BY <1>3 DEF PickFilter
  <2>2. Unlisted([page EXCEPT !.filter = f], m)
    BY DEF Unlisted, Listing
  <2>. QED BY <2>1, <2>2, FreshLists, LoadFades
<1>4. CASE Refresh
  BY <1>4, LoadFades DEF Refresh
<1>5. CASE FoldersAnswer
  <2>1. PICK f \in page.folders :
          LET p == [page EXCEPT !.folders = @ \ {f}]
          IN  page' = Load(Resettled(p, f), TRUE) \/ page' = Load(p, TRUE)
    BY <1>5 DEF FoldersAnswer
  <2> DEFINE p == [page EXCEPT !.folders = @ \ {f}]
  <2>2. Unlisted(p, m)
    BY DEF Unlisted, Listing
  <2>3. page' = Load(Resettled(p, f), TRUE) \/ page' = Load(p, TRUE)
    BY <2>1
  <2> HIDE DEF p
  <2>4. Unlisted(Resettled(p, f), m)
    BY <2>2 DEF Resettled, Unlisted, Listing
  <2>. QED BY <2>2, <2>3, <2>4, LoadFades
<1>. QED BY <1>1, <1>2, <1>3, <1>4, <1>5

\* The answers of loads: what is listed is on the server, and a load that fails takes what
\* is shown from ghost.stale.
LEMMA LoadsFade ==
    ASSUME IndInv, Browsing, NEW m, m \notin mail.kept, Fading(page, m),
           \/ Serve \/ LoadAnswer
           \/ LoadFails /\ m \in ghost'.stale
    PROVE  Fading(page', m)
<1>1. page \in Pages /\ page.loads \subseteq Loads
  BY PageIs DEF Pages
<1>2. \A l \in page.loads : l.current => l.key[1] = page.acct
  BY PageIs DEF LoadIsOfView
<1>3. CASE Serve
  <2>1. PICK l \in page.loads :
          page' = [page EXCEPT !.loads = (@ \ {l}) \cup {[l EXCEPT !.rows = Listed(l.key)]}]
    BY <1>3 DEF Serve
  <2> DEFINE k == [l EXCEPT !.rows = Listed(l.key)]
             all == (page.loads \ {l}) \cup {k}
  <2>2. Free(Listed(l.key), m)
    BY <1>1, ListedIs DEF Loads
  <2>3. k.current = l.current /\ k.rows = Listed(l.key)
    BY <1>1 DEF Loads
  <2>4. /\ page'.loads = all /\ page'.warm = page.warm /\ page'.open = page.open
        /\ page'.emails = page.emails
    BY <1>1, <2>1 DEF Pages
  <2>5. Lacks(k.rows, m)
    BY <2>2, <2>3 DEF Lacks
  <2>6. \A x \in all : Lacks(x.rows, m)
    BY <2>5 DEF Fading
  <2>7. (\E x \in page.loads : x.current) => \E x \in all : x.current
    BY <2>3
  <2> HIDE DEF all
  <2>. QED BY <2>4, <2>6, <2>7 DEF Fading
<1>4. CASE LoadAnswer
  <2>1. PICK l \in page.loads :
          LET p == [page EXCEPT !.loads = @ \ {l}]
          IN  /\ l.rows # None
              /\ page' = IF MayPaint(l) THEN Painted(p, l) ELSE p
    BY <1>4 DEF LoadAnswer
  <2> DEFINE p == [page EXCEPT !.loads = @ \ {l}]
             q == Painted(p, l)
  <2>2. l \in Loads /\ l.rows # None /\ \A r \in l.rows : r.of = l.key
    BY <1>1, <2>1, PageIs DEF Stocked
  <2>3. /\ Base(p) /\ p.loads = page.loads \ {l} /\ p.acct = page.acct
        /\ p.folder = page.folder /\ p.open = page.open /\ p.emails = page.emails
    BY UnloadedIs
  <2>4. p.warm = page.warm
    BY <1>1 DEF Pages
  <2>5. page' = IF MayPaint(l) THEN q ELSE p
    BY <2>1
  <2> HIDE DEF p
  <2>6. CASE MayPaint(l)
    <3>1. l.key[1] = p.acct /\ l.key[2] = p.folder
      BY <2>3, <2>6, PageIs DEF MayPaint, LoadIsOfView
    <3>2. SameView(p, q) /\ q.emails = l.rows
      BY <2>2, <2>3, <3>1, PaintedIs
    <3>3. Free(l.rows, m)
      BY <2>2 DEF Fading, Lacks
    <3>. QED BY <2>3, <2>4, <2>5, <2>6, <3>2, <3>3 DEF Fading, SameView
  <2>7. CASE ~MayPaint(l)
    <3>1. ~l.current
      BY <1>2, <2>7 DEF MayPaint
    <3>. QED BY <2>3, <2>4, <2>5, <2>7, <3>1 DEF Fading
  <2>. QED BY <2>6, <2>7
<1>5. CASE LoadFails /\ m \in ghost'.stale
  <2>1. PICK l \in page.loads :
          /\ \E n : ghost' = [ghost EXCEPT
               !.left["fails"] = n,
               !.stale = IF MayPaint(l) THEN @ \ Mails(page.emails) ELSE @]
          /\ page' = [page EXCEPT !.loads = @ \ {l},
                                  !.grid = IF MayPaint(l) /\ ~l.painted THEN "failed" ELSE @]
    BY <1>5 DEF LoadFails
  <2>2. /\ page'.loads = page.loads \ {l} /\ page'.warm = page.warm
        /\ page'.open = page.open /\ page'.emails = page.emails
    BY <1>1, <2>1 DEF Pages
  <2>3. CASE MayPaint(l)
    <3>1. ghost \in Ghosts
      BY DEF IndInv, TypeOK
    <3>2. ghost'.stale = ghost.stale \ Mails(page.emails)
      BY <2>1, <2>3, <3>1 DEF Ghosts
    <3>3. m \notin Mails(page.emails)
      BY <1>5, <3>2
    <3>4. Free(page.emails, m)
      BY <3>3 DEF Mails, Free
    <3>. QED BY <2>2, <3>4 DEF Fading
  <2>4. CASE ~MayPaint(l)
    <3>1. ~l.current
      BY <1>2, <2>4 DEF MayPaint
    <3>. QED BY <2>2, <3>1 DEF Fading
  <2>. QED BY <2>3, <2>4
<1>. QED BY <1>3, <1>4, <1>5

\* A mail that is deleted and fades goes on fading.
LEMMA NextFades ==
    ASSUME IndInv, Browsing, [Next]_vars,
           NEW m, m \notin mail.kept, m \in ghost'.stale, Fading(page, m)
    PROVE  Fading(page', m)
<1>1. page \in Pages /\ Unlisted(page, m)
  BY PageIs, FadingIsUnlisted
<1>2. CASE Serve \/ LoadAnswer \/ LoadFails
  BY <1>2, LoadsFade
<1>3. CASE Open
  <2>1. /\ page'.loads = page.loads /\ page'.warm = page.warm /\ page'.emails = {}
    BY <1>1, <1>3 DEF Open, Pages
  <2>. QED BY <2>1 DEF Fading, Free
<1>4. CASE \/ FirstLoad
           \/ \E f \in Folders : PickFolder(f)
           \/ \E f \in Filters : PickFilter(f)
           \/ Refresh \/ FoldersAnswer
  BY <1>1, <1>4, LoadingFades
<1>5. CASE Close
  <2>1. page'.loads = page.loads /\ page'.warm = page.warm /\ ~page'.open
    BY <1>1, <1>5 DEF Close, Pages
  <2>. QED BY <2>1 DEF Fading
<1>6. CASE \E a \in Accounts : PickAccount(a)
  <2>1. PICK a \in Accounts :
          page' = [Fresh([page EXCEPT !.acct = a])
                     EXCEPT !.folders = {[f EXCEPT !.current = FALSE] : f \in @}
                                           \cup {[acct |-> a, current |-> TRUE]}]
    BY <1>6 DEF PickAccount
  <2> DEFINE s == Fresh([page EXCEPT !.acct = a])
             asked == {[f EXCEPT !.current = FALSE] : f \in s.folders}
                        \cup {[acct |-> a, current |-> TRUE]}
  <2>2. page' = [s EXCEPT !.folders = asked]
    BY <2>1
  <2>3. Unlisted([page EXCEPT !.acct = a], m)
    BY <1>1 DEF Unlisted, Listing
  <2>4. Unlisted(s, m) /\ s.emails = {}
    BY <2>3, FreshLists
  <2> HIDE DEF s, asked
  <2>5. page'.loads = s.loads /\ page'.warm = s.warm /\ page'.emails = {}
    BY <2>2, <2>4 DEF Unlisted, Listing
  <2>. QED BY <2>4, <2>5 DEF Fading, Unlisted, Free
<1>7. CASE \E a \in Accounts : Warm(a)
  <2>1. PICK a \in Accounts :
          page' = [page EXCEPT !.warm = [key |-> <<a, Inbox, "all">>,
                                         rows |-> Listed(<<a, Inbox, "all">>)]]
    BY <1>7 DEF Warm
  <2>2. <<a, Inbox, "all">> \in Keys
    BY EmailAssumption DEF Keys, Filters
  <2>3. Free(Listed(<<a, Inbox, "all">>), m)
    BY <2>2, ListedIs
  <2>4. /\ page'.loads = page.loads /\ page'.open = page.open /\ page'.emails = page.emails
        /\ page'.warm.rows = Listed(<<a, Inbox, "all">>)
    BY <1>1, <2>1 DEF Pages
  <2>. QED BY <2>3, <2>4 DEF Fading
<1>8. CASE Warmed
  <2>1. /\ page'.loads = page.loads /\ page'.open = page.open /\ page'.emails = page.emails
        /\ page'.warm = None
    BY <1>1, <1>8 DEF Warmed, Pages
  <2>. QED BY <2>1 DEF Fading
<1>9. CASE TickAll \/ \E r \in page.emails : Tick(r)
  <2>1. /\ page'.loads = page.loads /\ page'.open = page.open /\ page'.emails = page.emails
        /\ page'.warm = page.warm
    BY <1>1, <1>9 DEF TickAll, Tick, Pages
  <2>. QED BY <2>1 DEF Fading
<1>10. CASE \/ \E r \in page.emails : Delete(r)
            \/ \E k \in {"delete", "done"} : Bulk(k)
            \/ Request \/ RequestLost \/ Reply \/ DeleteFails \/ FadeDone
            \/ UNCHANGED vars
  <2>1. page' = page
    BY <1>10 DEF Delete, Bulk, Request, RequestLost, Reply, DeleteFails, FadeDone, vars
  <2>. QED BY <2>1
<1>11. CASE JobEnds
  <2>1. PICK j \in jobs : page' = Removed(j)
    BY <1>11 DEF JobEnds
  <2>2. SameView(page, page') /\ page'.emails \subseteq page.emails
    BY <2>1, RemovedIs
  <2>. QED BY <2>2 DEF SameView, Fading, Free
<1>12. CASE \/ SearchLocal \/ SearchFull \/ SearchFails \/ Pause \/ Clear \/ Enter
            \/ \E q \in Queries : Type(q) \/ Sender(q)
            \/ \E x \in page.pills : RemovePill(x)
  <2>1. /\ page.draft = None /\ page.typing = None /\ page.pills = {}
        /\ page.searches = {}
    BY PageIs DEF NoSearch
  <2>2. ~Spend("types") /\ ~Spend("senders")
    BY Browses
  <2>. QED BY <1>12, <2>1, <2>2
       DEF SearchLocal, SearchFull, SearchFails, Pause, Clear, Enter, Type, Sender
<1>. QED BY <1>2, <1>3, <1>4, <1>5, <1>6, <1>7, <1>8, <1>9, <1>10, <1>11, <1>12 DEF Next

\* What a step adds to ghost.stale was deleted in calm, and fades.
LEMMA StaleIs ==
    ASSUME IndInv, [Next]_vars, NEW m \in ghost'.stale, m \notin ghost.stale
    PROVE  m \notin mail.kept /\ Fading(page', m)
<1>1. JobEnds
  <2>1. ghost \in Ghosts
    BY DEF IndInv, TypeOK
  <2>2. ASSUME ghost' = ghost \/ \E w \in Spendable : Spend(w) PROVE FALSE
    BY <2>1, <2>2 DEF Spend, Ghosts
  <2>3. ASSUME LoadFails PROVE FALSE
    BY <2>1, <2>3 DEF LoadFails, Ghosts
  <2>4. ASSUME Request PROVE FALSE
    BY <2>1, <2>4 DEF Request, Ghosts
  <2>5. {"folders", "accounts", "filters", "refreshes", "opens", "types", "clears",
         "enters", "senders", "unpills", "ticks", "deletes", "bulks", "fails", "misses",
         "warms", "hasty"} \subseteq Spendable
    BY DEF Spendable
  <2>6. ASSUME \/ Serve \/ LoadAnswer \/ Open \/ FirstLoad \/ Close \/ Refresh
               \/ FoldersAnswer \/ Warmed
               \/ \E f \in Folders : PickFolder(f)
               \/ \E f \in Filters : PickFilter(f)
               \/ \E a \in Accounts : PickAccount(a) \/ Warm(a)
        PROVE  FALSE
    BY <2>2, <2>5, <2>6
       DEF Serve, LoadAnswer, Open, FirstLoad, Close, Refresh, FoldersAnswer, Warmed,
           PickFolder, PickFilter, PickAccount, Warm
  <2>7. ASSUME \/ SearchLocal \/ SearchFull \/ SearchFails \/ Pause \/ Clear \/ Enter
               \/ \E q \in Queries : Type(q) \/ Sender(q)
               \/ \E x \in page.pills : RemovePill(x)
        PROVE  FALSE
    BY <2>2, <2>5, <2>7
       DEF SearchLocal, SearchFull, SearchFails, Pause, Clear, Enter, Type, Sender, RemovePill
  <2>8. ASSUME \/ \E r \in page.emails : Tick(r) \/ Delete(r)
               \/ TickAll \/ \E k \in {"delete", "done"} : Bulk(k)
               \/ RequestLost \/ Reply \/ DeleteFails \/ FadeDone \/ UNCHANGED vars
        PROVE  FALSE
    BY <2>2, <2>5, <2>8
       DEF Tick, Delete, TickAll, Bulk, RequestLost, Reply, DeleteFails, FadeDone, vars
  <2>. QED BY <2>3, <2>4, <2>6, <2>7, <2>8 DEF Next
<1>2. PICK j \in jobs :
        /\ page' = Removed(j)
        /\ ghost' = [ghost EXCEPT
                       !.gone = @ \cup {n \in Deleted(j) : ~CachedElsewhere(n)},
                       !.stale = @ \cup {n \in Deleted(j) : CachedElsewhere(n)}]
  BY <1>1 DEF JobEnds
<1>3. m \in Deleted(j)
  <2>1. ghost \in Ghosts
    BY DEF IndInv, TypeOK
  <2>. QED BY <1>2, <2>1 DEF Ghosts
<1>4. JobIsSound(j)
  BY JobsAre
<1>5. /\ j.kind # "done" /\ page.search = None /\ page.loads = {} /\ page.warm = None
      /\ m.uid \in Uids(j.rows) /\ m \notin mail.kept
  BY <1>3, <1>4 DEF Deleted, JobIsSound, Quiet
<1>6. SameView(page, page') /\ Free(page'.emails, m)
  BY <1>2, <1>5, RemovedIs
<1>. QED BY <1>5, <1>6 DEF SameView, Fading

\* No step brings a mail back to the server.
LEMMA KeptShrinks == ASSUME IndInv, [Next]_vars PROVE mail'.kept \subseteq mail.kept
<1>1. CASE Request
  <2>1. mail \in [kept : SUBSET Stored, done : SUBSET Stored]
    BY DEF IndInv, TypeOK
  <2>. QED BY <1>1, <2>1 DEF Request
<1>2. CASE ~Request
  <2>1. mail' = mail
    BY <1>2 DEF Next, vars, Serve, LoadAnswer, LoadFails, Open, FirstLoad, Close, Refresh,
        FoldersAnswer, Warmed, PickFolder, PickFilter, PickAccount, Warm, SearchLocal,
        SearchFull, SearchFails, Pause, Clear, Enter, Type, Sender, RemovePill, Tick, Delete,
        TickAll, Bulk, RequestLost, Reply, DeleteFails, FadeDone, JobEnds
  <2>. QED BY <2>1
<1>. QED BY <1>1, <1>2

\* Whoever does not search: a mail that was deleted with nothing else under way is never
\* shown again if no other view's cache had it; and if one had it, it is shown only while
\* that view is listed anew, in whatever order lists, prewarmed views, folders and further
\* deletions follow, whatever fails, and however often the window is closed and opened.
THEOREM WhoBrowsesSeesNoDeleted == Browsing => (Spec => []DeletedStaysGone)
<1> SUFFICES ASSUME Browsing PROVE Spec => []DeletedStaysGone
  OBVIOUS
<1>1. Spec => []IndInv
  BY Inductive
<1>2. Init => StaleFades
  BY DEF Init, StaleFades
<1>3. IndInv /\ StaleFades /\ [Next]_vars => StaleFades'
  <2> SUFFICES ASSUME IndInv, StaleFades, [Next]_vars, NEW m \in ghost'.stale
               PROVE  m \notin mail'.kept /\ Fading(page', m)
    BY DEF StaleFades, Fading
  <2>1. CASE m \in ghost.stale
    <3>1. m \notin mail.kept /\ Fading(page, m)
      BY <2>1 DEF StaleFades
    <3>. QED BY <3>1, NextFades, KeptShrinks
  <2>2. CASE m \notin ghost.stale
    BY <2>2, StaleIs, KeptShrinks
  <2>. QED BY <2>1, <2>2
<1>4. IndInv /\ StaleFades => DeletedStaysGone
  <2> SUFFICES ASSUME IndInv, StaleFades, NEW r \in page.emails
               PROVE  /\ r.mail \notin ghost.gone
                      /\ page.open /\ r.mail \in ghost.stale => \E l \in page.loads : l.current
    BY DEF DeletedStaysGone
  <2>1. r.mail \notin ghost.gone
    BY DEF IndInv, GoneForGood, Nowhere, Free
  <2>. QED BY <2>1 DEF StaleFades, Fading, Free
<1>. QED BY <1>1, <1>2, <1>3, <1>4, PTL DEF Spec

\* Whoever does not search: a deletion or a bulk action whose view has not changed since
\* it was begun touches the mails of the chosen rows only, though a row is known by its
\* uid alone and requests go on while loads, other jobs and changes of view overlap them.
THEOREM WhoBrowsesHitsTheChosen == Browsing => (Spec => []OnlyTheChosen)
<1> SUFFICES ASSUME Browsing PROVE Spec => []OnlyTheChosen
  OBVIOUS
<1>1. IndInv => OnlyTheChosen
  BY DEF IndInv, JobsFit
<1>. QED BY <1>1, Inductive, PTL

\* Whoever does not search, on a network that does not fail: when nothing is awaited, the
\* rows are those of the account, folder and filter shown, in whatever order the answers
\* of superseded loads, prewarmed lists and folders came in.
THEOREM WhoBrowsesSeesTheView == Browsing /\ Reliable => (Spec => []ListIsOfView)
<1> SUFFICES ASSUME Browsing, Reliable PROVE Spec => []ListIsOfView
  OBVIOUS
<1>1. IndInv => ListIsOfView
  <2> SUFFICES ASSUME IndInv, page.open, ~Busy PROVE \A r \in page.emails : r.of = Key(page)
    BY DEF ListIsOfView
  <2>1. ~page.due /\ page.loads = {}
    BY DEF Busy
  <2>. QED BY <2>1, PageIs DEF ViewHolds
<1>. QED BY <1>1, Inductive, PTL
=============================================================================
