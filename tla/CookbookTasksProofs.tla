------------------------- MODULE CookbookTasksProofs -------------------------
(***************************************************************************)
(* Proofs about CookbookTasks, for every set of devices and of models,     *)
(* every assignment of models to hosts and every budget.                   *)
(***************************************************************************)
EXTENDS CookbookTasks, FiniteSetTheorems, SequenceTheorems, WellFoundedInduction, TLAPS

\* Nobody clears the settled rows.
NoClears == \A b \in Budgets : b["clears"] = 0

\* No download stalls.
NoStalls == \A b \in Budgets : b["stalls"] = 0

\* There is one page, which is neither reloaded nor closed, and its polls are
\* answered at once: no list is merged once it is out of date.
Late == {"joins", "loads", "opens", "slow"}
Alone == \A b \in Budgets : \A what \in Late : b[what] = 0

-----------------------------------------------------------------------------
(* Positions.                                                               *)

Less == {p \in Nat \X Nat : p[1] < p[2]}

\* A set of natural numbers that is not empty has a least element: the induction
\* the lemmas about positions need.
LEMMA Least ==
  ASSUME NEW T \in SUBSET Nat, T # {}
  PROVE  \E x \in T : \A y \in T : x <= y
<1>1. IsWellFoundedOn(Less, Nat)
  BY NatLessThanWellFounded DEF OpToRel, Less
<1>2. PICK x \in T : \A y \in T : <<y, x>> \notin Less
  BY <1>1, WFMin
<1>3. ASSUME NEW y \in T PROVE x <= y
  <2>1. CASE y < x
    <3>1. <<y, x>> \in Nat \X Nat /\ <<y, x>>[1] < <<y, x>>[2]
      BY <2>1
    <3>2. <<y, x>> \in Less
      BY <3>1 DEF Less
    <3>. QED BY <3>2, <1>2
  <2>. QED BY <2>1
<1>. QED BY <1>3

UpTo(I, n) == {j \in I : j <= n}

\* The positions up to a bound are finitely many, and no more than all of them.
LEMMA UpToFinite ==
  ASSUME NEW L \in Nat, NEW I \in SUBSET (1..L), NEW n \in Nat
  PROVE  /\ IsFiniteSet(I) /\ Cardinality(I) \in Nat
         /\ IsFiniteSet(UpTo(I, n)) /\ Cardinality(UpTo(I, n)) \in Nat
<1>1. IsFiniteSet(1..L)
  BY FS_Interval
<1>2. IsFiniteSet(I)
  BY <1>1, FS_Subset
<1>3. IsFiniteSet(UpTo(I, n))
  BY <1>2, FS_Subset DEF UpTo
<1>. QED BY <1>2, <1>3, FS_CardinalityType

\* Place(I, k) is the k-th position.
LEMMA PlaceIs ==
  ASSUME NEW L \in Nat, NEW I \in SUBSET (1..L), NEW k \in 1..Cardinality(I)
  PROVE  Place(I, k) \in I /\ Cardinality(UpTo(I, Place(I, k))) = k
<1> DEFINE T == {n \in 0..L : Cardinality(UpTo(I, n)) >= k}
<1>0. \A j \in I : j \in Nat /\ 1 <= j /\ j <= L
  OBVIOUS
<1>k. k \in Nat /\ 0 < k
  BY UpToFinite
<1>1. UpTo(I, L) = I /\ UpTo(I, 0) = {}
  <2>1. \A j \in I : j <= L /\ ~(j <= 0)
    BY <1>0
  <2>. QED BY <2>1 DEF UpTo
<1>2. T \in SUBSET Nat /\ L \in T
  BY <1>1, UpToFinite
<1>3. PICK m \in T : \A y \in T : m <= y
  <2> HIDE DEF T
  <2>. QED BY <1>2, Least
<1>4. m \in Nat /\ m \in 0..L /\ Cardinality(UpTo(I, m)) >= k
  BY <1>3
<1>5. m # 0
  BY <1>1, <1>4, FS_EmptySet, UpToFinite
<1>6. Cardinality(UpTo(I, m - 1)) < k
  <2>1. m - 1 \in 0..L /\ m - 1 \notin T
    BY <1>2, <1>3, <1>4, <1>5
  <2>2. m - 1 \in Nat /\ ~(Cardinality(UpTo(I, m - 1)) >= k)
    BY <2>1
  <2>3. Cardinality(UpTo(I, m - 1)) \in Nat
    BY <2>2, UpToFinite
  <2>. QED BY <2>2, <2>3, <1>k
<1>7. m \in I
  <2>1. CASE m \notin I
    <3>1. \A j \in I : j <= m <=> j <= m - 1
      BY <2>1, <1>0, <1>4, <1>5
    <3>2. UpTo(I, m) = UpTo(I, m - 1)
      BY <3>1 DEF UpTo
    <3>3. Cardinality(UpTo(I, m)) \in Nat
      BY <1>4, UpToFinite
    <3>. QED BY <3>2, <3>3, <1>4, <1>k, <1>6
  <2>. QED BY <2>1
<1>8. UpTo(I, m) = UpTo(I, m - 1) \cup {m} /\ m \notin UpTo(I, m - 1)
  <2>1. \A j \in I : (j <= m <=> j <= m - 1 \/ j = m) /\ ~(m <= m - 1)
    BY <1>0, <1>4, <1>5
  <2>2. m <= m
    BY <1>4
  <2>. QED BY <2>1, <2>2, <1>7 DEF UpTo
<1>9. Cardinality(UpTo(I, m)) = Cardinality(UpTo(I, m - 1)) + 1
  <2>1. m - 1 \in Nat
    BY <1>4, <1>5
  <2>. QED BY <2>1, <1>8, UpToFinite, FS_AddElement
<1>10. Cardinality(UpTo(I, m)) = k
  <2>1. m - 1 \in Nat /\ m \in Nat
    BY <1>4, <1>5
  <2>2. Cardinality(UpTo(I, m - 1)) \in Nat /\ Cardinality(UpTo(I, m)) \in Nat
    BY <2>1, UpToFinite
  <2>. QED BY <2>2, <1>k, <1>4, <1>6, <1>9
<1>11. Cardinality({j \in I : j <= m}) = k
  BY <1>10 DEF UpTo
<1>. QED BY <1>7, <1>11 DEF Place, UpTo

\* Every position has its place.
LEMMA PlacesAll ==
  ASSUME NEW L \in Nat, NEW I \in SUBSET (1..L), NEW i \in I
  PROVE  \E k \in 1..Cardinality(I) : Place(I, k) = i
<1> DEFINE k == Cardinality(UpTo(I, i))
<1>0. \A j \in I : j \in Nat
  OBVIOUS
<1>1. IsFiniteSet(I) /\ IsFiniteSet(UpTo(I, i)) /\ k \in Nat /\ Cardinality(I) \in Nat
  BY <1>0, UpToFinite
<1>2. k # 0
  <2>1. i \in UpTo(I, i)
    BY <1>0 DEF UpTo
  <2> QED BY <1>1, <2>1, FS_EmptySet
<1>3. k <= Cardinality(I)
  BY <1>1, FS_Subset DEF UpTo
<1>4. k \in 1..Cardinality(I)
  BY <1>1, <1>2, <1>3
<1> DEFINE j == Place(I, k)
<1>5. j \in I /\ Cardinality(UpTo(I, j)) = k
  BY <1>4, PlaceIs
<1> HIDE DEF j
<1>6. \A x, y \in I : x < y => Cardinality(UpTo(I, x)) # Cardinality(UpTo(I, y))
  <2> SUFFICES ASSUME NEW x \in I, NEW y \in I, x < y
               PROVE  Cardinality(UpTo(I, x)) # Cardinality(UpTo(I, y))
    OBVIOUS
  <2>1. x \in Nat /\ y \in Nat
    BY <1>0
  <2>2. UpTo(I, x) \subseteq UpTo(I, y) /\ y \in UpTo(I, y) /\ y \notin UpTo(I, x)
    BY <1>0, <2>1 DEF UpTo
  <2>3. IsFiniteSet(UpTo(I, y))
    BY <2>1, UpToFinite
  <2> QED BY <2>2, <2>3, FS_Subset
<1>7. j = i
  BY <1>0, <1>5, <1>6
<1> QED BY <1>4, <1>7 DEF j

-----------------------------------------------------------------------------
(* Lists.                                                                   *)

LEMMA SameIds ==
  ASSUME NEW l, NEW k, DOMAIN l = DOMAIN k, \A i \in DOMAIN l : l[i].id = k[i].id
  PROVE  Ids(l) = Ids(k)
BY DEF Ids

\* What Only leaves of a list.
LEMMA OnlyIs ==
  ASSUME NEW S, NEW s \in Seq(S), NEW I \in SUBSET DOMAIN s
  PROVE  /\ Only(s, I) \in Seq(S)
         /\ DOMAIN Only(s, I) = 1..Len(Only(s, I))
         /\ \A k \in DOMAIN Only(s, I) : \E i \in I : Only(s, I)[k] = s[i]
         /\ \A i \in I : \E k \in DOMAIN Only(s, I) : Only(s, I)[k] = s[i]
<1> DEFINE n == Cardinality(I)
           r == Only(s, I)
<1>1. Len(s) \in Nat /\ DOMAIN s = 1..Len(s)
  OBVIOUS
<1>2. n \in Nat
  BY <1>1, UpToFinite
<1>3. \A k \in 1..n : Place(I, k) \in I
  BY <1>1, PlaceIs
<1>4. r = [k \in 1..n |-> s[Place(I, k)]]
  BY DEF Only
<1>5. \A i \in I : \E k \in 1..n : Place(I, k) = i
  BY <1>1, PlacesAll
<1> HIDE DEF n
<1>6. r \in [1..n -> S]
  <2>1. \A k \in 1..n : s[Place(I, k)] \in S
    BY <1>1, <1>3
  <2> QED BY <1>4, <2>1
<1> HIDE DEF r
<1>7. r \in Seq(S) /\ Len(r) = n /\ DOMAIN r = 1..n
  BY <1>2, <1>6
<1>8. /\ \A k \in DOMAIN r : \E i \in I : r[k] = s[i]
      /\ \A i \in I : \E k \in DOMAIN r : r[k] = s[i]
  BY <1>3, <1>4, <1>5, <1>7
<1> QED BY <1>7, <1>8 DEF r

\* What is left without some ids.
LEMMA WithoutIs ==
  ASSUME NEW S, NEW s \in Seq(S), NEW ids
  PROVE  Without(s, ids) \in Seq(S) /\ Ids(Without(s, ids)) = Ids(s) \ ids
<1> DEFINE I == {i \in DOMAIN s : s[i].id \notin ids}
           r == Only(s, I)
<1>1. I \in SUBSET DOMAIN s
  OBVIOUS
<1>2. /\ r \in Seq(S)
      /\ \A k \in DOMAIN r : \E i \in I : r[k] = s[i]
      /\ \A i \in I : \E k \in DOMAIN r : r[k] = s[i]
  BY <1>1, OnlyIs
<1> HIDE DEF r
<1>3. Ids(r) = Ids(s) \ ids
  BY <1>2 DEF Ids
<1> QED BY <1>2, <1>3 DEF Without, r

\* Lists that are built from others.
LEMMA AppendIs ==
  ASSUME NEW S, NEW s \in Seq(S), NEW t \in S
  PROVE  Append(s, t) \in Seq(S) /\ Ids(Append(s, t)) = Ids(s) \cup {t.id}
<1> DEFINE r == Append(s, t)
<1>1. /\ r \in Seq(S) /\ DOMAIN s = 1..Len(s) /\ DOMAIN r = 1..(Len(s) + 1) /\ Len(s) \in Nat
      /\ \A i \in 1..Len(s) : r[i] = s[i]
      /\ r[Len(s) + 1] = t
  OBVIOUS
<1> HIDE DEF r
<1>2. \A i \in DOMAIN r : i \in DOMAIN s \/ i = Len(s) + 1
  BY <1>1
<1>3. DOMAIN s \subseteq DOMAIN r /\ Len(s) + 1 \in DOMAIN r
  BY <1>1
<1>4. Ids(r) = Ids(s) \cup {t.id}
  BY <1>1, <1>2, <1>3 DEF Ids
<1> QED BY <1>1, <1>4 DEF r

LEMMA ConcatIs ==
  ASSUME NEW S, NEW s \in Seq(S), NEW t \in Seq(S)
  PROVE  s \o t \in Seq(S) /\ Ids(s \o t) = Ids(s) \cup Ids(t)
<1> DEFINE r == s \o t
<1>1. /\ r \in Seq(S) /\ Len(s) \in Nat /\ Len(t) \in Nat
      /\ DOMAIN s = 1..Len(s) /\ DOMAIN t = 1..Len(t) /\ DOMAIN r = 1..(Len(s) + Len(t))
      /\ \A i \in 1..(Len(s) + Len(t)) : r[i] = IF i <= Len(s) THEN s[i] ELSE t[i - Len(s)]
  OBVIOUS
<1> HIDE DEF r
<1>2. \A i \in DOMAIN r : (i \in DOMAIN s /\ r[i] = s[i])
                           \/ (i - Len(s) \in DOMAIN t /\ r[i] = t[i - Len(s)])
  BY <1>1
<1>3. \A i \in DOMAIN s : i \in DOMAIN r /\ r[i] = s[i]
  BY <1>1
<1>4. \A i \in DOMAIN t : i + Len(s) \in DOMAIN r /\ r[i + Len(s)] = t[i]
  BY <1>1
<1>5. Ids(r) = Ids(s) \cup Ids(t)
  BY <1>2, <1>3, <1>4 DEF Ids
<1> QED BY <1>1, <1>5 DEF r

\* One row is edited, and gets the id new or keeps its own.
Edited(s, l, id, new, S) ==
  /\ l = [i \in DOMAIN s |-> l[i]]
  /\ \A i \in DOMAIN s : IF s[i].id = id THEN l[i] \in S /\ l[i].id = new ELSE l[i] = s[i]

LEMMA EditIs ==
  ASSUME NEW S, NEW s \in Seq(S), NEW id \in Ids(s), NEW new, NEW l, Edited(s, l, id, new, S)
  PROVE  /\ l \in Seq(S)
         /\ new \in Ids(l)
         /\ Ids(l) \subseteq Ids(s) \cup {new} /\ Ids(s) \subseteq Ids(l) \cup {id}
         /\ new = id => Ids(l) = Ids(s)
<1> USE DEF Edited
<1>1. Len(s) \in Nat /\ DOMAIN s = 1..Len(s) /\ \A i \in DOMAIN s : s[i] \in S
  OBVIOUS
<1>2. \A i \in DOMAIN s : l[i] \in S
  BY <1>1
<1>3. l \in [1..Len(s) -> S]
  BY <1>1, <1>2
<1>4. l \in Seq(S) /\ DOMAIN l = DOMAIN s
  BY <1>1, <1>3
<1>5. Ids(l) \subseteq Ids(s) \cup {new} /\ Ids(s) \subseteq Ids(l) \cup {id}
  BY <1>4 DEF Ids
<1>6. PICK i \in DOMAIN s : s[i].id = id
  BY DEF Ids
<1>7. i \in DOMAIN l /\ l[i].id = new
  BY <1>4, <1>6
<1>8. new \in Ids(l)
  BY <1>7 DEF Ids
<1>9. new = id => Ids(l) = Ids(s)
  <2>1. new = id => \A j \in DOMAIN l : l[j].id = s[j].id
    BY <1>4
  <2> QED BY <1>4, <2>1, SameIds
<1> QED BY <1>4, <1>5, <1>8, <1>9

-----------------------------------------------------------------------------
(* What is true of the state.                                               *)

Id == {"queue", "session"} \X Nat

Rows == [id : Id, repo : Repos, status : {"none", "queued", "running"} \cup Settled,
         launched : BOOLEAN, restarted : BOOLEAN]

\* The ids that may have been seen when n numbers have been given out and W is
\* awaited: those that a launch under way will give are not among them.
Known(n, W) ==
  {id \in Id : id[2] <= n /\ \A w \in W : w.new > 0 => id # Session(w.new)}

\* The ids under which nothing is downloading.
Ended == {id \in Id : id[1] = "session" /\ id[2] \in DOMAIN jobs.at => ~Running(id[2])}

\* Rows with ids in K.  A queued row has no session, and what has settled is
\* in E: it downloads no more.
Fine(K, E) ==
  {t \in Rows : /\ t.id \in K
                /\ t.status = "queued" => t.id[1] = "queue"
                /\ NoStalls /\ t.status \in Settled => t.id \in E}

\* Ids in K that may be removed.
Gone(K, E) == {id \in K : NoStalls => id \in E}

\* The cards of a page, by the id they were made for.
IsDeck(cards, K, E) ==
  /\ DOMAIN cards \subseteq K
  /\ cards \in [DOMAIN cards -> [task : Fine(K, E), loop : {"none", "idle", "busy", "over"}]]
  /\ \A c \in DOMAIN cards : cards[c].task.id[1] = c[1]
  /\ NoStalls => \A c \in DOMAIN cards : cards[c].task.id = c

IsMemory(m) ==
  m \in [up : BOOLEAN, open : BOOLEAN, tab : BOOLEAN, cards : {m.cards}, dirty : BOOLEAN,
         due : BOOLEAN, retries : [Repos -> Nat]]

IsPage(d, K, E) ==
  /\ d \in [tasks : Seq(Fine(K, E)), tomb : SUBSET Gone(K, E), mem : {d.mem}]
  /\ Ids(d.tasks) \cap d.tomb = {}
  /\ IsMemory(d.mem)
  /\ IsDeck(d.mem.cards, K, E)

\* What launches a download, and what kills one.
Launching == {"add", "start", "replace", "again", "restall"}
Killing == {"stop", "remove", "failKill", "retryKill"}

\* All that is awaited when nobody clears.
Kinds == Launching \cup Killing \cup
         {"probe", "confirm", "stallKill", "timer", "fade", "kill", "stopAll", "status"}
         \cup {what \in {"state", "init", "open"} : ~Alone}

IsWait(w, K, E) ==
  /\ w \in [p : Pages, what : Kinds, task : Rows, card : Id, at : {"sent", "ok", "bad", "cut"},
            new : Nat, list : Seq(Fine(K, E)), ids : SUBSET Gone(K, E), k : {w.k}]
  /\ w.what # "add" => w.task \in Fine(K, E)
  /\ w.new > 0 <=> w.what \in Launching
  /\ w.at = "cut" => w.what \in Killing
  /\ w.what = "start" => w.task.id[1] = "queue"
  /\ w.what \in {"stallKill", "restall"} => w.card[1] = "session"
  /\ NoStalls =>
       /\ w.what \notin {"stallKill", "restall"}
       /\ w.what \in {"stop", "remove"} => w.card = w.task.id
       /\ w.what \in {"fade", "replace"} => w.task.id \in E
       /\ w.what \in Killing /\ w.at = "ok" => w.task.id \in E

\* A launch has a number of its own, no greater than n.
Numbered(W, n) ==
  /\ \A w \in W : w.new <= n
  /\ \A v, w \in W : v.new = w.new /\ v.new > 0 => v = w

\* What a handler has made of the page and of what is awaited.
Sane(s) ==
  /\ s \in [d : {s.d}, w : {s.w}, n : Nat]
  /\ IsPage(s.d, Known(s.n, s.w), Ended)
  /\ \A w \in s.w : IsWait(w, Known(s.n, s.w), Ended)
  /\ Numbered(s.w, s.n)

\* A session is made once, for a launch that is answered or over.
JobsAreSound ==
  /\ jobs \in [at : {jobs.at}, of : {jobs.of}, disk : {jobs.disk}]
  /\ jobs.at \in [DOMAIN jobs.at -> {"live", "stuck", "ok", "failed", "gone"}]
  /\ DOMAIN jobs.at \subseteq Nat \ {0}
  /\ \A n \in DOMAIN jobs.at : n <= ghost.n /\ \A w \in waits : w.new = n => w.at = "ok"
  /\ NoStalls => \A n \in DOMAIN jobs.at : jobs.at[n] # "stuck"

\* What the hypotheses leave of the budget.
Bounded(left) ==
  /\ left["clears"] = 0
  /\ NoStalls => left["stalls"] = 0
  /\ Alone => \A what \in Late : left[what] = 0

Counted ==
  /\ ghost \in [left : [Spendable -> Nat], n : Nat, starts : {ghost.starts},
                auto : {ghost.auto}, asked : {ghost.asked}]
  /\ Bounded(ghost.left)

\* Where one page is alone, it has removed what the server has, and what it has
\* it pushed or is going to push.
IsPushed ==
  /\ \A p \in Pages : page[p].mem.up <=> p = First
  /\ page[First].mem.open
  /\ server.removed \subseteq page[First].tomb
  /\ page[First].mem.dirty \/ Ids(page[First].tasks) \subseteq Ids(server.tasks)

IndInv ==
  /\ Counted
  /\ page \in [Pages -> {page[p] : p \in Pages}]
  /\ \A p \in Pages : IsPage(page[p], Known(ghost.n, waits), Ended)
  /\ server \in [tasks : Seq(Fine(Known(ghost.n, waits), Ended)),
                 removed : SUBSET Gone(Known(ghost.n, waits), Ended)]
  /\ \A w \in waits : IsWait(w, Known(ghost.n, waits), Ended)
  /\ Numbered(waits, ghost.n)
  /\ JobsAreSound
  /\ NoStalls => JobIsListed
  /\ Alone => IsPushed

-----------------------------------------------------------------------------
(* One part of a handler after another.                                     *)

\* From the memory m and the rows l to n and k: what the server lacks is pushed.
Pushes(m, l, n, k) ==
  /\ n.up = m.up /\ n.open = m.open
  /\ m.dirty => n.dirty
  /\ n.dirty \/ Ids(k) \subseteq Ids(l) \cup Ids(server.tasks)

\* From s a handler came to r: it forgot nothing that was awaited or removed, and
\* none of the rows that went is downloading.
Leads(s, r) ==
  /\ Sane(r)
  /\ s.w \subseteq r.w
  /\ Known(s.n, s.w) \subseteq Known(r.n, r.w)
  /\ s.d.tomb \subseteq r.d.tomb
  /\ Alone => Pushes(s.d.mem, s.d.tasks, r.d.mem, r.d.tasks)
  /\ NoStalls => Ids(s.d.tasks) \subseteq Ids(r.d.tasks) \cup Ended

LEMMA LeadsNowhere ==
  ASSUME NEW s, Sane(s)
  PROVE  Leads(s, s)
BY DEF Leads, Pushes

LEMMA LeadsOn ==
  ASSUME NEW s, NEW r, NEW q, Leads(s, r), Leads(r, q)
  PROVE  Leads(s, q)
<1>1. Alone => Pushes(s.d.mem, s.d.tasks, q.d.mem, q.d.tasks)
  BY DEF Leads, Pushes
<1> QED BY <1>1 DEF Leads

\* Sequences over more rows.
LEMMA SeqGrows ==
  ASSUME NEW S, NEW T, S \subseteq T, NEW s \in Seq(S)
  PROVE  s \in Seq(T)
<1>1. Len(s) \in Nat /\ s \in [1..Len(s) -> S]
  OBVIOUS
<1>2. s \in [1..Len(s) -> T]
  BY <1>1
<1> QED BY <1>1, <1>2

\* What is sound stays so when more ids are known and more sessions have ended.
LEMMA Grows ==
  ASSUME NEW K, NEW E, NEW L, NEW F, K \subseteq L, K \cap E \subseteq F
  PROVE  /\ Fine(K, E) \subseteq Fine(L, F)
         /\ Gone(K, E) \subseteq Gone(L, F)
         /\ \A l \in Seq(Fine(K, E)) : l \in Seq(Fine(L, F))
         /\ \A d : IsPage(d, K, E) => IsPage(d, L, F)
         /\ \A w : IsWait(w, K, E) /\ w.what = "add" => IsWait(w, L, F)
         /\ \A w : IsWait(w, K, E) /\ w.task.id \in K => IsWait(w, L, F)
<1>1. Fine(K, E) \subseteq Fine(L, F) /\ Gone(K, E) \subseteq Gone(L, F)
  BY DEF Fine, Gone
<1>2. \A l \in Seq(Fine(K, E)) : l \in Seq(Fine(L, F))
  BY <1>1, SeqGrows
<1>3. ASSUME NEW d, IsPage(d, K, E) PROVE IsPage(d, L, F)
  <2>1. IsDeck(d.mem.cards, L, F)
    BY <1>1, <1>3 DEF IsPage, IsDeck
  <2>2. d \in [tasks : Seq(Fine(L, F)), tomb : SUBSET Gone(L, F), mem : {d.mem}]
    BY <1>1, <1>2, <1>3 DEF IsPage
  <2> QED BY <1>3, <2>1, <2>2 DEF IsPage
<1>4. ASSUME NEW w, IsWait(w, K, E), w.what = "add" \/ w.task.id \in K PROVE IsWait(w, L, F)
  <2>1. w \in [p : Pages, what : Kinds, task : Rows, card : Id,
               at : {"sent", "ok", "bad", "cut"}, new : Nat, list : Seq(Fine(L, F)),
               ids : SUBSET Gone(L, F), k : {w.k}]
    BY <1>1, <1>2, <1>4 DEF IsWait
  <2>2. w.what # "add" => w.task \in Fine(L, F) /\ w.task.id \in K
    BY <1>1, <1>4 DEF IsWait
  <2>3. w.task.id \in E => w.task.id \in F \/ w.what = "add"
    BY <1>4, <2>2
  <2> QED BY <1>4, <2>1, <2>2, <2>3 DEF IsWait, Killing
<1> QED BY <1>1, <1>2, <1>3, <1>4

LEMMA PageGrows ==
  ASSUME NEW K, NEW E, NEW L, NEW F, K \subseteq L, K \cap E \subseteq F, NEW d, IsPage(d, K, E)
  PROVE  IsPage(d, L, F)
BY Grows

LEMMA WaitGrows ==
  ASSUME NEW K, NEW E, NEW L, NEW F, K \subseteq L, K \cap E \subseteq F, NEW w, IsWait(w, K, E)
  PROVE  IsWait(w, L, F)
<1>1. w.what = "add" \/ w.task.id \in K
  BY DEF IsWait, Fine
<1> QED BY <1>1, Grows

\* A handler that awaits nothing new.
LEMMA LeadsQuietly ==
  ASSUME NEW s, Sane(s), NEW r, r \in [d : {r.d}, w : {s.w}, n : {s.n}],
         IsPage(r.d, Known(s.n, s.w), Ended), s.d.tomb \subseteq r.d.tomb,
         Alone => Pushes(s.d.mem, s.d.tasks, r.d.mem, r.d.tasks),
         NoStalls => Ids(s.d.tasks) \subseteq Ids(r.d.tasks) \cup Ended
  PROVE  Leads(s, r)
<1>1. r.w = s.w /\ r.n = s.n /\ s.n \in Nat
  BY DEF Sane
<1>2. r \in [d : {r.d}, w : {r.w}, n : Nat]
  BY <1>1
<1>3. Sane(r)
  BY <1>1, <1>2 DEF Sane
<1> QED BY <1>1, <1>3 DEF Leads

\* A handler that awaits more.
LEMMA LeadsToWaits ==
  ASSUME NEW s, Sane(s), NEW X, NEW m \in Nat, NEW r,
         r \in [d : {s.d}, w : {s.w \cup X}, n : {s.n + m}],
         \A x \in X : /\ IsWait(x, Known(s.n, s.w), Ended)
                      /\ x.new = 0 \/ (x.new > s.n /\ x.new <= s.n + m),
         \A x, y \in X : x.new = y.new /\ x.new > 0 => x = y
  PROVE  Leads(s, r)
<1>1. r.d = s.d /\ r.w = s.w \cup X /\ r.n = s.n + m /\ s.n \in Nat
  BY DEF Sane
<1> DEFINE K == Known(s.n, s.w)
           L == Known(r.n, r.w)
<1>2. \A x \in X : x.new \in Nat
  BY DEF IsWait
<1>3. K \subseteq L
  <2> SUFFICES ASSUME NEW id \in K PROVE id \in L
    OBVIOUS
  <2>1. /\ id \in Id /\ id[2] \in Nat /\ id[2] <= s.n
        /\ \A w \in s.w : w.new > 0 => id # Session(w.new)
    BY DEF Known, Id
  <2>2. \A x \in X : x.new > 0 => id # Session(x.new)
    BY <1>1, <1>2, <2>1 DEF Session
  <2>3. id[2] <= s.n + m
    BY <1>1, <2>1
  <2> QED BY <1>1, <2>1, <2>2, <2>3 DEF Known
<1>4. IsPage(r.d, L, Ended)
  <2>1. IsPage(s.d, K, Ended) /\ K \cap Ended \subseteq Ended
    BY DEF Sane
  <2> HIDE DEF K, L
  <2>2. IsPage(s.d, L, Ended)
    BY <1>3, <2>1, PageGrows
  <2> QED BY <1>1, <2>2
<1>5. \A w \in r.w : IsWait(w, L, Ended)
  <2> SUFFICES ASSUME NEW w \in r.w PROVE IsWait(w, L, Ended)
    OBVIOUS
  <2>1. IsWait(w, K, Ended)
    BY <1>1 DEF Sane
  <2>2. K \cap Ended \subseteq Ended
    OBVIOUS
  <2> HIDE DEF K, L
  <2> QED BY <1>3, <2>1, <2>2, WaitGrows
<1>6. Numbered(r.w, r.n)
  <2>1. \A w \in s.w : w.new \in Nat /\ w.new <= s.n
    BY DEF Sane, IsWait, Numbered
  <2>2. \A w \in r.w : w.new <= r.n
    BY <1>1, <1>2, <2>1
  <2>3. \A v, w \in r.w : v.new = w.new /\ v.new > 0 => v = w
    <3> SUFFICES ASSUME NEW v \in r.w, NEW w \in r.w, v.new = w.new, v.new > 0 PROVE v = w
      OBVIOUS
    <3>1. CASE v \in s.w /\ w \in s.w
      BY <3>1 DEF Sane, Numbered
    <3>2. CASE v \in X /\ w \in X
      BY <3>2
    <3>3. ~(v \in s.w /\ w \in X \ s.w) /\ ~(w \in s.w /\ v \in X \ s.w)
      BY <1>1, <1>2, <2>1
    <3> QED BY <1>1, <3>1, <3>2, <3>3
  <2> QED BY <2>2, <2>3 DEF Numbered
<1>7. r \in [d : {r.d}, w : {r.w}, n : Nat]
  BY <1>1
<1>8. Alone => Pushes(s.d.mem, s.d.tasks, r.d.mem, r.d.tasks)
  BY <1>1 DEF Pushes
<1> QED BY <1>1, <1>3, <1>4, <1>5, <1>6, <1>7, <1>8 DEF Leads, Sane

-----------------------------------------------------------------------------
(* The rows and cards of a page.                                            *)

\* What Sane says of the page.
LEMMA PageIs ==
  ASSUME NEW s, Sane(s)
  PROVE  /\ s.d.tasks \in Seq(Fine(Known(s.n, s.w), Ended))
         /\ s.d.tomb \in SUBSET Gone(Known(s.n, s.w), Ended)
         /\ Ids(s.d.tasks) \cap s.d.tomb = {}
         /\ IsMemory(s.d.mem)
         /\ IsDeck(s.d.mem.cards, Known(s.n, s.w), Ended)
         /\ s.d \in [tasks : {s.d.tasks}, tomb : {s.d.tomb}, mem : {s.d.mem}]
         /\ s \in [d : {s.d}, w : {s.w}, n : Nat]
<1>1. s.d \in [tasks : Seq(Fine(Known(s.n, s.w), Ended)),
               tomb : SUBSET Gone(Known(s.n, s.w), Ended), mem : {s.d.mem}]
  BY DEF Sane, IsPage
<1> QED BY <1>1 DEF Sane, IsPage

\* Another page for the same waits.
LEMMA PageChanges ==
  ASSUME NEW s, Sane(s), NEW tasks \in Seq(Fine(Known(s.n, s.w), Ended)),
         NEW tomb \in SUBSET Gone(Known(s.n, s.w), Ended), NEW mem, IsMemory(mem),
         IsDeck(mem.cards, Known(s.n, s.w), Ended),
         NEW r, r \in [d : [tasks : {tasks}, tomb : {tomb}, mem : {mem}], w : {s.w}, n : {s.n}],
         s.d.tomb \subseteq tomb, Ids(tasks) \cap tomb \subseteq Ids(s.d.tasks) \cap s.d.tomb,
         Alone => Pushes(s.d.mem, s.d.tasks, mem, tasks),
         NoStalls => Ids(s.d.tasks) \subseteq Ids(tasks) \cup Ended
  PROVE  Leads(s, r)
<1>1. r.d \in [tasks : {tasks}, tomb : {tomb}, mem : {mem}]
  OBVIOUS
<1>2. r.d.tasks = tasks /\ r.d.tomb = tomb /\ r.d.mem = mem
  BY <1>1
<1>3. r.d \in [tasks : Seq(Fine(Known(s.n, s.w), Ended)),
               tomb : SUBSET Gone(Known(s.n, s.w), Ended), mem : {r.d.mem}]
  BY <1>1
<1>4. IsPage(r.d, Known(s.n, s.w), Ended)
  BY <1>2, <1>3, PageIs DEF IsPage
<1>5. r \in [d : {r.d}, w : {s.w}, n : {s.n}]
  OBVIOUS
<1> QED BY <1>2, <1>4, <1>5, LeadsQuietly

LEMMA RowIs ==
  ASSUME NEW S, NEW s \in Seq(S), NEW id \in Ids(s)
  PROVE  Row(s, id) \in S /\ Row(s, id).id = id
<1>1. \E i \in DOMAIN s : s[i].id = id
  BY DEF Ids
<1>2. \A i \in DOMAIN s : s[i] \in S
  OBVIOUS
<1> QED BY <1>1, <1>2 DEF Row

\* The ids of sound rows are known.
LEMMA IdsKnown ==
  ASSUME NEW K, NEW E, NEW l \in Seq(Fine(K, E))
  PROVE  Ids(l) \subseteq K
<1>1. \A i \in DOMAIN l : l[i] \in Fine(K, E)
  OBVIOUS
<1> QED BY <1>1 DEF Ids, Fine

\* _saveTasks of rows that were there, without such as are downloading.
LEMMA SaveTasksLeads ==
  ASSUME NEW s, Sane(s), NEW l \in Seq(Fine(Known(s.n, s.w), Ended)),
         Ids(l) \cap s.d.tomb \subseteq Ids(s.d.tasks),
         NoStalls => Ids(s.d.tasks) \subseteq Ids(l) \cup Ended
  PROVE  LET r == SaveTasks(s, l)
         IN  /\ Leads(s, r)
             /\ r.d.tasks = l /\ r.d.tomb = s.d.tomb /\ r.d.mem.cards = s.d.mem.cards
             /\ r.w = s.w /\ r.n = s.n
<1> DEFINE r == SaveTasks(s, l)
           mem == [s.d.mem EXCEPT !.dirty = TRUE, !.due = TRUE]
<1>1. /\ s.d \in [tasks : {s.d.tasks}, tomb : {s.d.tomb}, mem : {s.d.mem}]
      /\ s \in [d : {s.d}, w : {s.w}, n : Nat] /\ IsMemory(s.d.mem)
      /\ IsDeck(s.d.mem.cards, Known(s.n, s.w), Ended)
      /\ s.d.tomb \in SUBSET Gone(Known(s.n, s.w), Ended)
  BY PageIs
<1>2. r \in [d : [tasks : {l}, tomb : {s.d.tomb}, mem : {mem}], w : {s.w}, n : {s.n}]
  BY <1>1 DEF SaveTasks
<1>3. IsMemory(mem) /\ mem.cards = s.d.mem.cards /\ Pushes(s.d.mem, s.d.tasks, mem, l)
  BY <1>1 DEF IsMemory, Pushes
<1>4. r.d.tasks = l /\ r.d.tomb = s.d.tomb /\ r.d.mem = mem /\ r.w = s.w /\ r.n = s.n
  <2>1. r.d \in [tasks : {l}, tomb : {s.d.tomb}, mem : {mem}] /\ r.w = s.w /\ r.n = s.n
    BY <1>2
  <2> HIDE DEF r, mem
  <2> QED BY <2>1
<1> HIDE DEF r, mem
<1>5. Leads(s, r)
  BY <1>1, <1>2, <1>3, PageChanges
<1> QED BY <1>3, <1>4, <1>5 DEF r

\* _loadPrunedTasks: only queued rows go.
LEMMA LoadPrunedLeads ==
  ASSUME NEW s, Sane(s)
  PROVE  LET r == LoadPruned(s)
         IN  /\ Leads(s, r)
             /\ Ids(r.d.tasks) \subseteq Ids(s.d.tasks)
             /\ Ids(s.d.tasks) \subseteq Ids(r.d.tasks) \cup Ended
             /\ r.d.tomb = s.d.tomb /\ r.d.mem.cards = s.d.mem.cards
             /\ r.w = s.w /\ r.n = s.n
<1> DEFINE l == s.d.tasks
           I == {i \in DOMAIN l :
                    \/ l[i].status # "queued"
                    \/ \A j \in DOMAIN l \ {i} :
                            l[j].repo = l[i].repo => l[j].status = "queued" /\ j > i}
           t == PruneQueuedDownloadDuplicates(l)
           K == Known(s.n, s.w)
<1>1. l \in Seq(Fine(K, Ended))
  BY PageIs
<1>2. t = Only(l, I)
  BY DEF PruneQueuedDownloadDuplicates
<1>3. I \in SUBSET DOMAIN l /\ \A i \in DOMAIN l \ I : l[i].status = "queued"
  OBVIOUS
<1> HIDE DEF I, K
<1>4. /\ t \in Seq(Fine(K, Ended))
      /\ \A k \in DOMAIN t : \E i \in I : t[k] = l[i]
      /\ \A i \in I : \E k \in DOMAIN t : t[k] = l[i]
  BY <1>1, <1>2, <1>3, OnlyIs
<1>5. \A i \in DOMAIN l : l[i] \in Fine(K, Ended)
  BY <1>1
<1> HIDE DEF t, l
<1>6. Ids(t) \subseteq Ids(l)
  BY <1>3, <1>4 DEF Ids
<1>7. Ids(l) \subseteq Ids(t) \cup Ended
  <2> SUFFICES ASSUME NEW i \in DOMAIN l, i \notin I PROVE l[i].id \in Ended
    BY <1>4 DEF Ids
  <2>1. l[i].id[1] = "queue" /\ l[i].id \in Id
    BY <1>3, <1>5 DEF Fine, Rows
  <2> QED BY <2>1 DEF Ended
<1>8. CASE t = l
  BY <1>6, <1>7, <1>8, LeadsNowhere DEF LoadPruned, t, l
<1>9. CASE t # l
  <2>1. LoadPruned(s) = SaveTasks(s, t)
    BY <1>9 DEF LoadPruned, t, l
  <2>2. Ids(t) \cap s.d.tomb \subseteq Ids(s.d.tasks) /\ Ids(s.d.tasks) \subseteq Ids(t) \cup Ended
    BY <1>6, <1>7 DEF l
  <2>3. t \in Seq(Fine(Known(s.n, s.w), Ended))
    BY <1>4 DEF K
  <2> DEFINE r == SaveTasks(s, t)
  <2>4. /\ Leads(s, r) /\ r.d.tasks = t /\ r.d.tomb = s.d.tomb
        /\ r.d.mem.cards = s.d.mem.cards /\ r.w = s.w /\ r.n = s.n
    BY <2>2, <2>3, SaveTasksLeads
  <2> HIDE DEF r
  <2>5. LoadPruned(s) = r
    BY <2>1 DEF r
  <2> QED BY <1>6, <1>7, <2>4, <2>5 DEF l
<1> QED BY <1>8, <1>9

\* _renderRunningTab: the cards are those of the rows.
LEMMA RenderLeads ==
  ASSUME NEW s, Sane(s)
  PROVE  LET r == RenderRunningTab(s)
         IN  /\ Leads(s, r)
             /\ Ids(r.d.tasks) \subseteq Ids(s.d.tasks)
             /\ Ids(s.d.tasks) \subseteq Ids(r.d.tasks) \cup Ended
             /\ r.d.tomb = s.d.tomb /\ r.w = s.w /\ r.n = s.n
<1> DEFINE q == LoadPruned(s)
           m == q.d.mem
           K == Known(q.n, q.w)
           cards == [id \in Ids(q.d.tasks) |->
                        IF id \in DOMAIN m.cards THEN m.cards[id]
                        ELSE [task |-> Row(q.d.tasks, id),
                              loop |-> IF Visible(m) THEN "idle" ELSE "none"]]
           mem == [m EXCEPT !.tab = @ /\ q.d.tasks # <<>>, !.cards = cards]
           r == RenderRunningTab(s)
<1>1. /\ Leads(s, q)
      /\ Ids(q.d.tasks) \subseteq Ids(s.d.tasks)
      /\ Ids(s.d.tasks) \subseteq Ids(q.d.tasks) \cup Ended
      /\ q.d.tomb = s.d.tomb /\ q.w = s.w /\ q.n = s.n
  BY LoadPrunedLeads
<1>2. Sane(q)
  BY <1>1 DEF Leads
<1>r. r = [q EXCEPT !.d.mem.tab = @ /\ q.d.tasks # <<>>, !.d.mem.cards = cards]
  BY DEF RenderRunningTab
<1> HIDE DEF q, r
<1>3. /\ q.d.tasks \in Seq(Fine(K, Ended)) /\ q.d.tomb \in SUBSET Gone(K, Ended)
      /\ IsMemory(m) /\ IsDeck(m.cards, K, Ended)
      /\ q.d \in [tasks : {q.d.tasks}, tomb : {q.d.tomb}, mem : {m}]
      /\ q \in [d : {q.d}, w : {q.w}, n : Nat]
  BY <1>2, PageIs
<1>4. IsDeck(cards, K, Ended)
  <2>1. Ids(q.d.tasks) \subseteq K
    BY <1>3, IdsKnown
  <2>2. \A id \in Ids(q.d.tasks) : /\ Row(q.d.tasks, id) \in Fine(K, Ended)
                                   /\ Row(q.d.tasks, id).id = id
    BY <1>3, RowIs
  <2> DEFINE Cards == [task : Fine(K, Ended), loop : {"none", "idle", "busy", "over"}]
  <2>3. \A id \in DOMAIN m.cards : m.cards[id] \in Cards
    BY <1>3 DEF IsDeck
  <2> HIDE DEF K
  <2>4. \A id \in Ids(q.d.tasks) : cards[id] \in Cards
    BY <2>2, <2>3
  <2>5. \A id \in Ids(q.d.tasks) : /\ NoStalls => cards[id].task.id = id
                                   /\ cards[id].task.id[1] = id[1]
    BY <1>3, <2>2 DEF IsDeck
  <2>6. cards \in [Ids(q.d.tasks) -> Cards] /\ DOMAIN cards = Ids(q.d.tasks)
    BY <2>4
  <2> HIDE DEF cards
  <2> QED BY <2>1, <2>5, <2>6 DEF IsDeck
<1> HIDE DEF cards
<1>5. (m.tab /\ q.d.tasks # <<>>) \in BOOLEAN
  BY Zenon
<1>6. /\ IsMemory(mem) /\ mem.cards = cards
      /\ Pushes(m, q.d.tasks, mem, q.d.tasks)
  BY <1>3, <1>5 DEF IsMemory, Pushes
<1>7. r \in [d : [tasks : {q.d.tasks}, tomb : {q.d.tomb}, mem : {mem}], w : {q.w}, n : {q.n}]
  BY <1>3, <1>r DEF IsMemory
<1>8. r.d.tasks = q.d.tasks /\ r.d.tomb = q.d.tomb /\ r.w = q.w /\ r.n = q.n
  <2> HIDE DEF mem
  <2>1. r.d \in [tasks : {q.d.tasks}, tomb : {q.d.tomb}, mem : {mem}] /\ r.w = q.w /\ r.n = q.n
    BY <1>7
  <2> QED BY <2>1
<1> HIDE DEF mem
<1>9. Leads(q, r)
  BY <1>2, <1>3, <1>4, <1>6, <1>7, PageChanges
<1>10. Leads(s, r)
  BY <1>1, <1>9, LeadsOn
<1> QED BY <1>1, <1>8, <1>10 DEF r

\* _updateTask: the row id is edited, and may get the id new.
Updated(s, id, l) == IF id \in Ids(s.d.tasks) THEN SaveTasks(s, l) ELSE s

\* A new id takes the place of one under which nothing is downloading.
MayBecome(s, id, new) == new # id => new \notin s.d.tomb /\ (NoStalls => id \in Ended)

\* From s to r in the list only, where new is if id was there.
Rewrites(s, r, id, new) ==
  /\ Leads(s, r)
  /\ r.d.tomb = s.d.tomb /\ r.d.mem.cards = s.d.mem.cards
  /\ r.w = s.w /\ r.n = s.n
  /\ id \in Ids(s.d.tasks) => new \in Ids(r.d.tasks)

LEMMA UpdateLeads ==
  ASSUME NEW s, Sane(s), NEW id, NEW new, MayBecome(s, id, new),
         NEW l, Edited(s.d.tasks, l, id, new, Fine(Known(s.n, s.w), Ended))
  PROVE  Rewrites(s, Updated(s, id, l), id, new)
<1> USE DEF MayBecome, Rewrites
<1> DEFINE r == Updated(s, id, l)
           K == Known(s.n, s.w)
<1>1. CASE id \notin Ids(s.d.tasks)
  BY <1>1, LeadsNowhere DEF Updated
<1>2. CASE id \in Ids(s.d.tasks)
  <2> DEFINE k == s.d.tasks
             S == Fine(K, Ended)
  <2>1. k \in Seq(S)
    BY PageIs
  <2>2. id \in Ids(k)
    BY <1>2
  <2>3. Edited(k, l, id, new, S)
    OBVIOUS
  <2> HIDE DEF k, S
  <2>4. /\ l \in Seq(S)
        /\ new \in Ids(l)
        /\ Ids(l) \subseteq Ids(k) \cup {new} /\ Ids(k) \subseteq Ids(l) \cup {id}
        /\ new = id => Ids(l) = Ids(k)
    BY ONLY <2>1, <2>2, <2>3, EditIs
  <2>6. l \in Seq(Fine(K, Ended))
    BY <2>4 DEF S
  <2>7. Ids(l) \subseteq Ids(s.d.tasks) \cup {new} /\ Ids(s.d.tasks) \subseteq Ids(l) \cup {id}
    BY <2>4 DEF k
  <2>8. new \in Ids(l) /\ (new = id => Ids(l) = Ids(s.d.tasks))
    BY <2>4 DEF k
  <2>9. Ids(l) \cap s.d.tomb \subseteq Ids(s.d.tasks)
    BY <2>7, <2>8
  <2>10. NoStalls => Ids(s.d.tasks) \subseteq Ids(l) \cup Ended
    BY <2>7, <2>8
  <2> DEFINE q == SaveTasks(s, l)
  <2>11. /\ Leads(s, q) /\ q.d.tasks = l /\ q.d.tomb = s.d.tomb
         /\ q.d.mem.cards = s.d.mem.cards /\ q.w = s.w /\ q.n = s.n
    BY <2>6, <2>9, <2>10, SaveTasksLeads DEF K
  <2> HIDE DEF q
  <2>12. r = q
    BY <1>2 DEF q, Updated
  <2> QED BY <2>8, <2>11, <2>12
<1> QED BY <1>1, <1>2

\* What a row may be set to: what has settled runs no more.
LEMMA SetStatusLeads ==
  ASSUME NEW s, Sane(s), NEW id, NEW status \in {"running"} \cup Settled,
         NoStalls /\ status \in Settled => id \in Ended
  PROVE  LET r == SetStatus(s, id, status)
         IN  /\ Leads(s, r)
             /\ r.d.tomb = s.d.tomb /\ r.d.mem.cards = s.d.mem.cards
             /\ r.w = s.w /\ r.n = s.n
<1> DEFINE l == [i \in DOMAIN s.d.tasks |->
                    IF s.d.tasks[i].id = id THEN [s.d.tasks[i] EXCEPT !.status = status]
                    ELSE s.d.tasks[i]]
           K == Known(s.n, s.w)
<1>1. SetStatus(s, id, status) = Updated(s, id, l)
  BY DEF SetStatus, UpdateTask, Edit, Updated
<1>2. \A i \in DOMAIN s.d.tasks : s.d.tasks[i] \in Fine(K, Ended)
  BY PageIs
<1> HIDE DEF K
<1>3. \A i \in DOMAIN s.d.tasks :
        IF s.d.tasks[i].id = id
        THEN l[i] \in Fine(K, Ended) /\ l[i].id = id
        ELSE l[i] = s.d.tasks[i]
  <2> SUFFICES ASSUME NEW i \in DOMAIN s.d.tasks, s.d.tasks[i].id = id
               PROVE  l[i] \in Fine(K, Ended) /\ l[i].id = id
    OBVIOUS
  <2> DEFINE t == s.d.tasks[i]
             u == [t EXCEPT !.status = status]
  <2>1. l[i] = u
    OBVIOUS
  <2>2. t \in Fine(K, Ended) /\ t.id = id
    BY <1>2
  <2> HIDE DEF t
  <2>3. u \in Rows /\ u.id = id /\ u.status = status
    BY <2>2 DEF Fine, Rows
  <2> HIDE DEF u
  <2>4. u \in Fine(K, Ended)
    BY <2>2, <2>3 DEF Fine, Settled
  <2> HIDE DEF l
  <2> QED BY <2>1, <2>3, <2>4
<1>4. l = [i \in DOMAIN s.d.tasks |-> l[i]]
  OBVIOUS
<1> HIDE DEF l
<1>5. Edited(s.d.tasks, l, id, id, Fine(Known(s.n, s.w), Ended))
  BY <1>3, <1>4 DEF Edited, K
<1> DEFINE r == Updated(s, id, l)
<1>6. MayBecome(s, id, id)
  BY DEF MayBecome
<1>7. Rewrites(s, r, id, id)
  BY <1>5, <1>6, UpdateLeads
<1> HIDE DEF r
<1> QED BY <1>1, <1>7 DEF r, Rewrites

\* _removeTask of a row that downloads no more.
LEMMA RemoveTaskLeads ==
  ASSUME NEW s, Sane(s), NEW id \in Gone(Known(s.n, s.w), Ended)
  PROVE  LET r == RemoveTask(s, id)
         IN  Leads(s, r) /\ r.w = s.w /\ r.n = s.n
<1> DEFINE l == Without(s.d.tasks, {id})
           tomb == s.d.tomb \cup {id}
           mem == [s.d.mem EXCEPT !.dirty = TRUE, !.due = TRUE]
           b == SaveTasks([s EXCEPT !.d.tomb = @ \cup {id}], l)
           r == RenderRunningTab(b)
           K == Known(s.n, s.w)
<1>0. RemoveTask(s, id) = r
  BY DEF RemoveTask
<1>1. /\ s.d.tasks \in Seq(Fine(K, Ended)) /\ s.d.tomb \in SUBSET Gone(K, Ended)
      /\ Ids(s.d.tasks) \cap s.d.tomb = {}
      /\ IsMemory(s.d.mem) /\ IsDeck(s.d.mem.cards, K, Ended)
      /\ s.d \in [tasks : {s.d.tasks}, tomb : {s.d.tomb}, mem : {s.d.mem}]
      /\ s \in [d : {s.d}, w : {s.w}, n : Nat]
  BY PageIs
<1>2. l \in Seq(Fine(K, Ended)) /\ Ids(l) = Ids(s.d.tasks) \ {id}
  BY <1>1, WithoutIs
<1>3. NoStalls => id \in Ended
  BY DEF Gone
<1>4. b \in [d : [tasks : {l}, tomb : {tomb}, mem : {mem}], w : {s.w}, n : {s.n}]
  BY <1>1 DEF SaveTasks
<1>5. IsMemory(mem) /\ mem.cards = s.d.mem.cards /\ Pushes(s.d.mem, s.d.tasks, mem, l)
  BY <1>1 DEF IsMemory, Pushes
<1>6. tomb \in SUBSET Gone(K, Ended) /\ s.d.tomb \subseteq tomb /\ Ids(l) \cap tomb = {}
  BY <1>1, <1>2
<1> HIDE DEF l, tomb, mem, b, r
<1>a. /\ IsDeck(mem.cards, Known(s.n, s.w), Ended) /\ Ids(l) \cap tomb \subseteq Ids(s.d.tasks)
      /\ NoStalls => Ids(s.d.tasks) \subseteq Ids(l) \cup Ended
  BY <1>1, <1>2, <1>3, <1>5, <1>6
<1>b. Leads(s, b)
  BY <1>2, <1>4, <1>5, <1>6, <1>a, PageChanges
<1>7. Leads(s, b) /\ b.w = s.w /\ b.n = s.n
  BY <1>4, <1>b
<1>8. Leads(b, r) /\ r.w = b.w /\ r.n = b.n
  <2>1. Sane(b)
    BY <1>7 DEF Leads
  <2> QED BY <2>1, RenderLeads DEF r
<1>9. Leads(s, r)
  BY <1>7, <1>8, LeadsOn
<1> QED BY <1>0, <1>7, <1>8, <1>9

-----------------------------------------------------------------------------
(* What a handler does to the memory of the page, and what it awaits.       *)

\* Another memory for the same list.
LEMMA MemoryLeads ==
  ASSUME NEW s, Sane(s), NEW mem, IsMemory(mem), IsDeck(mem.cards, Known(s.n, s.w), Ended),
         Alone => Pushes(s.d.mem, <<>>, mem, <<>>), NEW r,
         r \in [d : [tasks : {s.d.tasks}, tomb : {s.d.tomb}, mem : {mem}], w : {s.w}, n : {s.n}]
  PROVE  /\ Leads(s, r)
         /\ r.d.tasks = s.d.tasks /\ r.d.tomb = s.d.tomb /\ r.d.mem = mem
         /\ r.w = s.w /\ r.n = s.n
<1>1. s.d.tasks \in Seq(Fine(Known(s.n, s.w), Ended))
      /\ s.d.tomb \in SUBSET Gone(Known(s.n, s.w), Ended)
  BY PageIs
<1>2. r.d \in [tasks : {s.d.tasks}, tomb : {s.d.tomb}, mem : {mem}] /\ r.w = s.w /\ r.n = s.n
  OBVIOUS
<1>3. r.d.tasks = s.d.tasks /\ r.d.tomb = s.d.tomb /\ r.d.mem = mem
  BY <1>2
<1>4. Alone => Pushes(s.d.mem, s.d.tasks, mem, s.d.tasks)
  BY DEF Pushes
<1>5. Leads(s, r)
  BY <1>1, <1>4, PageChanges
<1> QED BY <1>2, <1>3, <1>5

\* Other cards.
LEMMA CardsLead ==
  ASSUME NEW s, Sane(s), NEW cards, IsDeck(cards, Known(s.n, s.w), Ended)
  PROVE  LET r == [s EXCEPT !.d.mem.cards = cards]
         IN  /\ Leads(s, r)
             /\ r.d.tasks = s.d.tasks /\ r.d.tomb = s.d.tomb /\ r.d.mem.cards = cards
             /\ r.d.mem \in [up : {s.d.mem.up}, open : {s.d.mem.open}, tab : {s.d.mem.tab},
                             cards : {cards}, dirty : {s.d.mem.dirty},
                             due : {s.d.mem.due}, retries : {s.d.mem.retries}]
             /\ r.w = s.w /\ r.n = s.n
<1> DEFINE mem == [s.d.mem EXCEPT !.cards = cards]
           r == [s EXCEPT !.d.mem.cards = cards]
<1>1. /\ IsMemory(s.d.mem)
      /\ s.d \in [tasks : {s.d.tasks}, tomb : {s.d.tomb}, mem : {s.d.mem}]
      /\ s \in [d : {s.d}, w : {s.w}, n : Nat]
  BY PageIs
<1>2. IsMemory(mem) /\ mem.cards = cards /\ Pushes(s.d.mem, <<>>, mem, <<>>)
  BY <1>1 DEF IsMemory, Pushes, Ids
<1>3. mem \in [up : {s.d.mem.up}, open : {s.d.mem.open}, tab : {s.d.mem.tab},
               cards : {cards}, dirty : {s.d.mem.dirty}, due : {s.d.mem.due},
               retries : {s.d.mem.retries}]
  BY <1>1 DEF IsMemory
<1>4. r \in [d : [tasks : {s.d.tasks}, tomb : {s.d.tomb}, mem : {mem}], w : {s.w}, n : {s.n}]
  BY <1>1
<1> HIDE DEF r, mem
<1>5. /\ Leads(s, r)
      /\ r.d.tasks = s.d.tasks /\ r.d.tomb = s.d.tomb /\ r.d.mem = mem
      /\ r.w = s.w /\ r.n = s.n
  BY <1>2, <1>4, MemoryLeads
<1> QED BY <1>2, <1>3, <1>5 DEF r

Loops == {"none", "idle", "busy", "over"}

\* Cards whose loops alone are changed.
LEMMA LoopsDeck ==
  ASSUME NEW K, NEW E, NEW cards, IsDeck(cards, K, E), NEW new,
         new = [c \in DOMAIN cards |-> new[c]],
         \A c \in DOMAIN cards : new[c] \in [task : {cards[c].task}, loop : Loops]
  PROVE  IsDeck(new, K, E)
<1> DEFINE Cards == [task : Fine(K, E), loop : Loops]
<1>1. /\ \A c \in DOMAIN cards : cards[c] \in Cards
      /\ DOMAIN cards \subseteq K
      /\ NoStalls => \A c \in DOMAIN cards : cards[c].task.id = c
      /\ \A c \in DOMAIN cards : cards[c].task.id[1] = c[1]
  BY DEF IsDeck, Loops
<1>2. \A c \in DOMAIN cards : new[c] \in Cards /\ new[c].task = cards[c].task
  BY <1>1
<1> HIDE DEF Cards
<1>3. new \in [DOMAIN cards -> Cards] /\ DOMAIN new = DOMAIN cards
  BY <1>2
<1>4. new \in [DOMAIN new -> Cards]
  BY <1>3
<1>5. /\ DOMAIN new \subseteq K /\ (NoStalls => \A c \in DOMAIN new : new[c].task.id = c)
      /\ \A c \in DOMAIN new : new[c].task.id[1] = c[1]
  BY <1>1, <1>2, <1>3
<1> QED BY <1>4, <1>5 DEF IsDeck, Cards, Loops

\* The loop of one card is set.
LEMMA LoopLeads ==
  ASSUME NEW s, Sane(s), NEW c \in DOMAIN s.d.mem.cards, NEW loop \in Loops
  PROVE  LET r == [s EXCEPT !.d.mem.cards[c].loop = loop]
         IN  /\ Leads(s, r)
             /\ r.d.tasks = s.d.tasks /\ r.d.tomb = s.d.tomb
             /\ r.w = s.w /\ r.n = s.n
             /\ DOMAIN r.d.mem.cards = DOMAIN s.d.mem.cards
             /\ \A k \in DOMAIN s.d.mem.cards : r.d.mem.cards[k].task = s.d.mem.cards[k].task
<1> DEFINE old == s.d.mem.cards
           cards == [old EXCEPT ![c].loop = loop]
           r == [s EXCEPT !.d.mem.cards[c].loop = loop]
           q == [s EXCEPT !.d.mem.cards = cards]
           K == Known(s.n, s.w)
<1>1. IsDeck(old, K, Ended)
  BY PageIs
<1>2. r = q
  OBVIOUS
<1>3. \A k \in DOMAIN old : old[k] \in [task : {old[k].task}, loop : Loops]
  BY <1>1 DEF IsDeck, Loops
<1>a. old = [k \in DOMAIN old |-> old[k]]
  BY <1>1 DEF IsDeck
<1> HIDE DEF old, r, q, K
<1>4. \A k \in DOMAIN old : cards[k] \in [task : {old[k].task}, loop : Loops]
  BY <1>3
<1>5. cards = [k \in DOMAIN old |-> cards[k]] /\ DOMAIN cards = DOMAIN old
  BY <1>a
<1> HIDE DEF cards
<1>6. IsDeck(cards, K, Ended)
  BY <1>1, <1>4, <1>5, LoopsDeck
<1>7. /\ Leads(s, q) /\ q.d.tasks = s.d.tasks /\ q.d.tomb = s.d.tomb
      /\ q.d.mem.cards = cards /\ q.w = s.w /\ q.n = s.n
  BY <1>6, CardsLead DEF q, K
<1>8. \A k \in DOMAIN old : cards[k].task = old[k].task
  BY <1>4
<1> QED BY <1>2, <1>5, <1>7, <1>8 DEF r, old

\* The loop of a card is aborted, or over.
LEMMA AbortLeads ==
  ASSUME NEW s, Sane(s), NEW c
  PROVE  LET r == Abort(s, c)
         IN  /\ Leads(s, r)
             /\ r.d.tasks = s.d.tasks /\ r.d.tomb = s.d.tomb
             /\ r.w = s.w /\ r.n = s.n
             /\ DOMAIN r.d.mem.cards = DOMAIN s.d.mem.cards
             /\ \A k \in DOMAIN s.d.mem.cards : r.d.mem.cards[k].task = s.d.mem.cards[k].task
<1>1. CASE c \notin DOMAIN s.d.mem.cards
  BY <1>1, LeadsNowhere DEF Abort
<1>2. CASE c \in DOMAIN s.d.mem.cards
  <2> DEFINE r == [s EXCEPT !.d.mem.cards[c].loop = "none"]
  <2>1. Abort(s, c) = r
    BY <1>2 DEF Abort
  <2>2. "none" \in Loops
    BY DEF Loops
  <2>3. /\ Leads(s, r)
        /\ r.d.tasks = s.d.tasks /\ r.d.tomb = s.d.tomb
        /\ r.w = s.w /\ r.n = s.n
        /\ DOMAIN r.d.mem.cards = DOMAIN s.d.mem.cards
        /\ \A k \in DOMAIN s.d.mem.cards : r.d.mem.cards[k].task = s.d.mem.cards[k].task
    BY <1>2, <2>2, LoopLeads
  <2> HIDE DEF r
  <2> QED BY <2>1, <2>3
<1> QED BY <1>1, <1>2

LEMMA OverLeads ==
  ASSUME NEW s, Sane(s), NEW c
  PROVE  LET r == Over(s, c)
         IN  /\ Leads(s, r)
             /\ r.d.tasks = s.d.tasks /\ r.d.tomb = s.d.tomb
             /\ r.w = s.w /\ r.n = s.n
<1> DEFINE old == s.d.mem.cards
           cards == [k \in DOMAIN old |-> IF k = c THEN [old[k] EXCEPT !.loop = "over"] ELSE old[k]]
           q == [s EXCEPT !.d.mem.cards = cards]
           K == Known(s.n, s.w)
<1>1. IsDeck(old, K, Ended)
  BY PageIs
<1>2. Over(s, c) = q
  BY DEF Over
<1>3. \A k \in DOMAIN old : old[k] \in [task : {old[k].task}, loop : Loops]
  BY <1>1 DEF IsDeck, Loops
<1> HIDE DEF old, q, K
<1>4. \A k \in DOMAIN old : cards[k] \in [task : {old[k].task}, loop : Loops]
  BY <1>3 DEF Loops
<1>5. cards = [k \in DOMAIN old |-> cards[k]]
  OBVIOUS
<1> HIDE DEF cards
<1>6. IsDeck(cards, K, Ended)
  BY <1>1, <1>4, <1>5, LoopsDeck
<1>7. /\ Leads(s, q) /\ q.d.tasks = s.d.tasks /\ q.d.tomb = s.d.tomb /\ q.w = s.w /\ q.n = s.n
  BY <1>6, CardsLead DEF q, K
<1> QED BY <1>2, <1>7

\* What is awaited once more is as sound.
LEMMA AnotherIs ==
  ASSUME NEW s, NEW K, NEW E, NEW w, IsWait(w, K, E)
  PROVE  IsWait(Another(s, w), K, E) /\ Another(s, w).new = w.new
<1> DEFINE like == {v \in s.w : v.p = w.p /\ v.what = w.what /\ v.task = w.task}
           n == CHOOSE n \in 0 .. Cardinality(like) : \A v \in like : v.k # n
           x == [w EXCEPT !.k = n]
           lists == Seq(Fine(K, E))
           sets == SUBSET Gone(K, E)
<1>1. Another(s, w) = x
  BY DEF Another
<1> HIDE DEF n, lists, sets
<1>2. w \in [p : Pages, what : Kinds, task : Rows, card : Id, at : {"sent", "ok", "bad", "cut"},
             new : Nat, list : lists, ids : sets, k : {w.k}]
  BY DEF IsWait, lists, sets
<1>3. x \in [p : {w.p}, what : {w.what}, task : {w.task}, card : {w.card}, at : {w.at},
             new : {w.new}, list : {w.list}, ids : {w.ids}, k : {n}]
  BY <1>2
<1>4. /\ x.p = w.p /\ x.what = w.what /\ x.task = w.task /\ x.card = w.card /\ x.at = w.at
      /\ x.new = w.new
  BY <1>3
<1> HIDE DEF x
<1>5. x \in [p : Pages, what : Kinds, task : Rows, card : Id, at : {"sent", "ok", "bad", "cut"},
             new : Nat, list : lists, ids : sets, k : {x.k}]
  BY <1>2, <1>3
<1>6. IsWait(x, K, E)
  BY <1>4, <1>5 DEF IsWait, lists, sets
<1> QED BY <1>1, <1>4, <1>6

\* What a wait needs to be sound that awaits no launch.
LEMMA AwaitLeads ==
  ASSUME NEW s, Sane(s), NEW w, IsWait(w, Known(s.n, s.w), Ended), w.new = 0
  PROVE  LET r == Await(s, w)
         IN  Leads(s, r) /\ r.d = s.d /\ r.w = s.w \cup {Another(s, w)} /\ r.n = s.n
<1> DEFINE r == Await(s, w)
           again == Another(s, w)
           X == {again}
<1>0. IsWait(again, Known(s.n, s.w), Ended) /\ again.new = 0
  BY AnotherIs
<1>1. s \in [d : {s.d}, w : {s.w}, n : Nat]
  BY DEF Sane
<1>2. r \in [d : {s.d}, w : {s.w \cup X}, n : {s.n + 0}]
  BY <1>1 DEF Await
<1> HIDE DEF r, again
<1>3. r.d = s.d /\ r.w = s.w \cup {again} /\ r.n = s.n
  BY <1>1, <1>2
<1>4. Leads(s, r)
  <2>1. \A x \in X : /\ IsWait(x, Known(s.n, s.w), Ended)
                     /\ x.new = 0 \/ (x.new > s.n /\ x.new <= s.n + 0)
    BY <1>0
  <2>2. \A x, y \in X : x.new = y.new /\ x.new > 0 => x = y
    OBVIOUS
  <2>3. 0 \in Nat
    OBVIOUS
  <2> HIDE DEF X
  <2> QED BY <1>2, <2>1, <2>2, <2>3, LeadsToWaits
<1> QED BY <1>3, <1>4 DEF r, again

\* A wait for a launch.
LEMMA LaunchIs ==
  ASSUME NEW K, NEW E, NEW p \in Pages, NEW what \in Launching, NEW t \in Rows,
         NEW card \in Id, NEW list \in Seq(Fine(K, E)), NEW ids \in SUBSET Gone(K, E),
         NEW n \in Nat \ {0},
         what # "add" => t \in Fine(K, E),
         what = "start" => t.id[1] = "queue",
         what = "restall" => card[1] = "session",
         NoStalls => what # "restall" /\ (what = "replace" => t.id \in E),
         NEW x, x \in [p : {p}, what : {what}, task : {t}, card : {card}, at : {"sent"},
                       new : {n}, list : {list}, ids : {ids}, k : {x.k}]
  PROVE  IsWait(x, K, E) /\ x.new = n
<1>1. /\ x.what = what /\ x.task = t /\ x.card = card /\ x.at = "sent" /\ x.new = n
  OBVIOUS
<1> DEFINE lists == Seq(Fine(K, E))
           sets == SUBSET Gone(K, E)
<1>2. list \in lists /\ ids \in sets
  OBVIOUS
<1>3. what \in Kinds /\ n \in Nat /\ "sent" \in {"sent", "ok", "bad", "cut"}
  BY DEF Kinds
<1> HIDE DEF lists, sets
<1>4. x \in [p : Pages, what : Kinds, task : Rows, card : Id,
             at : {"sent", "ok", "bad", "cut"}, new : Nat, list : lists, ids : sets, k : {x.k}]
  BY <1>2, <1>3
<1>5. x \in [p : Pages, what : Kinds, task : Rows, card : Id,
             at : {"sent", "ok", "bad", "cut"}, new : Nat, list : Seq(Fine(K, E)),
             ids : SUBSET Gone(K, E), k : {x.k}]
  BY <1>4 DEF lists, sets
<1>6. what \notin {"stallKill", "stop", "remove", "fade"}
  BY DEF Launching
<1>7. what \notin Killing
  BY DEF Launching, Killing
<1> HIDE DEF lists, sets
<1> QED BY <1>1, <1>5, <1>6, <1>7 DEF IsWait

\* A POST goes out under the next number.
LEMMA PostLeads ==
  ASSUME NEW s, Sane(s), NEW p \in Pages, NEW what \in {"add", "replace", "again"},
         NEW t \in Rows, what # "add" => t \in Fine(Known(s.n, s.w), Ended),
         NoStalls /\ what = "replace" => t.id \in Ended
  PROVE  LET r == Post(s, p, what, t)
         IN  Leads(s, r) /\ r.d = s.d /\ s.w \subseteq r.w
<1> DEFINE r == Post(s, p, what, t)
           x == [Wait(p, what, t) EXCEPT !.new = s.n + 1]
           X == {x}
           K == Known(s.n, s.w)
           list == <<>>
           ids == {}
           n == s.n + 1
           card == t.id
<1>1. s \in [d : {s.d}, w : {s.w}, n : Nat] /\ s.n \in Nat
  BY DEF Sane
<1>2. r \in [d : {s.d}, w : {s.w \cup X}, n : {s.n + 1}]
  BY <1>1 DEF Post
<1>3. x \in [p : {p}, what : {what}, task : {t}, card : {card}, at : {"sent"},
             new : {n}, list : {list}, ids : {ids}, k : {x.k}]
  BY DEF Wait
<1>4. /\ list \in Seq(Fine(K, Ended)) /\ ids \in SUBSET Gone(K, Ended)
      /\ n \in Nat \ {0} /\ card \in Id
  BY <1>1 DEF Rows
<1>5. /\ what \in Launching /\ what # "start" /\ what # "restall"
      /\ what # "add" => t \in Fine(K, Ended)
  BY DEF Launching
<1> HIDE DEF x, r, K, list, ids, n, card
<1>6. IsWait(x, K, Ended) /\ x.new = n
  BY <1>3, <1>4, <1>5, LaunchIs
<1>7. Leads(s, r)
  <2>1. \A v \in X : /\ IsWait(v, Known(s.n, s.w), Ended)
                     /\ v.new = 0 \/ (v.new > s.n /\ v.new <= s.n + 1)
    BY <1>1, <1>6 DEF K, n
  <2>2. \A v, y \in X : v.new = y.new /\ v.new > 0 => v = y
    OBVIOUS
  <2> HIDE DEF X
  <2> QED BY <1>2, <2>1, <2>2, LeadsToWaits
<1>8. r.d = s.d /\ s.w \subseteq r.w
  BY <1>2
<1> QED BY <1>7, <1>8 DEF r

\* A wait for no launch.
LEMMA WaitIs ==
  ASSUME NEW K, NEW E, NEW p \in Pages, NEW what \in Kinds \ Launching, NEW t \in Fine(K, E),
         NEW card \in Id, NEW list \in Seq(Fine(K, E)), NEW ids \in SUBSET Gone(K, E),
         what = "stallKill" => card[1] = "session",
         NoStalls => /\ what # "stallKill"
                     /\ what \in {"stop", "remove"} => card = t.id
                     /\ what = "fade" => t.id \in E,
         NEW x, x \in [p : {p}, what : {what}, task : {t}, card : {card}, at : {"sent"},
                       new : {0}, list : {list}, ids : {ids}, k : {x.k}]
  PROVE  IsWait(x, K, E) /\ x.new = 0
<1>1. /\ x.what = what /\ x.task = t /\ x.card = card /\ x.at = "sent" /\ x.new = 0
  OBVIOUS
<1> DEFINE lists == Seq(Fine(K, E))
           sets == SUBSET Gone(K, E)
<1>2. list \in lists /\ ids \in sets
  OBVIOUS
<1>3. what \in Kinds /\ t \in Rows /\ 0 \in Nat /\ "sent" \in {"sent", "ok", "bad", "cut"}
  BY DEF Fine
<1> HIDE DEF lists, sets
<1>4. x \in [p : Pages, what : Kinds, task : Rows, card : Id,
             at : {"sent", "ok", "bad", "cut"}, new : Nat, list : lists, ids : sets, k : {x.k}]
  BY <1>2, <1>3
<1>5. x \in [p : Pages, what : Kinds, task : Rows, card : Id,
             at : {"sent", "ok", "bad", "cut"}, new : Nat, list : Seq(Fine(K, E)),
             ids : SUBSET Gone(K, E), k : {x.k}]
  BY <1>4 DEF lists, sets
<1> HIDE DEF lists, sets
<1> QED BY <1>1, <1>5 DEF IsWait, Launching

\* Await, with a wait that remembers its row only.
LEMMA AwaitsRowLeads ==
  ASSUME NEW s, Sane(s), NEW p \in Pages, NEW what \in Kinds \ Launching,
         NEW t \in Fine(Known(s.n, s.w), Ended),
         what # "stallKill", NoStalls /\ what = "fade" => t.id \in Ended
  PROVE  LET r == Await(s, Wait(p, what, t))
         IN  Leads(s, r) /\ r.d = s.d /\ s.w \subseteq r.w /\ r.n = s.n
<1> DEFINE x == Wait(p, what, t)
<1>1. x \in [p : {p}, what : {what}, task : {t}, card : {t.id}, at : {"sent"},
             new : {0}, list : {<<>>}, ids : {{}}, k : {x.k}]
  BY DEF Wait
<1>2. /\ <<>> \in Seq(Fine(Known(s.n, s.w), Ended))
      /\ {} \in SUBSET Gone(Known(s.n, s.w), Ended)
      /\ t.id \in Id
  BY DEF Fine, Rows
<1> HIDE DEF x
<1> DEFINE r == Await(s, x)
<1> DEFINE card == t.id
           list == <<>>
           ids == {}
<1>3. /\ x \in [p : {p}, what : {what}, task : {t}, card : {card}, at : {"sent"},
               new : {0}, list : {list}, ids : {ids}, k : {x.k}]
      /\ card \in Id /\ list \in Seq(Fine(Known(s.n, s.w), Ended))
      /\ ids \in SUBSET Gone(Known(s.n, s.w), Ended)
      /\ NoStalls => /\ what # "stallKill"
                     /\ what \in {"stop", "remove"} => card = t.id
                     /\ what = "fade" => t.id \in Ended
  BY <1>1, <1>2
<1> HIDE DEF card, list, ids
<1>4. IsWait(x, Known(s.n, s.w), Ended) /\ x.new = 0
  BY <1>3, WaitIs
<1>5. Leads(s, r) /\ r.d = s.d /\ s.w \subseteq r.w /\ r.n = s.n
  BY <1>4, AwaitLeads
<1> HIDE DEF r
<1>6. Leads(s, r) /\ r.d = s.d /\ s.w \subseteq r.w /\ r.n = s.n
  BY <1>5
<1> QED BY <1>6 DEF r, x

\* Rows that are queued, or have the id id, are dropped.
LEMMA KeptIs ==
  ASSUME NEW s, Sane(s), NEW id, NEW I \in SUBSET DOMAIN s.d.tasks,
         \A i \in DOMAIN s.d.tasks \ I : s.d.tasks[i].status = "queued" \/ s.d.tasks[i].id = id
  PROVE  LET l == Only(s.d.tasks, I)
         IN  /\ l \in Seq(Fine(Known(s.n, s.w), Ended))
             /\ Ids(l) \subseteq Ids(s.d.tasks)
             /\ Ids(s.d.tasks) \subseteq Ids(l) \cup Ended \cup {id}
<1> DEFINE K == Known(s.n, s.w)
           t == s.d.tasks
           l == Only(t, I)
<1>1. t \in Seq(Fine(K, Ended))
  BY PageIs
<1> HIDE DEF K
<1>2. /\ l \in Seq(Fine(K, Ended))
      /\ \A k \in DOMAIN l : \E i \in I : l[k] = t[i]
      /\ \A i \in I : \E k \in DOMAIN l : l[k] = t[i]
  BY <1>1, OnlyIs
<1>3. \A i \in DOMAIN t : t[i] \in Fine(K, Ended)
  BY <1>1
<1> HIDE DEF l
<1>4. Ids(l) \subseteq Ids(t)
  BY <1>2 DEF Ids
<1>5. Ids(t) \subseteq Ids(l) \cup Ended \cup {id}
  <2> SUFFICES ASSUME NEW i \in DOMAIN t, i \notin I PROVE t[i].id \in Ended \cup {id}
    BY <1>2 DEF Ids
  <2>1. t[i].status = "queued" => t[i].id[1] = "queue" /\ t[i].id \in Id
    BY <1>3 DEF Fine, Rows
  <2> QED BY <2>1 DEF Ended
<1> QED BY <1>2, <1>4, <1>5 DEF l, K

\* A row that a launch makes.
LEMMA RunningIsFine ==
  ASSUME NEW K, NEW E, NEW t \in Rows, t.id \in K, t.status = "running"
  PROVE  t \in Fine(K, E)
BY DEF Fine, Settled

\* _addTask under the id a launch gave.
LEMMA AddTaskLeads ==
  ASSUME NEW s, Sane(s), NEW id \in Known(s.n, s.w), id \notin s.d.tomb, NEW repo \in Repos
  PROVE  LET r == AddTask(s, id, repo)
         IN  Leads(s, r) /\ id \in Ids(r.d.tasks) \cup Ended
<1> DEFINE I == {i \in DOMAIN s.d.tasks : LET t == s.d.tasks[i] IN
                    t.id # id /\ ~(t.repo = repo /\ t.status = "queued")}
           kept == Only(s.d.tasks, I)
           row == Task(id, repo, "running")
           l == Append(kept, row)
           a == SaveTasks(s, l)
           q == RenderRunningTab(a)
           r == [q EXCEPT !.d.mem.tab = TRUE]
           K == Known(s.n, s.w)
<1>0. AddTask(s, id, repo) = r
  BY DEF AddTask
<1>1. I \in SUBSET DOMAIN s.d.tasks
      /\ \A i \in DOMAIN s.d.tasks \ I : s.d.tasks[i].status = "queued" \/ s.d.tasks[i].id = id
  OBVIOUS
<1> HIDE DEF I, K
<1>2. /\ kept \in Seq(Fine(K, Ended))
      /\ Ids(kept) \subseteq Ids(s.d.tasks)
      /\ Ids(s.d.tasks) \subseteq Ids(kept) \cup Ended \cup {id}
  BY <1>1, KeptIs DEF K
<1>3. row \in Fine(K, Ended) /\ row.id = id
  <2>1. row \in [id : {id}, repo : {repo}, status : {"running"}, launched : {FALSE},
                 restarted : {FALSE}]
    BY DEF Task
  <2>2. id \in Id
    BY DEF Known
  <2> HIDE DEF row
  <2>3. row \in Rows /\ row.id = id /\ row.status = "running"
    BY <2>1, <2>2 DEF Rows
  <2> QED BY <2>3, RunningIsFine DEF K
<1> HIDE DEF kept, row
<1>4. l \in Seq(Fine(K, Ended)) /\ Ids(l) = Ids(kept) \cup {id}
  BY <1>2, <1>3, AppendIs
<1> HIDE DEF l
<1>5. /\ Leads(s, a) /\ a.d.tasks = l /\ a.w = s.w /\ a.n = s.n
  <2>1. l \in Seq(Fine(Known(s.n, s.w), Ended))
    BY <1>4 DEF K
  <2>2. Ids(l) \cap s.d.tomb \subseteq Ids(s.d.tasks)
    BY <1>2, <1>4
  <2>3. NoStalls => Ids(s.d.tasks) \subseteq Ids(l) \cup Ended
    BY <1>2, <1>4
  <2> QED BY <2>1, <2>2, <2>3, SaveTasksLeads
<1> HIDE DEF a
<1>6. Leads(a, q) /\ Ids(a.d.tasks) \subseteq Ids(q.d.tasks) \cup Ended
  <2>1. Sane(a)
    BY <1>5 DEF Leads
  <2> QED BY <2>1, RenderLeads
<1> HIDE DEF q
<1>7. Leads(q, r) /\ r.d.tasks = q.d.tasks
  <2>1. Sane(q)
    BY <1>6 DEF Leads
  <2>2. /\ IsMemory(q.d.mem) /\ IsDeck(q.d.mem.cards, Known(q.n, q.w), Ended)
        /\ q.d \in [tasks : {q.d.tasks}, tomb : {q.d.tomb}, mem : {q.d.mem}]
        /\ q \in [d : {q.d}, w : {q.w}, n : Nat]
    BY <2>1, PageIs
  <2> DEFINE mem == [q.d.mem EXCEPT !.tab = TRUE]
  <2>3. IsMemory(mem) /\ mem.cards = q.d.mem.cards /\ Pushes(q.d.mem, <<>>, mem, <<>>)
    BY <2>2 DEF IsMemory, Pushes, Ids
  <2>4. r \in [d : [tasks : {q.d.tasks}, tomb : {q.d.tomb}, mem : {mem}], w : {q.w}, n : {q.n}]
    BY <2>2
  <2> HIDE DEF mem, r
  <2> QED BY <2>1, <2>2, <2>3, <2>4, MemoryLeads
<1> HIDE DEF r
<1>8. Leads(s, r)
  BY <1>5, <1>6, <1>7, LeadsOn
<1> QED BY <1>0, <1>4, <1>5, <1>6, <1>7, <1>8

-----------------------------------------------------------------------------
(* Launches, and the queue.                                                 *)

\* A row gets the id of its session.
LEMMA RowLaunched ==
  ASSUME NEW K, NEW E, NEW t \in Rows, NEW id \in K, id \in Id, NEW u,
         u \in [id : {id}, repo : {t.repo}, status : {"running"}, launched : BOOLEAN,
                restarted : {t.restarted}]
  PROVE  u \in Fine(K, E) /\ u.id = id
<1>1. u \in Rows /\ u.id = id /\ u.status = "running"
  BY DEF Rows
<1> QED BY <1>1, RunningIsFine

\* The list once a queued row's session is known under the id new.
LaunchedList(s, w) ==
  LET new == Session(w.new)
      kept == Only(s.d.tasks, {i \in DOMAIN s.d.tasks :
                    LET t == s.d.tasks[i] IN
                    \/ t.id = w.task.id
                    \/ t.id # new /\ ~(t.repo = w.task.repo /\ t.status = "queued")})
      row == [w.task EXCEPT !.id = new, !.status = "running"]
  IN  IF w.task.id \in Ids(kept)
      THEN Edit(kept, w.task.id, LAMBDA t : [t EXCEPT !.id = new,
                                            !.status = "running", !.launched = TRUE])
      ELSE Append(kept, row)

LEMMA LaunchedListIs ==
  ASSUME NEW s, Sane(s), NEW w, w.task \in Fine(Known(s.n, s.w), Ended),
         w.task.id[1] = "queue", Session(w.new) \in Known(s.n, s.w)
  PROVE  LET l == LaunchedList(s, w)
         IN  /\ l \in Seq(Fine(Known(s.n, s.w), Ended))
             /\ Session(w.new) \in Ids(l)
             /\ Ids(l) \subseteq Ids(s.d.tasks) \cup {Session(w.new)}
             /\ Ids(s.d.tasks) \subseteq Ids(l) \cup Ended
<1> DEFINE K == Known(s.n, s.w)
           new == Session(w.new)
           id == w.task.id
           I == {i \in DOMAIN s.d.tasks : LET t == s.d.tasks[i] IN
                    \/ t.id = w.task.id
                    \/ t.id # new /\ ~(t.repo = w.task.repo /\ t.status = "queued")}
           kept == Only(s.d.tasks, I)
           row == [w.task EXCEPT !.id = new, !.status = "running"]
           edit == [i \in DOMAIN kept |->
                      IF kept[i].id = id
                      THEN [kept[i] EXCEPT !.id = new, !.status = "running", !.launched = TRUE]
                      ELSE kept[i]]
           l == LaunchedList(s, w)
           S == Fine(K, Ended)
<1>0. l = IF id \in Ids(kept) THEN edit ELSE Append(kept, row)
  BY DEF LaunchedList, Edit
<1>1. I \in SUBSET DOMAIN s.d.tasks
      /\ \A i \in DOMAIN s.d.tasks \ I : s.d.tasks[i].status = "queued" \/ s.d.tasks[i].id = new
  OBVIOUS
<1>2. new \in K /\ new \in Id /\ id \in Id /\ id \in Ended /\ w.task \in S /\ w.task \in Rows
  BY DEF Known, Fine, Rows, Ended
<1> HIDE DEF I, K, new, id, l
<1>3. /\ kept \in Seq(S)
      /\ Ids(kept) \subseteq Ids(s.d.tasks)
      /\ Ids(s.d.tasks) \subseteq Ids(kept) \cup Ended \cup {new}
  BY <1>1, KeptIs DEF K
<1> HIDE DEF kept
<1> SUFFICES /\ l \in Seq(S) /\ new \in Ids(l) /\ Ids(l) \subseteq Ids(s.d.tasks) \cup {new}
             /\ Ids(s.d.tasks) \subseteq Ids(l) \cup Ended
  BY DEF K, new, l
<1>4. CASE id \notin Ids(kept)
  <2>1. row \in [id : {new}, repo : {w.task.repo}, status : {"running"}, launched : BOOLEAN,
                 restarted : {w.task.restarted}]
    BY <1>2 DEF Rows
  <2> HIDE DEF row
  <2>2. row \in S /\ row.id = new
    BY <1>2, <2>1, RowLaunched
  <2> HIDE DEF S
  <2>3. Append(kept, row) \in Seq(S) /\ Ids(Append(kept, row)) = Ids(kept) \cup {new}
    BY <1>3, <2>2, AppendIs
  <2>4. l = Append(kept, row)
    BY <1>0, <1>4
  <2>5. /\ l \in Seq(S) /\ new \in Ids(l) /\ Ids(l) \subseteq Ids(s.d.tasks) \cup {new}
        /\ Ids(s.d.tasks) \subseteq Ids(l) \cup Ended
    BY <1>3, <2>3, <2>4
  <2> QED BY <2>5 DEF S
<1>5. CASE id \in Ids(kept)
  <2>1. \A i \in DOMAIN kept : kept[i] \in S
    BY <1>3
  <2>2. \A i \in DOMAIN kept :
          IF kept[i].id = id THEN edit[i] \in S /\ edit[i].id = new ELSE edit[i] = kept[i]
    <3> SUFFICES ASSUME NEW i \in DOMAIN kept, kept[i].id = id
                 PROVE  edit[i] \in S /\ edit[i].id = new
      OBVIOUS
    <3> DEFINE t == kept[i]
               u == [t EXCEPT !.id = new, !.status = "running", !.launched = TRUE]
    <3>1. edit[i] = u
      OBVIOUS
    <3>2. t \in Rows
      BY <2>1 DEF Fine
    <3> HIDE DEF t, edit
    <3>3. u \in [id : {new}, repo : {t.repo}, status : {"running"}, launched : BOOLEAN,
                 restarted : {t.restarted}]
      BY <3>2 DEF Rows
    <3> HIDE DEF u
    <3>4. u \in S /\ u.id = new
      BY <1>2, <3>2, <3>3, RowLaunched
    <3> QED BY <3>1, <3>4
  <2>3. edit = [i \in DOMAIN kept |-> edit[i]]
    OBVIOUS
  <2> HIDE DEF edit, S
  <2>4. /\ edit \in Seq(S)
        /\ new \in Ids(edit)
        /\ Ids(edit) \subseteq Ids(kept) \cup {new} /\ Ids(kept) \subseteq Ids(edit) \cup {id}
    <3>1. Edited(kept, edit, id, new, S)
      BY <2>2, <2>3 DEF Edited
    <3> QED BY <1>3, <1>5, <3>1, EditIs
  <2>5. l = edit
    BY <1>0, <1>5
  <2>6. /\ l \in Seq(S) /\ new \in Ids(l) /\ Ids(l) \subseteq Ids(s.d.tasks) \cup {new}
        /\ Ids(s.d.tasks) \subseteq Ids(l) \cup Ended
    BY <1>2, <1>3, <2>4, <2>5
  <2> QED BY <2>6 DEF S
<1> QED BY <1>4, <1>5

\* The answer to the launch of a queued row.
LEMMA LaunchedLeads ==
  ASSUME NEW s, Sane(s), NEW w, w.task \in Fine(Known(s.n, s.w), Ended),
         w.task.id[1] = "queue", Session(w.new) \in Known(s.n, s.w), Session(w.new) \notin s.d.tomb
  PROVE  LET r == Launched(s, w)
         IN  Leads(s, r) /\ Session(w.new) \in Ids(r.d.tasks) \cup Ended
<1> DEFINE l == LaunchedList(s, w)
           a == SaveTasks(s, l)
           r == RenderRunningTab(a)
           new == Session(w.new)
<1>0. Launched(s, w) = r
  BY DEF Launched, LaunchedList
<1>1. /\ l \in Seq(Fine(Known(s.n, s.w), Ended))
      /\ new \in Ids(l)
      /\ Ids(l) \subseteq Ids(s.d.tasks) \cup {new}
      /\ Ids(s.d.tasks) \subseteq Ids(l) \cup Ended
      /\ new \notin s.d.tomb
  BY LaunchedListIs
<1> HIDE DEF l, new
<1>2. /\ Leads(s, a) /\ a.d.tasks = l
  <2>1. Ids(l) \cap s.d.tomb \subseteq Ids(s.d.tasks)
    BY <1>1
  <2> QED BY <1>1, <2>1, SaveTasksLeads
<1> HIDE DEF a
<1>3. Leads(a, r) /\ Ids(a.d.tasks) \subseteq Ids(r.d.tasks) \cup Ended
  <2>1. Sane(a)
    BY <1>2 DEF Leads
  <2> QED BY <2>1, RenderLeads
<1> HIDE DEF r
<1>4. Leads(s, r)
  BY <1>2, <1>3, LeadsOn
<1> QED BY <1>0, <1>1, <1>2, <1>3, <1>4 DEF new

\* A number is taken.
LEMMA NumberLeads ==
  ASSUME NEW s, Sane(s)
  PROVE  LET r == [s EXCEPT !.n = @ + 1]
         IN  Leads(s, r) /\ r.d = s.d /\ r.w = s.w /\ r.n = s.n + 1 /\ s.n \in Nat
<1> DEFINE r == [s EXCEPT !.n = @ + 1]
           X == {}
<1>1. s \in [d : {s.d}, w : {s.w}, n : Nat] /\ s.n \in Nat
  BY DEF Sane
<1>2. r \in [d : {s.d}, w : {s.w \cup X}, n : {s.n + 1}]
  BY <1>1
<1>3. \A x \in X : /\ IsWait(x, Known(s.n, s.w), Ended)
                   /\ x.new = 0 \/ (x.new > s.n /\ x.new <= s.n + 1)
  OBVIOUS
<1>4. \A x, y \in X : x.new = y.new /\ x.new > 0 => x = y
  OBVIOUS
<1>5. s.w \cup X = s.w
  OBVIOUS
<1> HIDE DEF r, X
<1>6. Leads(s, r)
  BY <1>2, <1>3, <1>4, LeadsToWaits
<1> QED BY <1>1, <1>2, <1>5, <1>6 DEF r

LEMMA QueueOrPostLeads ==
  ASSUME NEW s, Sane(s), NEW p \in Pages, NEW r \in Repos, NEW tasks
  PROVE  Leads(s, QueueOrPost(s, p, r, tasks))
<1> DEFINE a == [s EXCEPT !.n = @ + 1]
           row == Task(Queue(s.n + 1), r, "queued")
           l == Append(s.d.tasks, row)
           b == SaveTasks(a, l)
           c == RenderRunningTab(b)
           new == Task(Session(s.n + 1), r, "running")
           e == Post(s, p, "add", new)
<1>0. QueueOrPost(s, p, r, tasks) = c \/ QueueOrPost(s, p, r, tasks) = e
  BY DEF QueueOrPost
<1>1. Leads(s, a) /\ a.d = s.d /\ a.w = s.w /\ a.n = s.n + 1 /\ s.n \in Nat
  BY NumberLeads
<1>2. Leads(s, e)
  <2>1. new \in [id : {Session(s.n + 1)}, repo : {r}, status : {"running"}, launched : {FALSE},
                 restarted : {FALSE}]
    BY DEF Task
  <2>2. Session(s.n + 1) \in Id
    BY <1>1 DEF Id, Session
  <2> HIDE DEF new
  <2>3. new \in Rows
    BY <2>1, <2>2 DEF Rows
  <2>4. "add" \in {"add", "replace", "again"} /\ ~("add" # "add") /\ "add" # "replace"
    OBVIOUS
  <2> QED BY <2>3, <2>4, PostLeads
<1> HIDE DEF a, e
<1>3. Sane(a)
  BY <1>1 DEF Leads
<1>4. row \in Fine(Known(a.n, a.w), Ended) /\ row.id = Queue(s.n + 1)
  <2>1. row \in [id : {Queue(s.n + 1)}, repo : {r}, status : {"queued"}, launched : {FALSE},
                 restarted : {FALSE}]
    BY DEF Task
  <2>2. /\ Queue(s.n + 1) \in Id /\ Queue(s.n + 1)[1] = "queue" /\ Queue(s.n + 1)[2] = s.n + 1
        /\ \A m : Queue(s.n + 1) # Session(m)
    BY <1>1 DEF Id, Session, Queue
  <2>3. Queue(s.n + 1) \in Known(a.n, a.w)
    BY <1>1, <2>2 DEF Known
  <2> HIDE DEF row
  <2> QED BY <2>1, <2>2, <2>3 DEF Fine, Rows, Settled
<1>5. Queue(s.n + 1) \notin s.d.tomb
  <2>1. \A id \in s.d.tomb : id \in Id /\ id[2] <= s.n
    BY PageIs DEF Gone, Known
  <2> QED BY <1>1, <2>1 DEF Queue
<1> HIDE DEF row
<1>6. l \in Seq(Fine(Known(a.n, a.w), Ended)) /\ Ids(l) = Ids(s.d.tasks) \cup {Queue(s.n + 1)}
  <2>1. s.d.tasks \in Seq(Fine(Known(a.n, a.w), Ended))
    BY <1>1, <1>3, PageIs
  <2> QED BY <1>4, <2>1, AppendIs
<1> HIDE DEF l
<1>7. Leads(a, b)
  <2>1. Ids(l) \cap a.d.tomb \subseteq Ids(a.d.tasks)
    BY <1>1, <1>5, <1>6
  <2>2. NoStalls => Ids(a.d.tasks) \subseteq Ids(l) \cup Ended
    BY <1>1, <1>6
  <2> QED BY <1>3, <1>6, <2>1, <2>2, SaveTasksLeads
<1> HIDE DEF b
<1>8. Leads(b, c)
  <2>1. Sane(b)
    BY <1>7 DEF Leads
  <2> QED BY <2>1, RenderLeads
<1> HIDE DEF c
<1>9. Leads(s, c)
  BY <1>1, <1>7, <1>8, LeadsOn
<1> QED BY <1>0, <1>2, <1>9

\* Rows that are launched run from now on.
LEMMA MarkLeads ==
  ASSUME NEW s, Sane(s), NEW ids
  PROVE  LET l == [i \in DOMAIN s.d.tasks |->
                    IF s.d.tasks[i].id \in ids
                    THEN [s.d.tasks[i] EXCEPT !.status = "running", !.launched = TRUE]
                    ELSE s.d.tasks[i]]
             r == SaveTasks(s, l)
         IN  Leads(s, r) /\ r.w = s.w /\ r.n = s.n
<1> DEFINE k == s.d.tasks
           l == [i \in DOMAIN k |-> IF k[i].id \in ids
                    THEN [k[i] EXCEPT !.status = "running", !.launched = TRUE] ELSE k[i]]
           r == SaveTasks(s, l)
           S == Fine(Known(s.n, s.w), Ended)
<1>1. k \in Seq(S)
  BY PageIs
<1>2. \A i \in DOMAIN k : l[i] \in S /\ l[i].id = k[i].id
  <2> TAKE i \in DOMAIN k
  <2> DEFINE u == [k[i] EXCEPT !.status = "running", !.launched = TRUE]
  <2>1. k[i] \in S
    BY <1>1
  <2>2. k[i] \in Rows /\ k[i].id \in Known(s.n, s.w)
    BY <2>1 DEF Fine
  <2>3. u \in Rows /\ u.id = k[i].id /\ u.status = "running"
    BY <2>2 DEF Rows
  <2>4. l[i] = k[i] \/ l[i] = u
    OBVIOUS
  <2> HIDE DEF u, l, S
  <2>5. u \in S
    BY <2>2, <2>3, RunningIsFine DEF S
  <2> QED BY <2>1, <2>3, <2>4, <2>5
<1>3. Len(k) \in Nat /\ DOMAIN k = 1..Len(k) /\ DOMAIN l = DOMAIN k
  BY <1>1
<1> HIDE DEF l, k, S
<1>4. l = [i \in DOMAIN k |-> l[i]]
  BY DEF l
<1>5. l \in [1..Len(k) -> S]
  BY <1>2, <1>3, <1>4
<1>6. l \in Seq(S)
  BY <1>3, <1>5
<1>7. Ids(l) = Ids(k)
  BY <1>2, <1>3, SameIds
<1>8. Leads(s, r) /\ r.w = s.w /\ r.n = s.n
  <2>1. l \in Seq(Fine(Known(s.n, s.w), Ended)) /\ Ids(l) = Ids(s.d.tasks)
    BY <1>6, <1>7 DEF S, k
  <2>2. Ids(l) \cap s.d.tomb \subseteq Ids(s.d.tasks)
        /\ (NoStalls => Ids(s.d.tasks) \subseteq Ids(l) \cup Ended)
    BY <2>1
  <2> QED BY <2>1, <2>2, SaveTasksLeads
<1> QED BY <1>8 DEF r, l, k

LEMMA StartIs ==
  ASSUME NEW s, Sane(s), NEW p \in Pages, NEW t \in Fine(Known(s.n, s.w), Ended),
         t.id[1] = "queue", NEW k \in Nat \ {0}
  PROVE  IsWait(Start(s, p, t, k), Known(s.n, s.w), Ended) /\ Start(s, p, t, k).new = s.n + k
<1> DEFINE K == Known(s.n, s.w)
           y == Start(s, p, t, k)
           card == t.id
           n == s.n + k
           list == <<>>
           ids == {}
           what == "start"
<1>1. y \in [p : {p}, what : {what}, task : {t}, card : {card}, at : {"sent"},
             new : {n}, list : {list}, ids : {ids}, k : {y.k}]
  BY DEF Start, Wait
<1>2. /\ list \in Seq(Fine(K, Ended)) /\ ids \in SUBSET Gone(K, Ended)
      /\ t \in Fine(K, Ended) /\ t.id[1] = "queue"
  OBVIOUS
<1>3. n \in Nat \ {0}
  BY DEF Sane
<1>4. card \in Id /\ t \in Rows
  BY DEF Fine, Rows
<1>5. what \in Launching /\ what # "add" /\ what # "restall" /\ what # "replace"
  BY DEF Launching
<1> HIDE DEF y, card, n, list, ids, what, K
<1>6. IsWait(y, K, Ended) /\ y.new = n
  BY <1>1, <1>2, <1>3, <1>4, <1>5, LaunchIs
<1> QED BY <1>6 DEF y, n, K

\* _startQueuedDownload, called for rows that were queued.
LEMMA StartQueuedDownloadLeads ==
  ASSUME NEW s, Sane(s), NEW p \in Pages, NEW list \in Seq(Fine(Known(s.n, s.w), Ended)),
         \A i \in DOMAIN list : list[i].id[1] = "queue"
  PROVE  Leads(s, StartQueuedDownload(s, p, list))
<1> DEFINE Begun(id) == /\ id \in Ids(s.d.tasks)
                        /\ Row(s.d.tasks, id).status = "running" /\ Row(s.d.tasks, id).launched
           I == {i \in DOMAIN list : ~Begun(list[i].id)}
           todo == Only(list, I)
           l == [i \in DOMAIN s.d.tasks |->
                    IF s.d.tasks[i].id \in Ids(todo)
                    THEN [s.d.tasks[i] EXCEPT !.status = "running", !.launched = TRUE]
                    ELSE s.d.tasks[i]]
           q == IF Ids(todo) \cap Ids(s.d.tasks) = {} THEN s ELSE SaveTasks(s, l)
           X == {Start(s, p, todo[i], i) : i \in DOMAIN todo}
           r == [q EXCEPT !.n = @ + Len(todo),
                          !.w = @ \cup X]
           K == Known(s.n, s.w)
<1>0. StartQueuedDownload(s, p, list) = r
  BY DEF StartQueuedDownload
<1>1. Leads(s, q) /\ q.w = s.w /\ q.n = s.n
  <2>1. Leads(s, SaveTasks(s, l)) /\ SaveTasks(s, l).w = s.w /\ SaveTasks(s, l).n = s.n
    <3> DEFINE a == SaveTasks(s, l)
    <3>1. Leads(s, a) /\ a.w = s.w /\ a.n = s.n
      BY MarkLeads
    <3> QED BY <3>1
  <2> HIDE DEF l, todo
  <2> QED BY <2>1, LeadsNowhere
<1>2. I \in SUBSET DOMAIN list
  OBVIOUS
<1> HIDE DEF I, K
<1>3. /\ todo \in Seq(Fine(K, Ended)) /\ DOMAIN todo = 1..Len(todo)
      /\ \A k \in DOMAIN todo : \E i \in I : todo[k] = list[i]
  BY <1>2, OnlyIs DEF K
<1> HIDE DEF l, todo
<1>4. Len(todo) \in Nat /\ \A i \in DOMAIN todo : /\ todo[i] \in Fine(K, Ended)
                                                   /\ todo[i].id[1] = "queue"
  BY <1>2, <1>3
<1> HIDE DEF q
<1>5. Sane(q) /\ q.n \in Nat /\ q \in [d : {q.d}, w : {q.w}, n : Nat]
  BY <1>1 DEF Leads, Sane
<1>6. \A v \in X : \E i \in 1..Len(todo) : IsWait(v, K, Ended) /\ v.new = s.n + i
  <2>1. \A i \in DOMAIN todo : LET v == Start(s, p, todo[i], i) IN
            IsWait(v, K, Ended) /\ v.new = s.n + i
    <3> TAKE i \in DOMAIN todo
    <3> DEFINE t == todo[i]
    <3>1. t \in Fine(K, Ended) /\ t.id[1] = "queue" /\ i \in Nat \ {0}
      BY <1>3, <1>4
    <3> HIDE DEF t
    <3>2. IsWait(Start(s, p, t, i), K, Ended) /\ Start(s, p, t, i).new = s.n + i
      BY <3>1, StartIs DEF K
    <3> QED BY <3>2 DEF t
  <2> QED BY <1>3, <2>1
<1>7. \A v, y \in X : v.new = y.new => v = y
  <2>1. \A i \in DOMAIN todo : Start(s, p, todo[i], i).new = s.n + i
    BY DEF Start, Wait
  <2>2. \A i, j \in DOMAIN todo : s.n + i = s.n + j => i = j
    BY <1>1, <1>3, <1>4, <1>5
  <2> QED BY <2>1, <2>2
<1>8. r \in [d : {q.d}, w : {q.w \cup X}, n : {q.n + Len(todo)}]
  BY <1>5
<1> HIDE DEF r, X
<1>9. \A v \in X : /\ IsWait(v, Known(q.n, q.w), Ended)
                   /\ v.new = 0 \/ (v.new > q.n /\ v.new <= q.n + Len(todo))
  BY <1>1, <1>4, <1>5, <1>6 DEF K
<1> DEFINE m == Len(todo)
<1>10. /\ m \in Nat /\ r \in [d : {q.d}, w : {q.w \cup X}, n : {q.n + m}]
       /\ \A v \in X : /\ IsWait(v, Known(q.n, q.w), Ended)
                       /\ v.new = 0 \/ (v.new > q.n /\ v.new <= q.n + m)
       /\ \A v, y \in X : v.new = y.new /\ v.new > 0 => v = y
  BY <1>4, <1>7, <1>8, <1>9
<1> HIDE DEF m
<1>11. Leads(q, r)
  BY ONLY <1>5, <1>10, LeadsToWaits
<1> QED BY <1>0, <1>1, <1>11, LeadsOn

\* _processQueue.
LEMMA ProcessQueueLeads ==
  ASSUME NEW s, Sane(s), NEW p \in Pages
  PROVE  Leads(s, ProcessQueue(s, p))
<1> DEFINE q == LoadPruned(s)
           Waits(i, h) == q.d.tasks[i].status = "queued" /\ HostOf[q.d.tasks[i].repo] = h
           Busy(h) == \E i \in DOMAIN q.d.tasks : /\ q.d.tasks[i].status = "running"
                                                  /\ HostOf[q.d.tasks[i].repo] = h
           first == {i \in DOMAIN q.d.tasks :
                    LET h == HostOf[q.d.tasks[i].repo] IN
                    Waits(i, h) /\ ~Busy(h) /\ \A j \in 1 .. i - 1 : ~Waits(j, h)}
           l == Only(q.d.tasks, first)
<1>0. ProcessQueue(s, p) = StartQueuedDownload(q, p, l)
  BY DEF ProcessQueue
<1>1. Leads(s, q)
  BY LoadPrunedLeads
<1> HIDE DEF q
<1>2. Sane(q)
  BY <1>1 DEF Leads
<1>3. first \in SUBSET DOMAIN q.d.tasks /\ \A i \in first : q.d.tasks[i].status = "queued"
  OBVIOUS
<1> HIDE DEF first
<1>4. q.d.tasks \in Seq(Fine(Known(q.n, q.w), Ended))
  BY <1>2, PageIs
<1>5. \A i \in DOMAIN q.d.tasks : q.d.tasks[i] \in Fine(Known(q.n, q.w), Ended)
  BY <1>4
<1>6. \A i \in first : q.d.tasks[i].id[1] = "queue"
  BY <1>3, <1>5 DEF Fine
<1>7. /\ l \in Seq(Fine(Known(q.n, q.w), Ended))
      /\ \A k \in DOMAIN l : \E i \in first : l[k] = q.d.tasks[i]
  BY <1>3, <1>4, OnlyIs
<1> HIDE DEF l
<1>8. \A k \in DOMAIN l : l[k].id[1] = "queue"
  BY <1>6, <1>7
<1>9. Leads(q, StartQueuedDownload(q, p, l))
  BY <1>2, <1>7, <1>8, StartQueuedDownloadLeads
<1> QED BY <1>0, <1>1, <1>9, LeadsOn

-----------------------------------------------------------------------------
(* Stop all, and the fading of a card.                                      *)

LEMMA StopLeads ==
  ASSUME NEW s, Sane(s), NEW p \in Pages, NEW cs \in SUBSET DOMAIN s.d.mem.cards
  PROVE  Leads(s, Stop(s, p, cs))
<1> DEFINE old == s.d.mem.cards
           cards == [c \in DOMAIN old |-> IF c \in cs THEN [old[c] EXCEPT !.loop = "none"]
                                          ELSE old[c]]
           X == {Another(s, [Wait(p, "stop", old[c].task) EXCEPT !.card = c]) : c \in cs}
           q == [s EXCEPT !.d.mem.cards = cards]
           r == Stop(s, p, cs)
           K == Known(s.n, s.w)
<1>1. IsDeck(old, K, Ended) /\ s \in [d : {s.d}, w : {s.w}, n : Nat] /\ s.n \in Nat
  BY PageIs DEF Sane
<1>2. r \in [d : {q.d}, w : {s.w \cup X}, n : {s.n}]
  BY <1>1 DEF Stop
<1>3. \A c \in DOMAIN old : old[c] \in [task : Fine(K, Ended), loop : Loops]
  BY <1>1 DEF IsDeck, Loops
<1>4. \A v \in X : IsWait(v, K, Ended) /\ v.new = 0
  <2> SUFFICES ASSUME NEW c \in cs
               PROVE  LET v == Another(s, [Wait(p, "stop", old[c].task) EXCEPT !.card = c])
                      IN  IsWait(v, K, Ended) /\ v.new = 0
    OBVIOUS
  <2> DEFINE t == old[c].task
             v == [Wait(p, "stop", t) EXCEPT !.card = c]
             list == <<>>
             ids == {}
             what == "stop"
  <2>1. v \in [p : {p}, what : {what}, task : {t}, card : {c}, at : {"sent"},
               new : {0}, list : {list}, ids : {ids}, k : {v.k}]
    BY DEF Wait
  <2>2. /\ t \in Fine(K, Ended) /\ c \in Id /\ what \in Kinds \ Launching
        /\ list \in Seq(Fine(K, Ended)) /\ ids \in SUBSET Gone(K, Ended)
    BY <1>1, <1>3 DEF IsDeck, Known, Kinds, Launching, Killing
  <2>3. what # "stallKill" /\ (NoStalls => c = t.id /\ what # "fade")
    BY <1>1 DEF IsDeck
  <2> HIDE DEF t, v, list, ids, what, K
  <2>4. IsWait(v, K, Ended) /\ v.new = 0
    BY <2>1, <2>2, <2>3, WaitIs
  <2>5. IsWait(Another(s, v), K, Ended) /\ Another(s, v).new = 0
    BY <2>4, AnotherIs
  <2> QED BY <2>5 DEF v, t
<1> HIDE DEF old, K, X, q, r
<1>5. /\ \A c \in DOMAIN old : cards[c] \in [task : {old[c].task}, loop : Loops]
      /\ cards = [c \in DOMAIN old |-> cards[c]]
  BY <1>3 DEF Loops
<1> HIDE DEF cards
<1>6. IsDeck(cards, K, Ended)
  BY <1>1, <1>5, LoopsDeck
<1>7. Leads(s, q) /\ q.w = s.w /\ q.n = s.n
  BY <1>6, CardsLead DEF q, K
<1>8. Leads(q, r)
  <2>1. Sane(q) /\ 0 \in Nat
    BY <1>7 DEF Leads
  <2>2. r \in [d : {q.d}, w : {q.w \cup X}, n : {q.n + 0}]
    BY <1>1, <1>2, <1>7
  <2>3. /\ \A v \in X : /\ IsWait(v, Known(q.n, q.w), Ended)
                        /\ v.new = 0 \/ (v.new > q.n /\ v.new <= q.n + 0)
        /\ \A v, y \in X : v.new = y.new /\ v.new > 0 => v = y
    BY <1>4, <1>7 DEF K
  <2> QED BY ONLY <2>1, <2>2, <2>3, LeadsToWaits
<1> QED BY <1>7, <1>8, LeadsOn DEF r

LEMMA AnimateLeads ==
  ASSUME NEW s, Sane(s), NEW p \in Pages, NEW c, NEW t \in Fine(Known(s.n, s.w), Ended),
         NoStalls => c \in Ended /\ t.id \in Ended
  PROVE  Leads(s, AnimateOutThenRemove(s, p, c, t))
<1> DEFINE now == IF c \in DOMAIN s.d.mem.cards THEN s.d.mem.cards[c].task ELSE t
           a == Abort(s, c)
           r == Await(a, Wait(p, "fade", now))
<1>0. AnimateOutThenRemove(s, p, c, t) = r
  BY DEF AnimateOutThenRemove
<1>1. now \in Fine(Known(s.n, s.w), Ended) /\ (NoStalls => now.id \in Ended)
  BY PageIs DEF IsDeck
<1>2. Leads(s, a) /\ a.w = s.w /\ a.n = s.n
  BY AbortLeads
<1> HIDE DEF now, a
<1>3. Sane(a) /\ now \in Fine(Known(a.n, a.w), Ended) /\ "fade" \in Kinds \ Launching
  BY <1>1, <1>2 DEF Leads, Kinds, Launching
<1>4. Leads(a, r)
  BY <1>1, <1>3, AwaitsRowLeads
<1> QED BY <1>0, <1>2, <1>4, LeadsOn

-----------------------------------------------------------------------------
(* Polls and merges.                                                        *)

\* Another list, which is not pushed.
LEMMA TasksLead ==
  ASSUME NEW s, Sane(s), NEW l \in Seq(Fine(Known(s.n, s.w), Ended)),
         Ids(l) \cap s.d.tomb \subseteq Ids(s.d.tasks),
         Alone => Ids(l) \subseteq Ids(s.d.tasks) \cup Ids(server.tasks),
         NoStalls => Ids(s.d.tasks) \subseteq Ids(l) \cup Ended
  PROVE  LET r == [s EXCEPT !.d.tasks = l]
         IN  Leads(s, r) /\ r.w = s.w /\ r.n = s.n
<1> DEFINE r == [s EXCEPT !.d.tasks = l]
<1>1. /\ s.d \in [tasks : {s.d.tasks}, tomb : {s.d.tomb}, mem : {s.d.mem}]
      /\ s \in [d : {s.d}, w : {s.w}, n : Nat] /\ IsMemory(s.d.mem)
      /\ IsDeck(s.d.mem.cards, Known(s.n, s.w), Ended)
      /\ s.d.tomb \in SUBSET Gone(Known(s.n, s.w), Ended)
  BY PageIs
<1>2. r \in [d : [tasks : {l}, tomb : {s.d.tomb}, mem : {s.d.mem}], w : {s.w}, n : {s.n}]
  BY <1>1
<1>3. r.w = s.w /\ r.n = s.n
  BY <1>2
<1> HIDE DEF r
<1>4. Alone => Pushes(s.d.mem, s.d.tasks, s.d.mem, l)
  BY DEF Pushes
<1>5. Leads(s, r)
  BY <1>1, <1>2, <1>4, PageChanges
<1> QED BY <1>3, <1>5 DEF r

\* Nothing that was removed is merged in.
LEMMA MergesIs ==
  ASSUME NEW S, NEW s, s.d.tasks \in Seq(S), NEW tasks \in Seq(S)
  PROVE  LET l == Merge(s, tasks)
         IN  /\ l \in Seq(S)
             /\ Ids(l) \cap s.d.tomb \subseteq Ids(s.d.tasks)
             /\ Ids(s.d.tasks) \subseteq Ids(l)
             /\ Ids(l) \subseteq Ids(s.d.tasks) \cup Ids(tasks)
<1> DEFINE ids == Ids(s.d.tasks) \cup s.d.tomb
           k == Without(tasks, ids)
           l == s.d.tasks \o k
<1>1. k \in Seq(S) /\ Ids(k) = Ids(tasks) \ ids
  BY WithoutIs
<1> HIDE DEF k
<1>2. l \in Seq(S) /\ Ids(l) = Ids(s.d.tasks) \cup Ids(k)
  BY <1>1, ConcatIs
<1> HIDE DEF l
<1>3. /\ Ids(l) \cap s.d.tomb \subseteq Ids(s.d.tasks) /\ Ids(s.d.tasks) \subseteq Ids(l)
      /\ Ids(l) \subseteq Ids(s.d.tasks) \cup Ids(tasks)
  BY <1>1, <1>2
<1> QED BY <1>2, <1>3 DEF Merge, l, k

\* Into the rows of a page.
LEMMA MergeIs ==
  ASSUME NEW s, Sane(s), NEW tasks \in Seq(Fine(Known(s.n, s.w), Ended))
  PROVE  LET l == Merge(s, tasks)
         IN  /\ l \in Seq(Fine(Known(s.n, s.w), Ended))
             /\ Ids(l) \cap s.d.tomb \subseteq Ids(s.d.tasks)
             /\ Ids(s.d.tasks) \subseteq Ids(l)
             /\ Ids(l) \subseteq Ids(s.d.tasks) \cup Ids(tasks)
<1> DEFINE S == Fine(Known(s.n, s.w), Ended)
<1>1. s.d.tasks \in Seq(S) /\ tasks \in Seq(S)
  BY PageIs
<1> HIDE DEF S
<1> QED BY <1>1, MergesIs DEF S

LEMMA NothingIsFine ==
  ASSUME NEW s, Sane(s)
  PROVE  Nothing \in Fine(Known(s.n, s.w), Ended)
<1> DEFINE r == CHOOSE r \in Repos : TRUE
<1>1. r \in Repos
  BY CookbookAssumption
<1> HIDE DEF r
<1>2. Queue(0) \in Known(s.n, s.w) /\ Queue(0) \in Id
  BY DEF Sane, Known, Queue, Session, Id
<1>3. Nothing \in [id : {Queue(0)}, repo : {r}, status : {"none"}, launched : {FALSE},
                   restarted : {FALSE}]
  BY DEF Nothing, Task, r
<1> QED BY <1>1, <1>2, <1>3 DEF Fine, Rows, Settled

\* The answer to a poll of the stored rows: what it lacks is merged in.
LEMMA MergeStateLeads ==
  ASSUME NEW s, Sane(s), NEW p \in Pages, NEW tasks \in Seq(Fine(Known(s.n, s.w), Ended)),
         Alone => Ids(tasks) \subseteq Ids(server.tasks),
         Statuses \in Seq(Fine(Known(s.n, s.w), Ended))
  PROVE  Leads(s, MergeState(s, p, tasks))
<1> DEFINE merged == Merge(s, tasks)
           a == [s EXCEPT !.d.tasks = merged]
           q == IF merged = s.d.tasks THEN s ELSE RenderRunningTab(a)
           list == Statuses
           x == [Wait(p, "status", Nothing) EXCEPT !.list = list]
           r == Await(q, x)
<1>0. MergeState(s, p, tasks) = r
  BY DEF MergeState
<1>1. Leads(s, q) /\ q.w = s.w /\ q.n = s.n
  <2>1. /\ merged \in Seq(Fine(Known(s.n, s.w), Ended))
        /\ Ids(merged) \cap s.d.tomb \subseteq Ids(s.d.tasks)
        /\ Ids(s.d.tasks) \subseteq Ids(merged)
        /\ Ids(merged) \subseteq Ids(s.d.tasks) \cup Ids(tasks)
    BY MergeIs
  <2> HIDE DEF merged
  <2>2. Leads(s, a) /\ a.w = s.w /\ a.n = s.n
    BY <2>1, TasksLead
  <2> HIDE DEF a
  <2> DEFINE b == RenderRunningTab(a)
  <2>3. Leads(a, b) /\ b.w = a.w /\ b.n = a.n
    <3>1. Sane(a)
      BY <2>2 DEF Leads
    <3> QED BY <3>1, RenderLeads
  <2> HIDE DEF b
  <2>4. Leads(s, b) /\ b.w = s.w /\ b.n = s.n
    BY <2>2, <2>3, LeadsOn
  <2> QED BY <2>4, LeadsNowhere DEF b
<1> HIDE DEF q
<1> DEFINE what == "status"
           t == Nothing
           card == Nothing.id
           ids == {}
<1>2. x \in [p : {p}, what : {what}, task : {t}, card : {card}, at : {"sent"},
             new : {0}, list : {list}, ids : {ids}, k : {x.k}]
  BY DEF Wait
<1>3. Sane(q) /\ what \in Kinds \ Launching
      /\ what \notin {"stallKill", "stop", "remove", "fade"}
  BY <1>1 DEF Leads, Kinds, Launching
<1>4. t \in Fine(Known(q.n, q.w), Ended)
  BY <1>3, NothingIsFine
<1>5. card \in Id
  BY <1>4 DEF Fine, Rows
<1>6. list \in Seq(Fine(Known(q.n, q.w), Ended)) /\ ids \in SUBSET Gone(Known(q.n, q.w), Ended)
  BY <1>1
<1> HIDE DEF x, list, what, t, card, ids
<1>7. NoStalls => /\ what # "stallKill"
                  /\ what \in {"stop", "remove"} => card = t.id
                  /\ what = "fade" => t.id \in Ended
  BY <1>3
<1>8. IsWait(x, Known(q.n, q.w), Ended) /\ x.new = 0
  <2> DEFINE K == Known(q.n, q.w)
  <2>1. /\ p \in Pages /\ what \in Kinds \ Launching /\ t \in Fine(K, Ended) /\ card \in Id
        /\ list \in Seq(Fine(K, Ended)) /\ ids \in SUBSET Gone(K, Ended)
        /\ what = "stallKill" => card[1] = "session"
    BY <1>3, <1>4, <1>5, <1>6
  <2> HIDE DEF K
  <2>2. IsWait(x, K, Ended) /\ x.new = 0
    BY ONLY <1>2, <1>7, <2>1, WaitIs
  <2> QED BY <2>2 DEF K
<1>9. Leads(q, r)
  BY <1>3, <1>8, AwaitLeads
<1> QED BY <1>0, <1>1, <1>9, LeadsOn

\* GET /api/cookbook/state, when the page or the Cookbook opens.
LEMMA SyncLeads ==
  ASSUME ~Alone, NEW s, Sane(s), NEW p \in Pages, NEW what \in {"init", "open"},
         server.tasks \in Seq(Fine(Known(s.n, s.w), Ended)),
         server.removed \in SUBSET Gone(Known(s.n, s.w), Ended)
  PROVE  Leads(s, Sync(p, what, s))
<1> DEFINE list == server.tasks
           ids == server.removed
           t == Nothing
           card == Nothing.id
           x == [Wait(p, what, t) EXCEPT !.list = list, !.ids = ids]
           r == Await(s, x)
<1>0. Sync(p, what, s) = r
  BY DEF Sync
<1>1. x \in [p : {p}, what : {what}, task : {t}, card : {card}, at : {"sent"},
             new : {0}, list : {list}, ids : {ids}, k : {x.k}]
  BY DEF Wait
<1>2. what \in Kinds \ Launching /\ what \notin {"stallKill", "stop", "remove", "fade"}
  BY DEF Kinds, Launching
<1>3. t \in Fine(Known(s.n, s.w), Ended)
  BY NothingIsFine
<1>4. card \in Id
  BY <1>3 DEF Fine, Rows
<1>5. list \in Seq(Fine(Known(s.n, s.w), Ended)) /\ ids \in SUBSET Gone(Known(s.n, s.w), Ended)
  OBVIOUS
<1> HIDE DEF x, list, t, card, ids
<1>6. NoStalls => /\ what # "stallKill"
                  /\ what \in {"stop", "remove"} => card = t.id
                  /\ what = "fade" => t.id \in Ended
  BY <1>2
<1>7. IsWait(x, Known(s.n, s.w), Ended) /\ x.new = 0
  BY <1>1, <1>2, <1>3, <1>4, <1>5, <1>6, WaitIs
<1>8. Leads(s, r)
  BY <1>7, AwaitLeads
<1> QED BY <1>0, <1>8

\* What a poll of the statuses makes of the rows.
LEMMA ReconcileIs ==
  ASSUME NEW s, Sane(s), NEW live \in Seq(Fine(Known(s.n, s.w), Ended))
  PROVE  LET l == Reconcile(s, live)
         IN  /\ l \in Seq(Fine(Known(s.n, s.w), Ended))
             /\ Ids(l) \cap s.d.tomb \subseteq Ids(s.d.tasks)
             /\ Ids(s.d.tasks) \subseteq Ids(l)
<1> DEFINE S == Fine(Known(s.n, s.w), Ended)
           k == Merge(s, live)
           l == [i \in DOMAIN k |-> IF k[i].id \in Ids(live)
                    THEN [k[i] EXCEPT !.status = Row(live, k[i].id).status] ELSE k[i]]
<1>0. Reconcile(s, live) = l
  BY DEF Reconcile
<1>1. /\ k \in Seq(S)
      /\ Ids(k) \cap s.d.tomb \subseteq Ids(s.d.tasks)
      /\ Ids(s.d.tasks) \subseteq Ids(k)
  BY MergeIs
<1> HIDE DEF k
<1>2. \A i \in DOMAIN k : l[i] \in S /\ l[i].id = k[i].id
  <2> TAKE i \in DOMAIN k
  <2> DEFINE t == k[i]
             u == [t EXCEPT !.status = Row(live, t.id).status]
  <2>1. t \in S
    BY <1>1
  <2>2. t \in Rows /\ t.id \in Known(s.n, s.w)
    BY <2>1 DEF Fine
  <2>3. CASE t.id \in Ids(live)
    <3> DEFINE v == Row(live, t.id)
    <3>1. v \in S /\ v.id = t.id
      BY <2>3, RowIs
    <3> HIDE DEF t, v
    <3>2. v \in Rows
      BY <3>1 DEF Fine
    <3> DEFINE y == [t EXCEPT !.status = v.status]
    <3>3. y \in Rows /\ y.id = t.id /\ y.status = v.status
      BY <2>2, <3>2 DEF Rows
    <3> HIDE DEF y
    <3>4. y \in S
      BY <2>2, <3>1, <3>3 DEF Fine
    <3>5. l[i] = y
      BY <2>3 DEF y, v, t
    <3> QED BY <3>3, <3>4, <3>5 DEF t
  <2>4. CASE t.id \notin Ids(live)
    BY <2>1, <2>4
  <2> QED BY <2>3, <2>4
<1>3. Len(k) \in Nat /\ DOMAIN k = 1..Len(k) /\ DOMAIN l = DOMAIN k
  BY <1>1
<1>4. l = [i \in DOMAIN k |-> l[i]]
  OBVIOUS
<1> HIDE DEF l, S
<1>5. l \in [1..Len(k) -> S]
  BY <1>2, <1>3, <1>4
<1>6. l \in Seq(S)
  BY <1>3, <1>5
<1>7. Ids(l) = Ids(k)
  BY <1>2, <1>3, SameIds
<1> QED BY <1>0, <1>1, <1>6, <1>7 DEF S

-----------------------------------------------------------------------------
(* A handler runs to its next await.                                        *)

\* What a handler of page p starts from: the page, and what is awaited besides
\* what it was waiting for itself.
Begins(p, s) ==
  /\ Sane(s)
  /\ s.d = page[p] /\ s.w \subseteq waits /\ s.n = ghost.n
  /\ Known(ghost.n, waits) \subseteq Known(s.n, s.w)
  /\ \A w \in waits \ s.w : w.new > 0 => Session(w.new) \in Known(s.n, s.w)

\* The row of a launch that has been answered is in the list, or has ended.
Listed(s, r) ==
  NoStalls => \A w \in waits \ s.w :
                w.new > 0 /\ w.at = "ok" => Session(w.new) \in Ids(r.d.tasks) \cup Ended

\* No row that was removed on a page comes back to it in this step.
NoneBack ==
  \A p \in Pages : \A id \in page[p].tomb :
      id \notin Ids(page[p].tasks) => id \notin Ids(page'[p].tasks)

LEMMA BeginsState ==
  ASSUME IndInv, NEW p \in Pages
  PROVE  Begins(p, State(p)) /\ State(p).w = waits
<1> DEFINE s == State(p)
<1>1. s.d = page[p] /\ s.w = waits /\ s.n = ghost.n
  BY DEF State
<1>2. s \in [d : {page[p]}, w : {waits}, n : {ghost.n}] /\ ghost.n \in Nat
  BY DEF State, IndInv, Counted
<1> HIDE DEF s
<1>3. s \in [d : {s.d}, w : {s.w}, n : Nat]
  BY <1>1, <1>2
<1>4. Sane(s)
  BY <1>1, <1>3 DEF Sane, IndInv
<1>5. Begins(p, s)
  BY <1>1, <1>4 DEF Begins
<1> QED BY <1>1, <1>5 DEF s

\* Fewer waits: more ids may be known.
LEMMA LessIsSane ==
  ASSUME IndInv, NEW p \in Pages, NEW W \in SUBSET waits,
         NEW s, s \in [d : {page[p]}, w : {W}, n : {ghost.n}]
  PROVE  /\ Sane(s) /\ s.d = page[p] /\ s.w = W /\ s.n = ghost.n
         /\ Known(ghost.n, waits) \subseteq Known(s.n, s.w)
         /\ \A w \in waits : IsWait(w, Known(s.n, s.w), Ended)
<1> DEFINE K == Known(ghost.n, waits)
           L == Known(s.n, s.w)
<1>1. s.d = page[p] /\ s.w = W /\ s.n = ghost.n /\ ghost.n \in Nat
  BY DEF IndInv, Counted
<1>2. K \subseteq L /\ K \cap Ended \subseteq Ended
  BY <1>1 DEF Known
<1>3. IsPage(page[p], K, Ended) /\ \A w \in waits : IsWait(w, K, Ended)
  BY DEF IndInv
<1> HIDE DEF K, L
<1>4. IsPage(s.d, L, Ended)
  BY <1>1, <1>2, <1>3, PageGrows
<1>5. \A w \in waits : IsWait(w, L, Ended)
  BY <1>2, <1>3, WaitGrows
<1>6. Numbered(s.w, s.n)
  BY <1>1 DEF IndInv, Numbered
<1>7. s \in [d : {s.d}, w : {s.w}, n : Nat]
  BY <1>1
<1>8. Sane(s)
  BY <1>1, <1>4, <1>5, <1>6, <1>7 DEF Sane, L
<1> QED BY <1>1, <1>2, <1>5, <1>8 DEF K, L

LEMMA BeginsAnswered ==
  ASSUME IndInv, NEW w \in waits
  PROVE  LET s == Answered(w)
         IN  /\ w.p \in Pages /\ Begins(w.p, s) /\ s.w = waits \ {w}
             /\ IsWait(w, Known(s.n, s.w), Ended)
             /\ w.new > 0 => /\ Session(w.new) \in Known(s.n, s.w)
                             /\ Session(w.new) \notin s.d.tomb
<1> DEFINE s == Answered(w)
           W == waits \ {w}
<1>1. w.p \in Pages /\ w.new \in Nat /\ w.new <= ghost.n
  BY DEF IndInv, IsWait, Numbered
<1>2. s \in [d : {page[w.p]}, w : {W}, n : {ghost.n}] /\ W \in SUBSET waits
  BY DEF Answered, State
<1> HIDE DEF s, W
<1>3. /\ Sane(s) /\ s.d = page[w.p] /\ s.w = W /\ s.n = ghost.n
      /\ Known(ghost.n, waits) \subseteq Known(s.n, s.w)
      /\ \A v \in waits : IsWait(v, Known(s.n, s.w), Ended)
  BY <1>1, <1>2, LessIsSane
<1>4. \A v \in W : v.new \in Nat /\ (v.new = w.new /\ v.new > 0 => v = w)
  BY DEF IndInv, Numbered, IsWait, W
<1>5. w.new > 0 => Session(w.new) \in Known(s.n, s.w)
  <2> SUFFICES ASSUME w.new > 0 PROVE Session(w.new) \in Known(s.n, s.w)
    OBVIOUS
  <2>1. Session(w.new) \in Id /\ Session(w.new)[2] = w.new
    BY <1>1 DEF Session, Id
  <2>2. \A v \in W : v.new > 0 => Session(w.new) # Session(v.new)
    BY <1>4 DEF Session, W
  <2> QED BY <1>1, <1>3, <2>1, <2>2 DEF Known
<1>6. w.new > 0 => Session(w.new) \notin s.d.tomb
  <2>1. s.d.tomb \subseteq Known(ghost.n, waits)
    BY <1>1, <1>3 DEF IndInv, IsPage, Gone
  <2>2. w.new > 0 => Session(w.new) \notin Known(ghost.n, waits)
    BY DEF Known
  <2> QED BY <2>1, <2>2
<1>7. Begins(w.p, s)
  BY <1>2, <1>3, <1>5 DEF Begins, W
<1> QED BY <1>1, <1>3, <1>5, <1>6, <1>7 DEF s, W

LEMMA RanKeeps ==
  ASSUME IndInv, NEW p \in Pages, NEW s, NEW r, Begins(p, s), Leads(s, r), Listed(s, r),
         NEW left \in [Spendable -> Nat], Bounded(left), Ran(p, r, left), UNCHANGED <<server, jobs>>
  PROVE  IndInv' /\ NoneBack
<1> DEFINE K == Known(ghost.n, waits)
           L == Known(r.n, r.w)
<1>1. /\ page' = [page EXCEPT ![p] = r.d] /\ waits' = r.w /\ ghost'.n = r.n
      /\ ghost'.left = left /\ server' = server /\ jobs' = jobs
  BY DEF Ran
<1>2. ghost' \in [left : {left}, n : {r.n}, starts : {ghost'.starts},
                  auto : {ghost'.auto}, asked : {ghost'.asked}]
  BY DEF Ran
<1>3. Ended' = Ended
  BY <1>1 DEF Ended, Running
<1>4. K \subseteq L /\ K \cap Ended \subseteq Ended
  BY DEF Begins, Leads
<1>5. Known(ghost'.n, waits') = L
  BY <1>1
<1>6. Sane(r) /\ r.n \in Nat
  BY DEF Leads, Sane
<1>7. /\ page \in [Pages -> {page[q] : q \in Pages}] /\ \A q \in Pages : IsPage(page[q], K, Ended)
  BY DEF IndInv
<1>8. \A q \in Pages : page'[q] = IF q = p THEN r.d ELSE page[q]
  BY <1>1, <1>7
<1> HIDE DEF K, L
<1>9. Counted'
  BY <1>1, <1>2, <1>6 DEF Counted
<1>10. page' \in [Pages -> {page'[q] : q \in Pages}]
  BY <1>1, <1>7
<1>11. \A q \in Pages : IsPage(page'[q], L, Ended)
  <2> TAKE q \in Pages
  <2>1. CASE q = p
    BY <1>6, <1>8, <2>1 DEF Sane, L
  <2>2. CASE q # p
    <3>1. IsPage(page[q], L, Ended)
      BY <1>4, <1>7, PageGrows
    <3> QED BY <1>8, <2>2, <3>1
  <2> QED BY <2>1, <2>2
<1>12. server' \in [tasks : Seq(Fine(L, Ended)), removed : SUBSET Gone(L, Ended)]
  <2>1. server \in [tasks : Seq(Fine(K, Ended)), removed : SUBSET Gone(K, Ended)]
    BY DEF IndInv, K
  <2>2. /\ Gone(K, Ended) \subseteq Gone(L, Ended)
        /\ \A l \in Seq(Fine(K, Ended)) : l \in Seq(Fine(L, Ended))
    BY <1>4, Grows
  <2> QED BY <1>1, <2>1, <2>2
<1>13. \A w \in waits' : IsWait(w, L, Ended)
  BY <1>1, <1>6 DEF Sane, L
<1>14. Numbered(waits', ghost'.n)
  BY <1>1, <1>6 DEF Sane
<1>15. JobsAreSound'
  <2>1. \A n \in DOMAIN jobs.at : n \in Nat /\ n > 0 /\ n <= ghost.n
    BY DEF IndInv, JobsAreSound
  <2>2. ASSUME NEW n \in DOMAIN jobs.at PROVE n <= r.n /\ \A w \in r.w : w.new = n => w.at = "ok"
    <3>1. CASE \E v \in waits : v.new = n
      <4>1. PICK v \in waits : v.new = n
        BY <3>1
      <4>2. v.at = "ok" /\ v.new > 0
        BY <2>1, <4>1 DEF IndInv, JobsAreSound
      <4>3. CASE v \in s.w
        <5>1. v \in r.w
          BY <4>3 DEF Leads
        <5> QED BY <1>6, <4>1, <4>2, <5>1 DEF Sane, Numbered
      <4>4. CASE v \notin s.w
        <5>1. Session(n) \in L
          BY <4>1, <4>2, <4>4 DEF Begins, Leads, L
        <5>2. Session(n)[2] = n
          BY DEF Session
        <5> QED BY <2>1, <5>1, <5>2 DEF Known, L
      <4> QED BY <4>3, <4>4
    <3>2. CASE ~\E v \in waits : v.new = n
      <4>1. /\ Session(n) \in Id /\ Session(n)[2] = n
            /\ \A w \in waits : w.new > 0 => Session(n) # Session(w.new)
        BY <2>1, <3>2 DEF Session, Id
      <4>2. Session(n) \in K
        BY <2>1, <4>1 DEF Known, K
      <4>3. Session(n) \in L
        BY <1>4, <4>2
      <4> QED BY <2>1, <4>1, <4>3 DEF Known, L
    <3> QED BY <3>1, <3>2
  <2> QED BY <1>1, <2>2 DEF IndInv, JobsAreSound
<1>16. ASSUME NoStalls PROVE JobIsListed'
  <2> SUFFICES ASSUME NEW n \in DOMAIN jobs.at, Running(n)
               PROVE  \/ \E q \in Pages : Session(n) \in Ids(page'[q].tasks)
                      \/ \E w \in waits' : w.new = n /\ w.at = "ok"
    BY <1>1 DEF JobIsListed, Running
  <2>1. n \in Nat /\ n > 0
    BY DEF IndInv, JobsAreSound
  <2>2. Session(n) \notin Ended
    BY DEF Ended, Session
  <2>3. CASE \E q \in Pages : Session(n) \in Ids(page[q].tasks)
    <3>1. PICK q \in Pages : Session(n) \in Ids(page[q].tasks)
      BY <2>3
    <3>2. CASE q # p
      BY <1>8, <3>1, <3>2
    <3>3. CASE q = p
      <4>1. Session(n) \in Ids(r.d.tasks)
        BY <1>16, <2>2, <3>1, <3>3 DEF Begins, Leads
      <4> QED BY <1>8, <4>1
    <3> QED BY <3>2, <3>3
  <2>4. CASE \E w \in waits : w.new = n /\ w.at = "ok"
    <3>1. PICK w \in waits : w.new = n /\ w.at = "ok"
      BY <2>4
    <3>2. CASE w \in s.w
      BY <1>1, <3>1, <3>2 DEF Leads
    <3>3. CASE w \notin s.w
      <4>1. Session(n) \in Ids(r.d.tasks)
        BY <1>16, <2>1, <2>2, <3>1, <3>3 DEF Listed
      <4> QED BY <1>8, <4>1
    <3> QED BY <3>2, <3>3
  <2> QED BY <1>16, <2>3, <2>4 DEF IndInv, JobIsListed
<1>a. ASSUME Alone PROVE IsPushed'
  <2>1. IsPushed /\ Pushes(page[p].mem, page[p].tasks, r.d.mem, r.d.tasks)
    BY <1>a DEF IndInv, Begins, Leads
  <2>2. page[p].tomb \subseteq r.d.tomb
    BY DEF Begins, Leads
  <2> QED BY <1>1, <1>8, <2>1, <2>2, CookbookAssumption DEF IsPushed, Pushes
<1>17. IndInv'
  BY <1>3, <1>5, <1>9, <1>10, <1>11, <1>12, <1>13, <1>14, <1>15, <1>16, <1>a DEF IndInv
<1>18. NoneBack
  <2> SUFFICES ASSUME NEW q \in Pages, NEW id \in page[q].tomb, id \notin Ids(page[q].tasks)
               PROVE  id \notin Ids(page'[q].tasks)
    BY DEF NoneBack
  <2>1. CASE q # p
    BY <1>8, <2>1
  <2>2. CASE q = p
    <3>1. id \in r.d.tomb
      BY <2>2 DEF Begins, Leads
    <3> QED BY <1>6, <1>8, <2>2, <3>1, PageIs
  <2> QED BY <2>1, <2>2
<1> QED BY <1>17, <1>18

LEMMA FreeKeeps ==
  ASSUME IndInv, NEW p \in Pages, NEW s, NEW r, Begins(p, s), Leads(s, r), Listed(s, r),
         Free(p, r), UNCHANGED <<server, jobs>>
  PROVE  IndInv' /\ NoneBack
BY RanKeeps DEF IndInv, Counted, Free

LEMMA PaidKeeps ==
  ASSUME IndInv, NEW p \in Pages, NEW s, NEW r, Begins(p, s), Leads(s, r), Listed(s, r),
         NEW what \in Spendable, Paid(what, p, r), UNCHANGED <<server, jobs>>
  PROVE  what # "clears" /\ IndInv' /\ NoneBack
<1> DEFINE left == [ghost.left EXCEPT ![what] = @ - 1]
<1>1. ghost.left \in [Spendable -> Nat] /\ Bounded(ghost.left) /\ ghost.left[what] > 0
  BY DEF IndInv, Counted, Paid, Can
<1>2. left \in [Spendable -> Nat] /\ Bounded(left) /\ what # "clears"
  BY <1>1 DEF Spendable, Bounded, Late
<1>3. Ran(p, r, left)
  BY DEF Paid
<1> HIDE DEF left
<1> QED BY <1>1, <1>2, <1>3, RanKeeps

\* A page alone awaits no list.
LEMMA IsLate ==
  ASSUME IndInv, NEW w \in waits, w.what \in {"state", "init", "open"}
  PROVE  ~Alone
<1>1. w.what \in Kinds
  BY DEF IndInv, IsWait
<1> QED BY <1>1 DEF Kinds, Launching, Killing

\* Nor does it do what makes it await one.
LEMMA CanBeLate ==
  ASSUME IndInv, NEW what \in Late, Can(what)
  PROVE  ~Alone
<1>1. Alone => ghost.left[what] = 0
  BY DEF IndInv, Counted, Bounded
<1> QED BY <1>1 DEF Can

\* What an answered handler finds in what it waited for.
LEMMA AnsweredIs ==
  ASSUME IndInv, NEW w \in waits
  PROVE  LET s == Answered(w)
             K == Known(s.n, s.w)
         IN  /\ w.p \in Pages /\ Begins(w.p, s) /\ Sane(s) /\ IsWait(w, K, Ended)
             /\ w.task \in Rows /\ w.card \in Id
             /\ w.list \in Seq(Fine(K, Ended)) /\ w.ids \in SUBSET Gone(K, Ended)
             /\ w.what # "add" => w.task \in Fine(K, Ended)
<1> DEFINE s == Answered(w)
<1>1. w.p \in Pages /\ Begins(w.p, s) /\ IsWait(w, Known(s.n, s.w), Ended)
  BY BeginsAnswered
<1> HIDE DEF s
<1>2. Sane(s)
  BY <1>1 DEF Begins
<1> QED BY <1>1, <1>2 DEF IsWait, s

\* A handler that was waiting for no launch.
LEMMA AnsweredKeeps ==
  ASSUME IndInv, NEW w \in waits, w.what \notin Launching, NEW r, Leads(Answered(w), r),
         Free(w.p, r) \/ \E what \in Spendable : Paid(what, w.p, r),
         UNCHANGED <<server, jobs>>
  PROVE  IndInv' /\ NoneBack
<1> DEFINE s == Answered(w)
<1>1. w.p \in Pages /\ Begins(w.p, s) /\ s.w = waits \ {w}
  BY BeginsAnswered
<1>2. w.new = 0
  BY DEF IndInv, IsWait
<1> HIDE DEF s
<1>3. Listed(s, r)
  BY <1>1, <1>2 DEF Listed
<1>4. Leads(s, r)
  BY DEF s
<1>5. CASE Free(w.p, r)
  BY <1>1, <1>3, <1>4, <1>5, FreeKeeps
<1>6. CASE \E what \in Spendable : Paid(what, w.p, r)
  BY <1>1, <1>3, <1>4, <1>6, PaidKeeps
<1> QED BY <1>5, <1>6

\* A handler that was waiting for a launch.
LEMMA LaunchKeeps ==
  ASSUME IndInv, NEW w \in waits, NEW r, Leads(Answered(w), r),
         NoStalls /\ w.at = "ok" => Session(w.new) \in Ids(r.d.tasks) \cup Ended,
         Free(w.p, r), UNCHANGED <<server, jobs>>
  PROVE  IndInv' /\ NoneBack
<1> DEFINE s == Answered(w)
<1>1. w.p \in Pages /\ Begins(w.p, s) /\ s.w = waits \ {w}
  BY BeginsAnswered
<1> HIDE DEF s
<1>3. Listed(s, r)
  BY <1>1 DEF Listed
<1>4. Leads(s, r)
  BY DEF s
<1> QED BY <1>1, <1>3, <1>4, FreeKeeps

\* The answer to a launch is good or bad, and names a session nobody knew.
LEMMA LaunchAnswered ==
  ASSUME IndInv, NEW w \in waits, w.what \in Launching, w.at # "sent"
  PROVE  LET s == Answered(w)
         IN  /\ w.at \in {"ok", "bad"}
             /\ Session(w.new) \in Known(s.n, s.w) /\ Session(w.new) \notin s.d.tomb
<1>1. IsWait(w, Known(ghost.n, waits), Ended)
  BY DEF IndInv
<1>2. w.new > 0 /\ w.what \notin Killing
  BY <1>1 DEF IsWait, Launching, Killing
<1>3. w.at \in {"ok", "bad"}
  BY <1>1, <1>2 DEF IsWait
<1> DEFINE s == Answered(w)
<1>4. Session(w.new) \in Known(s.n, s.w) /\ Session(w.new) \notin s.d.tomb
  BY <1>2, BeginsAnswered
<1> QED BY <1>3, <1>4

\* The same for a handler that starts by itself.
LEMMA StateKeeps ==
  ASSUME IndInv, NEW p \in Pages, NEW r, Leads(State(p), r),
         Free(p, r) \/ \E what \in Spendable : Paid(what, p, r), UNCHANGED <<server, jobs>>
  PROVE  IndInv' /\ NoneBack
<1> DEFINE s == State(p)
<1>1. Begins(p, s) /\ s.w = waits /\ Leads(s, r)
  BY BeginsState
<1> HIDE DEF s
<1>2. Listed(s, r)
  BY <1>1 DEF Listed
<1>3. CASE Free(p, r)
  BY <1>1, <1>2, <1>3, FreeKeeps
<1>4. CASE \E what \in Spendable : Paid(what, p, r)
  BY <1>1, <1>2, <1>4, PaidKeeps
<1> QED BY <1>3, <1>4

LEMMA StateIs ==
  ASSUME IndInv, NEW p \in Pages
  PROVE  LET s == State(p)
             K == Known(s.n, s.w)
         IN  /\ Sane(s) /\ s.d = page[p] /\ s.w = waits /\ s.n = ghost.n
             /\ page[p].tasks \in Seq(Fine(K, Ended))
             /\ IsMemory(page[p].mem) /\ IsDeck(page[p].mem.cards, K, Ended)
<1> DEFINE s == State(p)
<1>1. Begins(p, s) /\ s.w = waits
  BY BeginsState
<1> HIDE DEF s
<1>2. Sane(s) /\ s.d = page[p] /\ s.n = ghost.n
  BY <1>1 DEF Begins
<1>3. /\ s.d.tasks \in Seq(Fine(Known(s.n, s.w), Ended))
      /\ IsMemory(s.d.mem) /\ IsDeck(s.d.mem.cards, Known(s.n, s.w), Ended)
  BY <1>2, PageIs
<1> QED BY <1>1, <1>2, <1>3 DEF s

\* A session that has gone is not downloading.
LEMMA GoneIsEnded ==
  ASSUME NEW id \in Id, ~Alive(id)
  PROVE  id \in Ended
BY DEF Alive, Ended, Running

\* The statuses that are reported: what has settled downloads no more.
LEMMA StatusesAreFine ==
  ASSUME IndInv, NEW L, Known(ghost.n, waits) \subseteq L
  PROVE  Statuses \in Seq(Fine(L, Ended))
<1> DEFINE l == server.tasks
           S == Fine(L, Ended)
           r == [i \in DOMAIN l |-> [l[i] EXCEPT !.status = StatusOf(l[i])]]
<1>1. l \in Seq(S)
  <2> DEFINE K == Known(ghost.n, waits)
  <2>1. l \in Seq(Fine(K, Ended))
    BY DEF IndInv
  <2>2. K \cap Ended \subseteq Ended /\ K \subseteq L
    OBVIOUS
  <2> HIDE DEF K, l
  <2> QED BY <2>1, <2>2, Grows
<1>2. \A i \in DOMAIN l : r[i] \in S
  <2> TAKE i \in DOMAIN l
  <2> DEFINE t == l[i]
             status == StatusOf(t)
             u == [t EXCEPT !.status = status]
  <2>1. t \in S
    BY <1>1
  <2>2. t \in Rows /\ t.id \in L /\ t.id \in Id
    BY <2>1 DEF Fine, Rows
  <2>3. r[i] = u
    OBVIOUS
  <2> HIDE DEF t
  <2>4. status \in {"done", "error", "crashed", "running"}
    BY DEF StatusOf
  <2>5. NoStalls /\ status # "running" => t.id \in Ended
    <3> SUFFICES ASSUME NoStalls, status # "running" PROVE t.id \in Ended
      OBVIOUS
    <3>1. CASE t.status \in Settled
      BY <2>1, <3>1 DEF Fine
    <3>2. CASE ~Alive(t.id)
      BY <2>2, <3>2, GoneIsEnded
    <3>3. CASE t.status \notin Settled /\ Alive(t.id)
      <4>1. jobs.at[t.id[2]] \in {"gone", "ok", "failed"}
        BY <3>3 DEF StatusOf, Settled, Alive
      <4> QED BY <2>2, <4>1 DEF Ended, Running
    <3> QED BY <3>1, <3>2, <3>3
  <2> HIDE DEF status
  <2>6. u \in Rows /\ u.id = t.id /\ u.status = status
    BY <2>2, <2>4 DEF Rows, Settled
  <2> HIDE DEF u, r
  <2>7. u \in S
    BY <2>2, <2>4, <2>5, <2>6 DEF Fine, Settled
  <2> QED BY <2>3, <2>7
<1>3. Len(l) \in Nat /\ DOMAIN l = 1..Len(l) /\ r = [i \in DOMAIN l |-> r[i]]
  BY <1>1
<1> HIDE DEF l, S, r
<1>4. r \in [1..Len(l) -> S]
  BY <1>2, <1>3
<1>5. r \in Seq(S)
  BY <1>3, <1>4
<1> QED BY <1>5 DEF Statuses, r, l, S

-----------------------------------------------------------------------------
(* One step per action: what a page goes on with.                           *)

\* A row is set to a status, and the list is rendered.
LEMMA StatusRenderedLeads ==
  ASSUME NEW s, Sane(s), NEW id, NEW status \in {"running"} \cup Settled,
         NoStalls /\ status \in Settled => id \in Ended
  PROVE  Leads(s, RenderRunningTab(SetStatus(s, id, status)))
<1> DEFINE a == SetStatus(s, id, status)
           r == RenderRunningTab(a)
<1>1. Leads(s, a)
  BY SetStatusLeads
<1> HIDE DEF a
<1>2. Sane(a)
  BY <1>1 DEF Leads
<1>3. Leads(a, r)
  BY <1>2, RenderLeads
<1> QED BY <1>1, <1>3, LeadsOn DEF a

LEMMA StatusLeads ==
  ASSUME NEW s, Sane(s), NEW id, NEW status \in {"running"} \cup Settled,
         NoStalls /\ status \in Settled => id \in Ended
  PROVE  Leads(s, SetStatus(s, id, status))
<1> DEFINE a == SetStatus(s, id, status)
<1>1. Leads(s, a)
  BY SetStatusLeads
<1> QED BY <1>1

LEMMA ProbedKeeps ==
  ASSUME IndInv, NEW w \in waits, Probed(w)
  PROVE  IndInv' /\ NoneBack
<1> DEFINE s == Answered(w)
           a == RenderRunningTab(SetStatus(s, w.task.id, "running"))
           b == QueueOrPost(s, w.p, w.task.repo, w.list)
           r == IF Alive(w.task.id) THEN a ELSE b
<1>1. w.p \in Pages /\ Sane(s) /\ w.task \in Rows
  BY AnsweredIs
<1>2. /\ Free(w.p, r) \/ Paid("lost", w.p, b)
      /\ w.what \notin Launching /\ "lost" \in Spendable /\ UNCHANGED <<server, jobs>>
  BY DEF Probed, Launching, Spendable
<1>3. Leads(s, a)
  BY <1>1, StatusRenderedLeads DEF Settled
<1>4. Leads(s, b)
  BY <1>1, QueueOrPostLeads DEF Rows
<1>5. Leads(s, r)
  BY <1>3, <1>4
<1> HIDE DEF r, b, s
<1>6. Leads(Answered(w), r) /\ Leads(Answered(w), b)
  BY <1>4, <1>5 DEF s
<1> QED BY <1>2, <1>6, AnsweredKeeps

LEMMA AddAnsweredKeeps ==
  ASSUME IndInv, NEW w \in waits, AddAnswered(w)
  PROVE  IndInv' /\ NoneBack
<1> DEFINE s == Answered(w)
           new == Session(w.new)
           a == AddTask(s, new, w.task.repo)
           r == IF w.at = "bad" THEN s ELSE a
<1>1. w.p \in Pages /\ Sane(s) /\ w.task \in Rows
  BY AnsweredIs
<1>2. Free(w.p, r) /\ w.what \in Launching /\ w.at # "sent" /\ UNCHANGED <<server, jobs>>
  BY DEF AddAnswered, Launching
<1>3. w.at \in {"ok", "bad"} /\ new \in Known(s.n, s.w) /\ new \notin s.d.tomb
  BY <1>2, LaunchAnswered
<1> HIDE DEF s, new
<1>4. Leads(s, a) /\ new \in Ids(a.d.tasks) \cup Ended
  <2>1. w.task.repo \in Repos
    BY <1>1 DEF Rows
  <2> QED BY <1>1, <1>3, <2>1, AddTaskLeads
<1>5. Leads(s, r) /\ (w.at = "ok" => new \in Ids(r.d.tasks) \cup Ended)
  BY <1>1, <1>4, LeadsNowhere
<1> HIDE DEF r
<1> QED BY <1>2, <1>5, LaunchKeeps DEF s, new

LEMMA StartAnsweredKeeps ==
  ASSUME IndInv, NEW w \in waits, StartAnswered(w)
  PROVE  IndInv' /\ NoneBack
<1> DEFINE s == Answered(w)
           new == Session(w.new)
           a == Launched(s, w)
           b == RenderRunningTab(SetStatus(s, w.task.id, "error"))
           r == IF w.at = "ok" THEN a ELSE b
<1>1. /\ w.p \in Pages /\ Sane(s) /\ w.task \in Rows /\ IsWait(w, Known(s.n, s.w), Ended)
      /\ w.what # "add" => w.task \in Fine(Known(s.n, s.w), Ended)
  BY AnsweredIs
<1>2. Free(w.p, r) /\ w.what \in Launching /\ w.at # "sent" /\ UNCHANGED <<server, jobs>>
      /\ w.what = "start"
  BY DEF StartAnswered, Launching
<1>3. new \in Known(s.n, s.w) /\ new \notin s.d.tomb
  BY <1>2, LaunchAnswered
<1>4. w.task.id[1] = "queue" /\ w.task.id \in Ended
  <2>1. w.task.id[1] = "queue" /\ w.task.id \in Id
    BY <1>1, <1>2 DEF IsWait, Rows
  <2> QED BY <2>1 DEF Ended
<1> HIDE DEF s
<1>5. Leads(s, a) /\ new \in Ids(a.d.tasks) \cup Ended
  BY <1>1, <1>2, <1>3, <1>4, LaunchedLeads
<1>6. Leads(s, b)
  BY <1>1, <1>4, StatusRenderedLeads DEF Settled
<1> HIDE DEF a, b, new
<1>7. Leads(s, r) /\ (w.at = "ok" => new \in Ids(r.d.tasks) \cup Ended)
  BY <1>5, <1>6
<1> HIDE DEF r
<1> QED BY <1>2, <1>7, LaunchKeeps DEF s, new

Renamed(s, id, new) ==
  UpdateTask(s, id, LAMBDA t : [t EXCEPT !.id = new, !.status = "running"])

\* A row of the list gets the id of its new session.
LEMMA RenamedLeads ==
  ASSUME NEW s, Sane(s), NEW id, NoStalls => id \in Ended,
         NEW new \in Known(s.n, s.w), new \notin s.d.tomb
  PROVE  LET r == Renamed(s, id, new)
         IN  /\ Leads(s, r)
             /\ r.d.mem.cards = s.d.mem.cards
             /\ r.w = s.w /\ r.n = s.n
             /\ id \in Ids(s.d.tasks) => new \in Ids(r.d.tasks)
<1> DEFINE k == s.d.tasks
           l == [i \in DOMAIN k |-> IF k[i].id = id
                    THEN [k[i] EXCEPT !.id = new, !.status = "running"] ELSE k[i]]
           K == Known(s.n, s.w)
           r == Renamed(s, id, new)
           q == Updated(s, id, l)
<1>1. r = q
  BY DEF Renamed, UpdateTask, Edit, Updated
<1>2. \A i \in DOMAIN k : k[i] \in Fine(K, Ended)
  BY PageIs
<1>3. new \in Id /\ new \in K
  BY DEF Known
<1>4. \A i \in DOMAIN k :
        IF k[i].id = id THEN l[i] \in Fine(K, Ended) /\ l[i].id = new ELSE l[i] = k[i]
  <2> SUFFICES ASSUME NEW i \in DOMAIN k, k[i].id = id
               PROVE  l[i] \in Fine(K, Ended) /\ l[i].id = new
    OBVIOUS
  <2> DEFINE t == k[i]
             u == [t EXCEPT !.id = new, !.status = "running"]
  <2>1. l[i] = u
    OBVIOUS
  <2>2. t \in Rows
    BY <1>2 DEF Fine
  <2> HIDE DEF t, l, K
  <2>3. u \in [id : {new}, repo : {t.repo}, status : {"running"}, launched : BOOLEAN,
               restarted : {t.restarted}]
    BY <2>2 DEF Rows
  <2> HIDE DEF u
  <2>4. u \in Fine(K, Ended) /\ u.id = new
    BY <1>3, <2>2, <2>3, RowLaunched
  <2> QED BY <2>1, <2>4
<1>5. l = [i \in DOMAIN k |-> l[i]]
  OBVIOUS
<1> HIDE DEF l, r
<1>6. Rewrites(s, q, id, new)
  <2>1. Edited(s.d.tasks, l, id, new, Fine(Known(s.n, s.w), Ended))
    BY <1>4, <1>5 DEF Edited
  <2>2. MayBecome(s, id, new)
    BY DEF MayBecome
  <2> QED BY <2>1, <2>2, UpdateLeads
<1> HIDE DEF q
<1> QED BY <1>1, <1>6 DEF r, Rewrites

LEMMA ReplaceAnsweredKeeps ==
  ASSUME IndInv, NEW w \in waits, ReplaceAnswered(w)
  PROVE  IndInv' /\ NoneBack
<1> DEFINE s == Answered(w)
           new == Session(w.new)
           id == w.task.id
           a == SetStatus(s, id, "crashed")
           q == Renamed(s, id, new)
           b == RenderRunningTab(q)
           c == AddTask(s, new, w.task.repo)
           r == IF w.at = "bad" THEN a ELSE IF id \in Ids(s.d.tasks) THEN b ELSE c
<1>1. /\ w.p \in Pages /\ Sane(s) /\ w.task \in Rows /\ IsWait(w, Known(s.n, s.w), Ended)
  BY AnsweredIs
<1>2. Free(w.p, r) /\ w.what \in Launching /\ w.at # "sent" /\ UNCHANGED <<server, jobs>>
      /\ w.what = "replace"
  BY DEF ReplaceAnswered, Launching, Renamed, UpdateTask, Edit
<1>3. new \in Known(s.n, s.w) /\ new \notin s.d.tomb /\ w.at \in {"ok", "bad"}
  BY <1>2, LaunchAnswered
<1>4. NoStalls => id \in Ended
  BY <1>1, <1>2 DEF IsWait
<1> HIDE DEF s, new, id
<1>5. Leads(s, a)
  BY <1>1, <1>4, StatusLeads DEF Settled
<1>6. Leads(s, q) /\ (id \in Ids(s.d.tasks) => new \in Ids(q.d.tasks))
  BY <1>1, <1>3, <1>4, RenamedLeads
<1> HIDE DEF q
<1>7. Leads(q, b) /\ Ids(q.d.tasks) \subseteq Ids(b.d.tasks) \cup Ended
  <2>1. Sane(q)
    BY <1>6 DEF Leads
  <2> QED BY <2>1, RenderLeads
<1>8. Leads(s, b)
  BY <1>6, <1>7, LeadsOn
<1>9. Leads(s, c) /\ new \in Ids(c.d.tasks) \cup Ended
  BY <1>1, <1>3, AddTaskLeads DEF Rows
<1> HIDE DEF a, b, c
<1>10. Leads(s, r) /\ (w.at = "ok" => new \in Ids(r.d.tasks) \cup Ended)
  BY <1>5, <1>6, <1>7, <1>8, <1>9
<1> HIDE DEF r
<1> QED BY <1>2, <1>10, LaunchKeeps DEF s, new

\* One card changes.
LEMMA CardLeads ==
  ASSUME NEW s, Sane(s), NEW c \in DOMAIN s.d.mem.cards, NEW card,
         card \in [task : Fine(Known(s.n, s.w), Ended), loop : Loops],
         card.task.id[1] = c[1], NoStalls => card.task.id = c
  PROVE  LET r == [s EXCEPT !.d.mem.cards[c] = card]
         IN  /\ Leads(s, r)
             /\ r.d.tasks = s.d.tasks /\ r.d.tomb = s.d.tomb
             /\ r.w = s.w /\ r.n = s.n
<1> DEFINE old == s.d.mem.cards
           cards == [old EXCEPT ![c] = card]
           r == [s EXCEPT !.d.mem.cards[c] = card]
           q == [s EXCEPT !.d.mem.cards = cards]
           K == Known(s.n, s.w)
           Cards == [task : Fine(K, Ended), loop : Loops]
<1>1. IsDeck(old, K, Ended)
  BY PageIs
<1>2. r = q
  OBVIOUS
<1>3. /\ \A k \in DOMAIN old : /\ old[k] \in Cards /\ old[k].task.id[1] = k[1]
                               /\ NoStalls => old[k].task.id = k
      /\ DOMAIN old \subseteq K /\ old \in [DOMAIN old -> Cards] /\ card \in Cards
  BY <1>1 DEF IsDeck, Loops
<1> HIDE DEF old, r, q, K, Cards
<1>4. \A k \in DOMAIN old : /\ cards[k] \in Cards /\ cards[k].task.id[1] = k[1]
                            /\ NoStalls => cards[k].task.id = k
  BY <1>3
<1>5. cards \in [DOMAIN old -> Cards] /\ DOMAIN cards = DOMAIN old
  BY <1>3
<1> HIDE DEF cards
<1>6. IsDeck(cards, K, Ended)
  BY <1>3, <1>4, <1>5 DEF IsDeck, Cards, Loops
<1>7. /\ Leads(s, q) /\ q.d.tasks = s.d.tasks /\ q.d.tomb = s.d.tomb
      /\ q.w = s.w /\ q.n = s.n
  BY <1>6, CardsLead DEF q, K
<1> QED BY <1>2, <1>7 DEF r

LEMMA RestallAnsweredKeeps ==
  ASSUME IndInv, NEW w \in waits, RestallAnswered(w)
  PROVE  IndInv' /\ NoneBack
<1> DEFINE s == Answered(w)
           new == Session(w.new)
           id == w.task.id
           has == w.card \in DOMAIN s.d.mem.cards
           busy == has /\ s.d.mem.cards[w.card].loop = "busy"
           q == IF w.at = "bad" THEN s ELSE Renamed(s, id, new)
           old == q.d.mem.cards[w.card]
           card == [task |-> IF w.at = "bad" THEN old.task ELSE [old.task EXCEPT !.id = new],
                    loop |-> IF ~busy THEN old.loop ELSE IF w.at = "bad" THEN "over" ELSE "idle"]
           a == [q EXCEPT !.d.mem.cards[w.card] = card]
           r == IF ~has THEN q ELSE a
<1>1. /\ w.p \in Pages /\ Sane(s) /\ w.task \in Rows /\ IsWait(w, Known(s.n, s.w), Ended)
  BY AnsweredIs
<1>2. w.what = "restall" /\ w.at # "sent" /\ UNCHANGED <<server, jobs>>
  BY DEF RestallAnswered
<1>r. Free(w.p, r)
  BY DEF RestallAnswered, Renamed, UpdateTask, Edit
<1>3. w.what \in Launching
  BY <1>2 DEF Launching
<1>4. new \in Known(s.n, s.w) /\ new \notin s.d.tomb
  BY <1>2, <1>3, LaunchAnswered
<1>5. ~NoStalls /\ w.card[1] = "session"
  BY <1>1, <1>2 DEF IsWait
<1> HIDE DEF s, id
<1>6. Leads(s, q) /\ q.d.mem.cards = s.d.mem.cards /\ q.w = s.w /\ q.n = s.n
  <2>1. /\ Leads(s, Renamed(s, id, new)) /\ Renamed(s, id, new).d.mem.cards = s.d.mem.cards
        /\ Renamed(s, id, new).w = s.w /\ Renamed(s, id, new).n = s.n
    <3> DEFINE b == Renamed(s, id, new)
    <3>1. Leads(s, b) /\ b.d.mem.cards = s.d.mem.cards /\ b.w = s.w /\ b.n = s.n
      BY <1>1, <1>4, <1>5, RenamedLeads
    <3> QED BY <3>1
  <2> QED BY <1>1, <2>1, LeadsNowhere
<1> HIDE DEF q
<1>7. ASSUME has PROVE Leads(q, a)
  <2>1. Sane(q) /\ IsDeck(q.d.mem.cards, Known(q.n, q.w), Ended)
    <3>1. Sane(q)
      BY <1>6 DEF Leads
    <3> QED BY <3>1, PageIs
  <2> DEFINE K == Known(q.n, q.w)
  <2>2. /\ old.task \in Fine(K, Ended) /\ old.loop \in Loops /\ old.task.id[1] = "session"
        /\ w.card \in DOMAIN q.d.mem.cards
    BY <1>5, <1>6, <1>7, <2>1 DEF IsDeck, Loops
  <2>3. new \in K /\ new \in Id /\ new[1] = "session"
    BY <1>4, <1>6 DEF Known, Session
  <2> HIDE DEF K, new, old
  <2>4. [old.task EXCEPT !.id = new] \in Fine(K, Ended) /\ [old.task EXCEPT !.id = new].id = new
    <3> DEFINE t == old.task
               u == [t EXCEPT !.id = new]
    <3>1. t \in Rows /\ t.status # "queued"
      BY <2>2 DEF Fine
    <3>2. u \in Rows /\ u.id = new /\ u.status = t.status
      BY <2>3, <3>1 DEF Rows
    <3> HIDE DEF u
    <3>3. u \in Fine(K, Ended)
      BY <1>5, <2>3, <3>1, <3>2 DEF Fine
    <3> QED BY <3>2, <3>3 DEF u
  <2>5. card.task \in Fine(K, Ended) /\ card.task.id[1] = "session"
    BY <2>2, <2>3, <2>4
  <2>6. card.loop \in Loops
    BY <2>2 DEF Loops
  <2>7. card = [task |-> card.task, loop |-> card.loop]
    OBVIOUS
  <2> HIDE DEF card
  <2>8. card \in [task : Fine(K, Ended), loop : Loops]
    BY <2>5, <2>6, <2>7
  <2> DEFINE b == [q EXCEPT !.d.mem.cards[w.card] = card]
  <2>9. Leads(q, b)
    BY <1>5, <2>1, <2>2, <2>5, <2>8, CardLeads DEF K
  <2> QED BY <2>9
<1> HIDE DEF a
<1>8. Leads(s, r)
  BY <1>6, <1>7, LeadsOn
<1> HIDE DEF r
<1> QED BY <1>5, <1>r, <1>2, <1>8, LaunchKeeps DEF s

\* _reconnectTask.
LEMMA RewatchLeads ==
  ASSUME NEW s, Sane(s), NEW c
  PROVE  Leads(s, Rewatch(s, c))
<1> DEFINE r == [s EXCEPT !.d.mem.cards[c].loop = "idle"]
<1>1. ASSUME c \in DOMAIN s.d.mem.cards PROVE Leads(s, r)
  BY <1>1, LoopLeads DEF Loops
<1>2. Leads(s, s)
  BY LeadsNowhere
<1> HIDE DEF r
<1>3. Rewatch(s, c) = r \/ Rewatch(s, c) = s
  BY DEF Rewatch, r
<1>4. c \notin DOMAIN s.d.mem.cards => Rewatch(s, c) = s
  BY DEF Rewatch
<1> QED BY <1>1, <1>2, <1>3, <1>4

LEMMA ConfirmedKeeps ==
  ASSUME IndInv, NEW w \in waits, Confirmed(w)
  PROVE  IndInv' /\ NoneBack
<1> DEFINE s == Answered(w)
           id == w.task.id
           m == SetStatus(s, id, "running")
           a == Rewatch(m, id)
           b == RenderRunningTab(SetStatus(s, id, "done"))
           c == ProcessQueue(b, w.p)
           r == IF id \notin Ids(s.d.tasks) THEN s ELSE IF Alive(id) THEN a ELSE c
<1>1. w.p \in Pages /\ Sane(s) /\ w.task \in Rows
  BY AnsweredIs
<1>2. /\ Free(w.p, r) \/ Paid("lost", w.p, a)
      /\ w.what \notin Launching /\ "lost" \in Spendable /\ UNCHANGED <<server, jobs>>
  BY DEF Confirmed, Launching, Spendable
<1> HIDE DEF s
<1>m. Leads(s, m)
  BY <1>1, StatusLeads DEF Settled
<1> HIDE DEF m
<1>3. Leads(s, a)
  <2>1. Sane(m)
    BY <1>m DEF Leads
  <2>2. Leads(m, a)
    BY <2>1, RewatchLeads
  <2> HIDE DEF a
  <2> QED BY <1>m, <2>2, LeadsOn
<1>4. ASSUME ~Alive(id) PROVE Leads(s, c)
  <2>1. id \in Ended
    BY <1>1, <1>4, GoneIsEnded DEF Rows
  <2>2. Leads(s, b)
    BY <1>1, <2>1, StatusRenderedLeads DEF Settled
  <2> HIDE DEF b
  <2>3. Sane(b)
    BY <2>2 DEF Leads
  <2>4. Leads(b, c)
    BY <1>1, <2>3, ProcessQueueLeads
  <2> QED BY <2>2, <2>4, LeadsOn
<1> HIDE DEF a, c
<1>5. Leads(s, r)
  BY <1>1, <1>3, <1>4, LeadsNowhere
<1> HIDE DEF r
<1>6. Leads(Answered(w), r) /\ Leads(Answered(w), a)
  BY <1>3, <1>5 DEF s
<1> QED BY <1>2, <1>6, AnsweredKeeps

LEMMA StallKilledKeeps ==
  ASSUME IndInv, NEW w \in waits, StallKilled(w)
  PROVE  IndInv' /\ NoneBack
<1> DEFINE s == Answered(w)
           what == "restall"
           n == s.n + 1
           x == [w EXCEPT !.what = what, !.at = "sent", !.new = n]
           X == {x}
           r == [s EXCEPT !.n = @ + 1, !.w = @ \cup X]
           K == Known(s.n, s.w)
<1>1. /\ w.p \in Pages /\ Sane(s) /\ w.task \in Rows /\ IsWait(w, K, Ended)
      /\ w.list \in Seq(Fine(K, Ended)) /\ w.ids \in SUBSET Gone(K, Ended) /\ w.card \in Id
      /\ w.what # "add" => w.task \in Fine(K, Ended)
  BY AnsweredIs
<1>2. Free(w.p, r) /\ w.what \notin Launching /\ UNCHANGED <<server, jobs>> /\ w.what = "stallKill"
  BY DEF StallKilled, Launching
<1>3. x \in [p : {w.p}, what : {what}, task : {w.task}, card : {w.card}, at : {"sent"},
             new : {n}, list : {w.list}, ids : {w.ids}, k : {x.k}]
  BY <1>1 DEF IsWait
<1>4. s \in [d : {s.d}, w : {s.w}, n : Nat] /\ s.n \in Nat
  BY <1>1 DEF Sane
<1> HIDE DEF s, K
<1>5. r \in [d : {s.d}, w : {s.w \cup X}, n : {s.n + 1}]
  BY <1>4
<1>6. n \in Nat \ {0} /\ n = s.n + 1
  BY <1>4
<1>7. what \in Launching /\ w.task \in Fine(K, Ended)
  BY <1>1, <1>2 DEF Launching
<1>8. what # "add" /\ what # "start" /\ w.card[1] = "session" /\ ~NoStalls
  BY <1>1, <1>2 DEF IsWait
<1> HIDE DEF x, r, n, what
<1>9. IsWait(x, K, Ended) /\ x.new = n
  <2> DEFINE p == w.p
             t == w.task
             card == w.card
             list == w.list
             ids == w.ids
  <2>1. /\ what # "add" => t \in Fine(K, Ended)
        /\ what = "start" => t.id[1] = "queue"
        /\ what = "restall" => card[1] = "session"
        /\ NoStalls => what # "restall" /\ (what = "replace" => t.id \in Ended)
        /\ p \in Pages /\ what \in Launching /\ t \in Rows /\ card \in Id
        /\ list \in Seq(Fine(K, Ended)) /\ ids \in SUBSET Gone(K, Ended)
        /\ n \in Nat \ {0}
    BY <1>1, <1>6, <1>7, <1>8
  <2>2. x \in [p : {p}, what : {what}, task : {t}, card : {card}, at : {"sent"},
               new : {n}, list : {list}, ids : {ids}, k : {x.k}]
    BY <1>3
  <2> HIDE DEF p, t, card, list, ids
  <2> QED BY ONLY <2>1, <2>2, LaunchIs
<1>10. Leads(s, r)
  <2>1. \A v \in X : /\ IsWait(v, Known(s.n, s.w), Ended)
                     /\ v.new = 0 \/ (v.new > s.n /\ v.new <= s.n + 1)
    BY <1>4, <1>6, <1>9 DEF K
  <2>2. \A v, y \in X : v.new = y.new /\ v.new > 0 => v = y
    OBVIOUS
  <2> HIDE DEF X
  <2> QED BY <1>1, <1>5, <2>1, <2>2, LeadsToWaits
<1> QED BY <1>2, <1>10, AnsweredKeeps DEF s, r

LEMMA FailKilledKeeps ==
  ASSUME IndInv, NEW w \in waits, FailKilled(w)
  PROVE  IndInv' /\ NoneBack
<1> DEFINE s == Answered(w)
           id == w.task.id
           a == RemoveTask(s, id)
           r == Await(a, Wait(w.p, "timer", w.task))
           K == Known(s.n, s.w)
<1>1. /\ w.p \in Pages /\ Sane(s) /\ w.task \in Rows /\ IsWait(w, K, Ended)
      /\ w.what # "add" => w.task \in Fine(K, Ended)
  BY AnsweredIs
<1>2. Free(w.p, r) /\ w.what \notin Launching /\ UNCHANGED <<server, jobs>>
      /\ w.what = "failKill" /\ w.at = "ok"
  BY DEF FailKilled, Launching
<1> HIDE DEF s
<1>3. id \in Gone(K, Ended) /\ w.task \in Fine(K, Ended)
  BY <1>1, <1>2 DEF IsWait, Gone, Fine, Killing
<1>4. Leads(s, a) /\ a.w = s.w /\ a.n = s.n
  BY <1>1, <1>3, RemoveTaskLeads
<1> HIDE DEF a
<1>5. Leads(a, r)
  <2>1. Sane(a) /\ w.task \in Fine(Known(a.n, a.w), Ended) /\ "timer" \in Kinds \ Launching
    BY <1>3, <1>4 DEF Leads, Kinds, Launching
  <2> QED BY <1>1, <2>1, AwaitsRowLeads
<1> HIDE DEF r
<1>6. Leads(s, r)
  BY <1>4, <1>5, LeadsOn
<1> QED BY <1>2, <1>6, AnsweredKeeps DEF s, r, a

LEMMA RetryTimerKeeps ==
  ASSUME IndInv, NEW w \in waits, RetryTimer(w)
  PROVE  IndInv' /\ NoneBack
<1> DEFINE s == Answered(w)
           r == Post(s, w.p, "again", w.task)
<1>1. /\ w.p \in Pages /\ Sane(s) /\ w.task \in Rows
      /\ w.what # "add" => w.task \in Fine(Known(s.n, s.w), Ended)
  BY AnsweredIs
<1>2. Free(w.p, r) /\ w.what \notin Launching /\ UNCHANGED <<server, jobs>> /\ w.what = "timer"
  BY DEF RetryTimer, Launching
<1> HIDE DEF s
<1>3. Leads(s, r)
  BY <1>1, <1>2, PostLeads
<1> HIDE DEF r
<1> QED BY <1>2, <1>3, AnsweredKeeps DEF s, r

LEMMA ConfirmStopAllKeeps ==
  ASSUME IndInv, NEW w \in waits, ConfirmStopAll(w)
  PROVE  IndInv' /\ NoneBack
<1> DEFINE s == Answered(w)
           cs == Ids(w.list) \cap DOMAIN s.d.mem.cards
           r == Stop(s, w.p, cs)
<1>1. w.p \in Pages /\ Sane(s)
  BY AnsweredIs
<1>2. Free(w.p, r) /\ w.what \notin Launching /\ UNCHANGED <<server, jobs>>
  BY DEF ConfirmStopAll, Launching
<1> HIDE DEF s
<1>3. cs \in SUBSET DOMAIN s.d.mem.cards
  OBVIOUS
<1> HIDE DEF cs
<1>4. Leads(s, r)
  BY <1>1, <1>3, StopLeads
<1> HIDE DEF r
<1> QED BY <1>2, <1>4, AnsweredKeeps DEF s, r, cs

LEMMA KilledKeeps ==
  ASSUME IndInv, NEW w \in waits, Killed(w)
  PROVE  IndInv' /\ NoneBack
<1> DEFINE s == Answered(w)
           a == AnimateOutThenRemove(s, w.p, w.card, w.task)
           r == IF w.at = "bad" THEN s ELSE a
<1>1. /\ w.p \in Pages /\ Sane(s) /\ w.task \in Rows /\ IsWait(w, Known(s.n, s.w), Ended)
      /\ w.what # "add" => w.task \in Fine(Known(s.n, s.w), Ended)
  BY AnsweredIs
<1>2. Free(w.p, r) /\ w.what \notin Launching /\ UNCHANGED <<server, jobs>>
      /\ w.what \in {"stop", "remove"} /\ w.at \in {"ok", "bad"}
  BY DEF Killed, Launching
<1> HIDE DEF s
<1>3. ASSUME w.at = "ok" PROVE Leads(s, a)
  <2>1. w.task \in Fine(Known(s.n, s.w), Ended)
    BY <1>1, <1>2
  <2>2. NoStalls => w.card \in Ended /\ w.task.id \in Ended
    BY <1>1, <1>2, <1>3 DEF IsWait, Killing
  <2> QED BY <1>1, <2>1, <2>2, AnimateLeads
<1> HIDE DEF a
<1>4. Leads(s, r)
  BY <1>1, <1>2, <1>3, LeadsNowhere
<1> HIDE DEF r
<1> QED BY <1>2, <1>4, AnsweredKeeps DEF s

LEMMA FadedKeeps ==
  ASSUME IndInv, NEW w \in waits, Faded(w)
  PROVE  IndInv' /\ NoneBack
<1> DEFINE s == Answered(w)
           r == RemoveTask(s, w.task.id)
           K == Known(s.n, s.w)
<1>1. IsWait(w, K, Ended) /\ Sane(s)
  BY AnsweredIs
<1>2. Free(w.p, r) /\ w.what \notin Launching /\ UNCHANGED <<server, jobs>> /\ w.what = "fade"
  BY DEF Faded, Launching
<1> HIDE DEF s
<1>3. w.task.id \in Gone(K, Ended)
  BY <1>1, <1>2 DEF IsWait, Gone, Fine
<1>4. Leads(s, r)
  BY <1>1, <1>3, RemoveTaskLeads
<1> HIDE DEF r
<1> QED BY <1>2, <1>4, AnsweredKeeps DEF s

LEMMA RestartKilledKeeps ==
  ASSUME IndInv, NEW w \in waits, RestartKilled(w)
  PROVE  IndInv' /\ NoneBack
<1> DEFINE s == Answered(w)
           a == SetStatus(s, w.task.id, "running")
           r == Post(a, w.p, "replace", w.task)
           K == Known(s.n, s.w)
<1>1. /\ w.p \in Pages /\ Sane(s) /\ w.task \in Rows /\ IsWait(w, K, Ended)
  BY AnsweredIs
<1>2. Free(w.p, r) /\ w.what \notin Launching /\ UNCHANGED <<server, jobs>>
      /\ w.what = "retryKill" /\ w.at = "ok"
  BY DEF RestartKilled, Launching
<1> HIDE DEF s
<1>3. w.task \in Fine(K, Ended) /\ (NoStalls => w.task.id \in Ended)
  BY <1>1, <1>2 DEF IsWait, Killing
<1>4. Leads(s, a) /\ a.w = s.w /\ a.n = s.n
  BY <1>1, SetStatusLeads DEF Settled
<1> HIDE DEF a
<1>5. Sane(a) /\ w.task \in Fine(Known(a.n, a.w), Ended)
  BY <1>3, <1>4 DEF Leads
<1>6. Leads(a, r)
  BY <1>1, <1>3, <1>5, PostLeads
<1> HIDE DEF r
<1>7. Leads(s, r)
  BY <1>4, <1>6, LeadsOn
<1> QED BY <1>2, <1>7, AnsweredKeeps DEF s, r, a

\* Nobody is asked about clearing.
LEMMA ConfirmClearKeeps ==
  ASSUME IndInv, NEW w \in waits, ConfirmClear(w)
  PROVE  IndInv' /\ NoneBack
<1>1. w.what \in Kinds /\ w.what = "clear"
  BY DEF IndInv, IsWait, ConfirmClear
<1> QED BY <1>1 DEF Kinds, Launching, Killing

LEMMA DismissKeeps ==
  ASSUME IndInv, NEW w \in waits, Dismiss(w)
  PROVE  IndInv' /\ NoneBack
<1> DEFINE r == Answered(w)
<1>1. Sane(r)
  BY AnsweredIs
<1>2. Free(w.p, r) /\ w.what \notin Launching /\ UNCHANGED <<server, jobs>>
  BY DEF Dismiss, Launching
<1>3. Leads(r, r)
  BY <1>1, LeadsNowhere
<1> QED BY <1>2, <1>3, AnsweredKeeps

LEMMA StateAnsweredKeeps ==
  ASSUME IndInv, NEW w \in waits, StateAnswered(w)
  PROVE  IndInv' /\ NoneBack
<1> DEFINE s == Answered(w)
           r == MergeState(s, w.p, w.list)
<1>1. /\ w.p \in Pages /\ Sane(s) /\ w.list \in Seq(Fine(Known(s.n, s.w), Ended))
      /\ Begins(w.p, s)
  BY AnsweredIs
<1>2. Free(w.p, r) /\ w.what \notin Launching /\ UNCHANGED <<server, jobs>>
  BY DEF StateAnswered, Launching
<1> HIDE DEF s
<1>3. Statuses \in Seq(Fine(Known(s.n, s.w), Ended))
  BY <1>1, StatusesAreFine DEF Begins
<1>a. ~Alone
  BY IsLate DEF StateAnswered
<1>4. Leads(s, r)
  BY <1>1, <1>3, <1>a, MergeStateLeads
<1> HIDE DEF r
<1> QED BY <1>2, <1>4, AnsweredKeeps DEF s

LEMMA StatusAnsweredKeeps ==
  ASSUME IndInv, NEW w \in waits, StatusAnswered(w)
  PROVE  IndInv' /\ NoneBack
<1> DEFINE s == Answered(w)
           l == Reconcile(s, w.list)
           a == SaveTasks(s, l)
           b == RenderRunningTab(a)
           r == IF l = s.d.tasks THEN s ELSE b
<1>1. /\ w.p \in Pages /\ Sane(s) /\ w.list \in Seq(Fine(Known(s.n, s.w), Ended))
  BY AnsweredIs
<1>2. Free(w.p, r) /\ w.what \notin Launching /\ UNCHANGED <<server, jobs>>
  BY DEF StatusAnswered, Launching
<1> HIDE DEF s
<1>3. /\ l \in Seq(Fine(Known(s.n, s.w), Ended))
      /\ Ids(l) \cap s.d.tomb \subseteq Ids(s.d.tasks)
      /\ Ids(s.d.tasks) \subseteq Ids(l)
  BY <1>1, ReconcileIs
<1> HIDE DEF l
<1>4. Leads(s, a)
  <2>1. Leads(s, a) /\ a.w = s.w
    BY <1>1, <1>3, SaveTasksLeads
  <2> QED BY <2>1
<1> HIDE DEF a
<1>5. Leads(a, b)
  <2>1. Sane(a)
    BY <1>4 DEF Leads
  <2> QED BY <2>1, RenderLeads
<1> HIDE DEF b
<1>6. Leads(s, r)
  BY <1>1, <1>4, <1>5, LeadsOn, LeadsNowhere
<1> HIDE DEF r
<1> QED BY <1>2, <1>6, AnsweredKeeps DEF s, r, b, a, l

\* _syncFromServer, when the page loads or the Cookbook opens.
LEMMA SyncedKeeps ==
  ASSUME IndInv, NEW w \in waits, Synced(w)
  PROVE  IndInv' /\ NoneBack
<1> DEFINE s == Answered(w)
           d == [s EXCEPT !.d.tomb = @ \cup w.ids]
           m == Merge(d, w.list)
           l == Without(m, d.d.tomb)
           q == [d EXCEPT !.d.tasks = l]
           a == [q EXCEPT !.d.mem.open = TRUE, !.d.mem.tab = FALSE, !.d.mem.cards = NoCards]
           b == RenderRunningTab(a)
           r == IF w.what = "init" THEN q ELSE b
           K == Known(s.n, s.w)
<1>1. /\ w.p \in Pages /\ Sane(s) /\ w.list \in Seq(Fine(Known(s.n, s.w), Ended))
      /\ w.ids \in SUBSET Gone(Known(s.n, s.w), Ended)
  BY AnsweredIs
<1>2. Free(w.p, r) /\ w.what \notin Launching /\ UNCHANGED <<server, jobs>>
  BY DEF Synced, Launching
<1> HIDE DEF s
<1>a. ~Alone
  BY IsLate DEF Synced
<1>3. /\ s.d.tasks \in Seq(Fine(K, Ended)) /\ s.d.tomb \in SUBSET Gone(K, Ended)
      /\ IsMemory(s.d.mem) /\ IsDeck(s.d.mem.cards, K, Ended)
      /\ s.d \in [tasks : {s.d.tasks}, tomb : {s.d.tomb}, mem : {s.d.mem}]
      /\ s \in [d : {s.d}, w : {s.w}, n : Nat]
  BY <1>1, PageIs
<1> HIDE DEF K
<1>4. /\ d.d.tomb = s.d.tomb \cup w.ids /\ d.d.tasks = s.d.tasks
      /\ q \in [d : [tasks : {l}, tomb : {s.d.tomb \cup w.ids}, mem : {s.d.mem}], w : {s.w},
                n : {s.n}]
  BY <1>3
<1> HIDE DEF d
<1>5. m \in Seq(Fine(K, Ended)) /\ Ids(s.d.tasks) \subseteq Ids(m)
  BY <1>1, <1>3, <1>4, MergesIs DEF K
<1> HIDE DEF m
<1>6. l \in Seq(Fine(K, Ended)) /\ Ids(l) = Ids(m) \ d.d.tomb
  BY <1>5, WithoutIs
<1> HIDE DEF l, q
<1>7. Leads(s, q)
  <2> DEFINE tomb == s.d.tomb \cup w.ids
  <2>1. /\ tomb \in SUBSET Gone(K, Ended) /\ s.d.tomb \subseteq tomb /\ Ids(l) \cap tomb = {}
        /\ q \in [d : [tasks : {l}, tomb : {tomb}, mem : {s.d.mem}], w : {s.w}, n : {s.n}]
    BY <1>1, <1>3, <1>4, <1>6 DEF K
  <2>2. NoStalls => Ids(s.d.tasks) \subseteq Ids(l) \cup Ended
    BY <1>4, <1>5, <1>6, <2>1 DEF Gone
  <2> HIDE DEF tomb
  <2> QED BY <1>1, <1>a, <1>3, <1>6, <2>1, <2>2, PageChanges DEF K
<1> HIDE DEF q
<1>8. Leads(q, a)
  <2>1. Sane(q)
    BY <1>7 DEF Leads
  <2>2. /\ IsMemory(q.d.mem)
        /\ q.d \in [tasks : {q.d.tasks}, tomb : {q.d.tomb}, mem : {q.d.mem}]
        /\ q \in [d : {q.d}, w : {q.w}, n : Nat]
    BY <2>1, PageIs
  <2> DEFINE mem == [q.d.mem EXCEPT !.open = TRUE, !.tab = FALSE, !.cards = NoCards]
  <2>3. IsMemory(mem) /\ mem.cards = NoCards
    BY <2>2 DEF IsMemory
  <2>4. IsDeck(NoCards, Known(q.n, q.w), Ended)
    BY DEF IsDeck, NoCards
  <2>5. a \in [d : [tasks : {q.d.tasks}, tomb : {q.d.tomb}, mem : {mem}], w : {q.w}, n : {q.n}]
    BY <2>2
  <2> HIDE DEF mem, a
  <2>6. Leads(q, a) /\ a.w = q.w
    BY <1>a, <2>1, <2>3, <2>4, <2>5, MemoryLeads
  <2> QED BY <2>6
<1> HIDE DEF a
<1>9. Leads(a, b)
  <2>1. Sane(a)
    BY <1>8 DEF Leads
  <2> QED BY <2>1, RenderLeads
<1> HIDE DEF b
<1>10. Leads(s, q) /\ Leads(s, b)
  <2>1. Leads(s, a)
    BY <1>7, <1>8, LeadsOn
  <2> QED BY <1>7, <1>9, <2>1, LeadsOn
<1>11. Leads(s, r)
  BY <1>10
<1> HIDE DEF r
<1> QED BY <1>2, <1>11, AnsweredKeeps DEF s, r, b, a, q, l, m, d

-----------------------------------------------------------------------------
(* One step per action: what the user does.                                 *)

\* The memory of a page before it is rendered or anything is awaited.
LEMMA SetsLead ==
  ASSUME NEW s, Sane(s), NEW mem, IsMemory(mem), mem.cards = s.d.mem.cards,
         Alone => Pushes(s.d.mem, <<>>, mem, <<>>), NEW r, r = [s EXCEPT !.d.mem = mem]
  PROVE  Leads(s, r) /\ r.d.tasks = s.d.tasks /\ r.w = s.w /\ r.n = s.n
<1>1. /\ IsDeck(mem.cards, Known(s.n, s.w), Ended)
      /\ s.d \in [tasks : {s.d.tasks}, tomb : {s.d.tomb}, mem : {s.d.mem}]
      /\ s \in [d : {s.d}, w : {s.w}, n : Nat]
  BY PageIs
<1>2. r \in [d : [tasks : {s.d.tasks}, tomb : {s.d.tomb}, mem : {mem}], w : {s.w}, n : {s.n}]
  BY <1>1
<1> QED BY <1>1, <1>2, MemoryLeads

LEMMA DownloadKeeps ==
  ASSUME IndInv, NEW p \in Pages, NEW m \in Repos, Download(p, m)
  PROVE  IndInv' /\ NoneBack
<1> DEFINE b == State(p)
           tasks == page[p].tasks
           same == {i \in DOMAIN tasks : tasks[i].repo = m}
           zombies == {i \in same : tasks[i].status \in Settled /\ tasks[i].id[1] = "session"}
           s == [b EXCEPT !.d.mem.tab = FALSE]
           mem == [b.d.mem EXCEPT !.tab = FALSE]
           t == tasks[Place(zombies, 1)]
           x == [Wait(p, "probe", t) EXCEPT !.list = tasks]
           a == QueueOrPost(s, p, m, tasks)
           c == Await(s, x)
           r == IF zombies = {} THEN a ELSE c
<1>1. Sane(b) /\ b.d = page[p] /\ tasks \in Seq(Fine(Known(b.n, b.w), Ended)) /\ IsMemory(b.d.mem)
  BY StateIs
<1>2. Paid("downloads", p, r) /\ UNCHANGED <<server, jobs>> /\ "downloads" \in Spendable
  BY DEF Download, Spendable
<1> HIDE DEF b
<1>3. Leads(b, s) /\ s.d.tasks = b.d.tasks /\ s.w = b.w /\ s.n = b.n
  <2>1. /\ IsMemory(mem) /\ mem.cards = b.d.mem.cards /\ s = [b EXCEPT !.d.mem = mem]
        /\ Pushes(b.d.mem, <<>>, mem, <<>>)
    BY <1>1 DEF IsMemory, Pushes, Ids
  <2> HIDE DEF mem, s
  <2> QED BY <1>1, <2>1, SetsLead
<1> HIDE DEF s
<1>4. Sane(s) /\ tasks \in Seq(Fine(Known(s.n, s.w), Ended))
  BY <1>1, <1>3 DEF Leads
<1>5. Leads(s, a)
  BY <1>4, QueueOrPostLeads
<1>6. ASSUME zombies # {} PROVE Leads(s, c)
  <2>1. zombies \in SUBSET (1..Len(tasks)) /\ Len(tasks) \in Nat /\ DOMAIN tasks = 1..Len(tasks)
    BY <1>4
  <2> HIDE DEF zombies
  <2>2. 1 \in 1..Cardinality(zombies)
    <3>1. IsFiniteSet(zombies) /\ Cardinality(zombies) \in Nat
      BY <2>1, UpToFinite
    <3>2. Cardinality(zombies) # 0
      BY <1>6, <3>1, FS_EmptySet
    <3> QED BY <3>1, <3>2
  <2>3. Place(zombies, 1) \in zombies
    BY <2>1, <2>2, PlaceIs
  <2> DEFINE K == Known(s.n, s.w)
             what == "probe"
             card == t.id
             ids == {}
  <2>4. t \in Fine(K, Ended)
    BY <1>4, <2>1, <2>3
  <2>5. x \in [p : {p}, what : {what}, task : {t}, card : {card}, at : {"sent"},
               new : {0}, list : {tasks}, ids : {ids}, k : {x.k}]
    BY DEF Wait
  <2>6. /\ p \in Pages /\ what \in Kinds \ Launching /\ card \in Id
        /\ tasks \in Seq(Fine(K, Ended)) /\ ids \in SUBSET Gone(K, Ended)
        /\ what = "stallKill" => card[1] = "session"
        /\ NoStalls => /\ what # "stallKill"
                       /\ what \in {"stop", "remove"} => card = t.id
                       /\ what = "fade" => t.id \in Ended
    BY <1>4, <2>4 DEF Kinds, Launching, Fine, Rows
  <2> HIDE DEF K, what, card, ids, t, x, tasks
  <2>7. IsWait(x, K, Ended) /\ x.new = 0
    BY ONLY <2>4, <2>5, <2>6, WaitIs
  <2>8. Leads(s, c) /\ c.d = s.d
    BY <1>4, <2>7, AwaitLeads DEF K
  <2> QED BY <2>8
<1> HIDE DEF a, c
<1>7. Leads(b, r)
  BY <1>3, <1>5, <1>6, LeadsOn
<1> HIDE DEF r
<1> QED BY <1>2, <1>7, StateKeeps DEF b

LEMMA StartNowKeeps ==
  ASSUME IndInv, NEW p \in Pages, NEW c, StartNow(p, c)
  PROVE  IndInv' /\ NoneBack
<1> DEFINE s == State(p)
           t == Card(p, c).task
           list == <<t>>
           r == StartQueuedDownload(s, p, list)
<1>1. Sane(s) /\ IsDeck(page[p].mem.cards, Known(s.n, s.w), Ended)
  BY StateIs
<1>2. Paid("starts", p, r) /\ UNCHANGED <<server, jobs>> /\ "starts" \in Spendable
      /\ c \in DOMAIN page[p].mem.cards /\ t.status = "queued"
  BY DEF StartNow, Spendable, OnCard
<1> HIDE DEF s
<1>3. t \in Fine(Known(s.n, s.w), Ended) /\ t.id[1] = "queue"
  BY <1>1, <1>2 DEF IsDeck, Card, Fine
<1> HIDE DEF t
<1>4. list \in Seq(Fine(Known(s.n, s.w), Ended)) /\ \A i \in DOMAIN list : list[i].id[1] = "queue"
  BY <1>3
<1> HIDE DEF list
<1>5. Leads(s, r)
  BY <1>1, <1>4, StartQueuedDownloadLeads
<1> HIDE DEF r
<1> QED BY <1>2, <1>5, StateKeeps DEF s, r, list

LEMMA WatchKeeps ==
  ASSUME IndInv, NEW p \in Pages, NEW c, Watch(p, c)
  PROVE  IndInv' /\ NoneBack
<1> DEFINE s == State(p)
           r == [s EXCEPT !.d.mem.cards[c].loop = "idle"]
<1>1. Sane(s) /\ s.d = page[p]
  BY StateIs
<1>2. Paid("watches", p, r) /\ UNCHANGED <<server, jobs>> /\ "watches" \in Spendable
      /\ c \in DOMAIN page[p].mem.cards
  BY DEF Watch, Spendable, OnCard
<1> HIDE DEF s
<1>3. Leads(s, r) /\ r.w = s.w
  <2>1. c \in DOMAIN s.d.mem.cards /\ "idle" \in Loops
    BY <1>1, <1>2 DEF Loops
  <2> QED BY <1>1, <2>1, LoopLeads
<1> HIDE DEF r
<1> QED BY <1>2, <1>3, StateKeeps DEF s

LEMMA ReconnectKeeps ==
  ASSUME IndInv, NEW p \in Pages, NEW c, Reconnect(p, c)
  PROVE  IndInv' /\ NoneBack
<1> DEFINE s == State(p)
           old == s.d.mem.cards[c].loop
           loop == IF old = "none" THEN "idle" ELSE old
           a == [s EXCEPT !.d.mem.cards[c].loop = loop]
           id == Card(p, c).task.id
           r == SetStatus(a, id, "running")
<1>1. Sane(s) /\ s.d = page[p] /\ IsDeck(s.d.mem.cards, Known(s.n, s.w), Ended)
  BY StateIs
<1>2. UNCHANGED <<server, jobs>> /\ "watches" \in Spendable /\ c \in DOMAIN page[p].mem.cards
  BY DEF Reconnect, Spendable, OnCard
<1>r. Paid("watches", p, r)
  BY DEF Reconnect
<1> HIDE DEF s, id
<1>3. c \in DOMAIN s.d.mem.cards /\ loop \in Loops
  BY <1>1, <1>2 DEF Loops, IsDeck
<1> HIDE DEF loop
<1>4. Leads(s, a) /\ a.w = s.w
  BY <1>1, <1>3, LoopLeads
<1> HIDE DEF a
<1>5. Leads(a, r)
  <2>1. Sane(a)
    BY <1>4 DEF Leads
  <2> QED BY <2>1, StatusLeads DEF Settled
<1> HIDE DEF r
<1>6. Leads(s, r)
  BY <1>4, <1>5, LeadsOn
<1> QED BY <1>r, <1>2, <1>6, StateKeeps DEF s

LEMMA AskStopAllKeeps ==
  ASSUME IndInv, NEW p \in Pages, NEW h, AskStopAll(p, h)
  PROVE  IndInv' /\ NoneBack
<1> DEFINE s == State(p)
           tasks == page[p].tasks
           I == {i \in DOMAIN tasks : OnHost(tasks[i], h) /\ tasks[i].status = "running"}
           list == Only(tasks, I)
           t == Head(list)
           x == [Wait(p, "stopAll", t) EXCEPT !.list = list]
           r == Await(s, x)
           K == Known(s.n, s.w)
<1>1. Sane(s) /\ tasks \in Seq(Fine(K, Ended)) /\ I \in SUBSET DOMAIN tasks
  BY StateIs
<1>2. Paid("stops", p, r) /\ UNCHANGED <<server, jobs>> /\ "stops" \in Spendable /\ list # <<>>
  BY DEF AskStopAll, Spendable
<1> HIDE DEF s, I, tasks, K
<1>3. list \in Seq(Fine(K, Ended))
  BY <1>1, OnlyIs
<1> HIDE DEF list
<1>4. t \in Fine(K, Ended)
  BY <1>2, <1>3
<1> DEFINE what == "stopAll"
           card == t.id
           ids == {}
<1>5. x \in [p : {p}, what : {what}, task : {t}, card : {card}, at : {"sent"},
             new : {0}, list : {list}, ids : {ids}, k : {x.k}]
  BY DEF Wait
<1>6. /\ p \in Pages /\ what \in Kinds \ Launching /\ card \in Id
      /\ list \in Seq(Fine(K, Ended)) /\ ids \in SUBSET Gone(K, Ended)
      /\ what = "stallKill" => card[1] = "session"
      /\ NoStalls => /\ what # "stallKill"
                     /\ what \in {"stop", "remove"} => card = t.id
                     /\ what = "fade" => t.id \in Ended
  BY <1>3, <1>4 DEF Kinds, Launching, Fine, Rows
<1> HIDE DEF what, card, ids, t, x
<1>7. IsWait(x, K, Ended) /\ x.new = 0
  BY ONLY <1>4, <1>5, <1>6, WaitIs
<1>8. Leads(s, r) /\ r.d = s.d
  BY <1>1, <1>7, AwaitLeads DEF K
<1> HIDE DEF r
<1> QED BY <1>2, <1>8, StateKeeps DEF s, r, x, t, list, I, tasks

\* Nobody asks: what is left to clear is nothing.
LEMMA AskClearKeeps ==
  ASSUME IndInv, NEW p \in Pages, NEW h, AskClear(p, h)
  PROVE  IndInv' /\ NoneBack
<1>1. ghost.left["clears"] > 0
  BY DEF AskClear, Paid, Can
<1> QED BY <1>1 DEF IndInv, Counted, Bounded

LEMMA RemoveCardKeeps ==
  ASSUME IndInv, NEW p \in Pages, NEW c, RemoveCard(p, c)
  PROVE  IndInv' /\ NoneBack
<1> DEFINE s == State(p)
           t == Card(p, c).task
           x == [Wait(p, "remove", t) EXCEPT !.card = c]
           r == Await(s, x)
           K == Known(s.n, s.w)
<1>1. Sane(s) /\ IsDeck(page[p].mem.cards, K, Ended)
  BY StateIs
<1>2. Paid("removes", p, r) /\ UNCHANGED <<server, jobs>> /\ "removes" \in Spendable
      /\ c \in DOMAIN page[p].mem.cards
  BY DEF RemoveCard, Spendable, OnCard
<1> HIDE DEF s
<1>3. t \in Fine(K, Ended) /\ c \in Id /\ (NoStalls => c = t.id)
  BY <1>1, <1>2 DEF IsDeck, Card, Known
<1> HIDE DEF t, K
<1> DEFINE what == "remove"
           list == <<>>
           ids == {}
<1>5. x \in [p : {p}, what : {what}, task : {t}, card : {c}, at : {"sent"},
             new : {0}, list : {list}, ids : {ids}, k : {x.k}]
  BY DEF Wait
<1>6. /\ p \in Pages /\ what \in Kinds \ Launching
      /\ list \in Seq(Fine(K, Ended)) /\ ids \in SUBSET Gone(K, Ended)
      /\ what = "stallKill" => c[1] = "session"
      /\ NoStalls => /\ what # "stallKill"
                     /\ what \in {"stop", "remove"} => c = t.id
                     /\ what = "fade" => t.id \in Ended
  BY <1>3 DEF Kinds, Launching, Killing
<1> HIDE DEF what, list, ids, x
<1>7. IsWait(x, K, Ended) /\ x.new = 0
  BY ONLY <1>3, <1>5, <1>6, WaitIs
<1>8. Leads(s, r) /\ r.d = s.d
  BY <1>1, <1>7, AwaitLeads DEF K
<1> HIDE DEF r
<1> QED BY <1>2, <1>8, StateKeeps DEF s, r, x, t

LEMMA RestartKeeps ==
  ASSUME IndInv, NEW p \in Pages, NEW c, Restart(p, c)
  PROVE  IndInv' /\ NoneBack
<1> DEFINE s == State(p)
           t == Card(p, c).task
           a == Abort(s, c)
           r == Await(a, Wait(p, "retryKill", t))
           K == Known(s.n, s.w)
<1>1. Sane(s) /\ IsDeck(page[p].mem.cards, K, Ended)
  BY StateIs
<1>2. Paid("restarts", p, r) /\ UNCHANGED <<server, jobs>> /\ "restarts" \in Spendable
      /\ c \in DOMAIN page[p].mem.cards
  BY DEF Restart, Spendable, OnCard
<1> HIDE DEF s
<1>3. t \in Fine(K, Ended)
  BY <1>1, <1>2 DEF IsDeck, Card
<1> HIDE DEF t
<1>4. Leads(s, a) /\ a.w = s.w /\ a.n = s.n
  BY <1>1, AbortLeads
<1> HIDE DEF a
<1>5. Leads(a, r)
  <2>1. Sane(a) /\ t \in Fine(Known(a.n, a.w), Ended) /\ "retryKill" \in Kinds \ Launching
    BY <1>3, <1>4 DEF Leads, Kinds, Launching, Killing
  <2> QED BY <2>1, AwaitsRowLeads
<1> HIDE DEF r
<1>6. Leads(s, r)
  BY <1>4, <1>5, LeadsOn
<1> QED BY <1>2, <1>6, StateKeeps DEF s, r, a, t

LEMMA ClearPillKeeps ==
  ASSUME IndInv, NEW p \in Pages, NEW c, ClearPill(p, c)
  PROVE  IndInv' /\ NoneBack
<1> DEFINE s == State(p)
           t == Card(p, c).task
           a == Await(s, Wait(p, "kill", t))
           r == AnimateOutThenRemove(a, p, c, t)
           K == Known(s.n, s.w)
<1>1. /\ Sane(s) /\ page[p].tasks \in Seq(Fine(K, Ended))
      /\ IsDeck(page[p].mem.cards, K, Ended)
  BY StateIs
<1>2. Paid("pills", p, r) /\ UNCHANGED <<server, jobs>> /\ "pills" \in Spendable
      /\ c \in DOMAIN page[p].mem.cards
      /\ c \in Ids(page[p].tasks) /\ Row(page[p].tasks, c).status \in Settled
  BY DEF ClearPill, Spendable, OnCard
<1> HIDE DEF s
<1>3. t \in Fine(K, Ended) /\ (NoStalls => c = t.id)
  BY <1>1, <1>2 DEF IsDeck, Card
<1> HIDE DEF t
<1>4. NoStalls => c \in Ended
  <2>1. Row(page[p].tasks, c) \in Fine(K, Ended) /\ Row(page[p].tasks, c).id = c
    BY <1>1, <1>2, RowIs
  <2> QED BY <1>2, <2>1 DEF Fine
<1>5. Leads(s, a) /\ a.n = s.n
  <2>1. "kill" \in Kinds \ Launching
    BY DEF Kinds, Launching, Killing
  <2> QED BY <1>1, <1>3, <2>1, AwaitsRowLeads
<1> HIDE DEF a
<1>6. Leads(a, r)
  <2>1. Sane(a) /\ t \in Fine(Known(a.n, a.w), Ended)
    BY <1>3, <1>5 DEF Leads, Fine
  <2> QED BY <1>3, <1>4, <2>1, AnimateLeads
<1> HIDE DEF r
<1>7. Leads(s, r)
  BY <1>5, <1>6, LeadsOn
<1> QED BY <1>2, <1>7, StateKeeps DEF s, r, a, t

LEMMA CloseCookbookKeeps ==
  ASSUME IndInv, NEW p \in Pages, CloseCookbook(p)
  PROVE  IndInv' /\ NoneBack
<1> DEFINE s == State(p)
           mem == [s.d.mem EXCEPT !.open = FALSE]
           r == [s EXCEPT !.d.mem.open = FALSE]
<1>1. Sane(s) /\ s.d = page[p] /\ IsMemory(s.d.mem)
  BY StateIs
<1>2. Paid("opens", p, r) /\ UNCHANGED <<server, jobs>> /\ "opens" \in Spendable
  BY DEF CloseCookbook, Spendable
<1> HIDE DEF s
<1>3. IsMemory(mem) /\ mem.cards = s.d.mem.cards /\ r = [s EXCEPT !.d.mem = mem]
  BY <1>1 DEF IsMemory
<1>a. ~Alone
  BY CanBeLate DEF CloseCookbook, Paid, Late
<1> HIDE DEF mem, r
<1>4. Leads(s, r)
  BY <1>1, <1>3, <1>a, SetsLead
<1> QED BY <1>2, <1>4, StateKeeps DEF s, r

LEMMA ShowRunningTabKeeps ==
  ASSUME IndInv, NEW p \in Pages, ShowRunningTab(p)
  PROVE  IndInv' /\ NoneBack
<1> DEFINE s == State(p)
           mem == [s.d.mem EXCEPT !.tab = TRUE]
           a == [s EXCEPT !.d.mem.tab = TRUE]
           r == RenderRunningTab(a)
<1>1. Sane(s) /\ s.d = page[p] /\ IsMemory(s.d.mem)
  BY StateIs
<1>2. Paid("shows", p, r) /\ UNCHANGED <<server, jobs>> /\ "shows" \in Spendable
  BY DEF ShowRunningTab, Spendable
<1> HIDE DEF s
<1>3. /\ IsMemory(mem) /\ mem.cards = s.d.mem.cards /\ a = [s EXCEPT !.d.mem = mem]
      /\ Pushes(s.d.mem, <<>>, mem, <<>>)
  BY <1>1 DEF IsMemory, Pushes, Ids
<1> HIDE DEF mem, a
<1>4. Leads(s, a)
  BY <1>1, <1>3, SetsLead
<1>5. Leads(a, r)
  <2>1. Sane(a)
    BY <1>4 DEF Leads
  <2> QED BY <2>1, RenderLeads
<1> HIDE DEF r
<1>6. Leads(s, r)
  BY <1>4, <1>5, LeadsOn
<1> QED BY <1>2, <1>6, StateKeeps DEF s, r, a

LEMMA OpenCookbookKeeps ==
  ASSUME IndInv, NEW p \in Pages, OpenCookbook(p)
  PROVE  IndInv' /\ NoneBack
<1> DEFINE s == State(p)
           r == Sync(p, "open", s)
<1>1. Sane(s) /\ s.w = waits /\ s.n = ghost.n
  BY StateIs
<1>2. Free(p, r) /\ UNCHANGED <<server, jobs>>
  BY DEF OpenCookbook
<1> HIDE DEF s
<1>3. /\ server.tasks \in Seq(Fine(Known(s.n, s.w), Ended))
      /\ server.removed \in SUBSET Gone(Known(s.n, s.w), Ended)
  BY <1>1 DEF IndInv
<1>a. ~Alone
  BY DEF OpenCookbook, IndInv, IsPushed
<1>4. Leads(s, r)
  BY <1>1, <1>3, <1>a, SyncLeads
<1> HIDE DEF r
<1> QED BY <1>2, <1>4, StateKeeps DEF s, r

\* A reload: what the page awaited is lost, of which nothing was a launch.
LEMMA LoadKeeps ==
  ASSUME IndInv, NEW p \in Pages, Load(p)
  PROVE  IndInv' /\ NoneBack
<1> DEFINE W == {w \in State(p).w : w.p # p}
           s == [State(p) EXCEPT !.w = W]
           mem == [NewPage EXCEPT !.up = TRUE, !.dirty = page[p].mem.dirty]
           q == [State(p) EXCEPT !.w = W, !.d.mem = mem]
           r == Sync(p, "init", q)
           what == IF p = First THEN "loads" ELSE "joins"
<1>0. Paid(what, p, r)
  BY DEF Load
<1>1. UNCHANGED <<server, jobs>> /\ what \in Spendable /\ \A w \in waits : w.p = p => w.new = 0
  BY DEF Load, Spendable
<1>a. ~Alone
  BY <1>0, CanBeLate DEF Paid, Late
<1>2. W \in SUBSET waits
  BY DEF State
<1>3. s \in [d : {page[p]}, w : {W}, n : {ghost.n}]
  BY DEF State
<1> DEFINE K == Known(ghost.n, waits)
           L == Known(s.n, s.w)
<1>4. q = [s EXCEPT !.d.mem = mem]
  BY DEF State
<1>w. \A w \in waits \ W : w.p = p
  BY DEF State
<1> HIDE DEF s, W, what, q
<1>5. Sane(s) /\ s.d = page[p] /\ s.w = W /\ s.n = ghost.n /\ K \subseteq L
  BY <1>2, <1>3, LessIsSane
<1>6. Begins(p, s)
  <2>1. \A w \in waits \ s.w : w.new = 0
    BY <1>1, <1>5, <1>w
  <2> QED BY <1>2, <1>5, <2>1 DEF Begins
<1>7. Leads(s, q) /\ q.w = s.w /\ q.n = s.n
  <2>1. /\ s.d \in [tasks : {s.d.tasks}, tomb : {s.d.tomb}, mem : {s.d.mem}]
        /\ s \in [d : {s.d}, w : {s.w}, n : Nat]
    BY <1>5, PageIs
  <2>m. page[p].mem.dirty \in BOOLEAN
    BY <1>5, PageIs DEF IsMemory
  <2>2. IsMemory(mem) /\ mem.cards = NoCards
    BY <2>m DEF IsMemory, NewPage
  <2>3. IsDeck(NoCards, L, Ended)
    BY DEF IsDeck, NoCards
  <2> HIDE DEF mem
  <2>4. q \in [d : [tasks : {s.d.tasks}, tomb : {s.d.tomb}, mem : {mem}], w : {s.w}, n : {s.n}]
    BY <1>4, <2>1
  <2> QED BY <1>5, <1>a, <2>2, <2>3, <2>4, MemoryLeads
<1>8. Leads(q, r)
  <2>1. Sane(q)
    BY <1>7 DEF Leads
  <2>2. server \in [tasks : Seq(Fine(K, Ended)), removed : SUBSET Gone(K, Ended)]
    BY DEF IndInv
  <2>3. L = Known(q.n, q.w)
    BY <1>7
  <2>k. K \cap Ended \subseteq Ended /\ K \subseteq L
    BY <1>5
  <2> HIDE DEF K, L
  <2>4. Gone(K, Ended) \subseteq Gone(L, Ended)
        /\ \A l \in Seq(Fine(K, Ended)) : l \in Seq(Fine(L, Ended))
    BY ONLY <2>k, Grows
  <2>5. server.tasks \in Seq(Fine(L, Ended)) /\ server.removed \in SUBSET Gone(L, Ended)
    BY <2>2, <2>4
  <2> QED BY <1>a, <2>1, <2>3, <2>5, SyncLeads
<1> HIDE DEF r
<1>9. Leads(s, r)
  BY <1>7, <1>8, LeadsOn
<1>10. Listed(s, r)
  BY <1>1, <1>5, <1>w DEF Listed
<1> QED BY <1>0, <1>1, <1>6, <1>9, <1>10, PaidKeeps

-----------------------------------------------------------------------------
(* One step per action: what a watch loop sees.                             *)

\* The row of a card; only "live" and "stuck" say that it is downloading.
LEMMA PaneIs ==
  ASSUME IndInv, NEW p \in Pages, NEW c \in DOMAIN page[p].mem.cards
  PROVE  LET s == State(p)
             t == Card(p, c).task
         IN  /\ Sane(s) /\ s.d = page[p] /\ IsMemory(s.d.mem)
             /\ t \in Fine(Known(s.n, s.w), Ended) /\ t.id \in Id /\ t.repo \in Repos
             /\ t.id[1] = c[1] /\ (NoStalls => t.id = c)
             /\ PaneOf(p, c) \in {"gone", "ok", "failed"} => t.id \in Ended
             /\ PaneOf(p, c) = "stuck" => ~NoStalls /\ t.id[1] = "session"
<1> DEFINE s == State(p)
           t == Card(p, c).task
<1>1. /\ Sane(s) /\ s.d = page[p] /\ IsMemory(page[p].mem)
      /\ IsDeck(page[p].mem.cards, Known(s.n, s.w), Ended)
  BY StateIs
<1> HIDE DEF s
<1>2. /\ t \in Fine(Known(s.n, s.w), Ended) /\ t.id[1] = c[1] /\ (NoStalls => t.id = c)
  BY <1>1 DEF IsDeck, Card
<1>3. PaneOf(p, c) = IF Alive(t.id) THEN jobs.at[t.id[2]] ELSE "gone"
  BY DEF PaneOf
<1> HIDE DEF t
<1>4. t.id \in Id /\ t.repo \in Repos
  BY <1>2 DEF Fine, Rows
<1>5. PaneOf(p, c) \in {"gone", "ok", "failed"} => t.id \in Ended
  BY <1>3, <1>4, GoneIsEnded DEF Ended, Running
<1>6. PaneOf(p, c) = "stuck" => ~NoStalls /\ t.id[1] = "session"
  BY <1>3 DEF Alive, IndInv, JobsAreSound
<1> QED BY <1>1, <1>2, <1>4, <1>5, <1>6 DEF s, t

\* The list is rendered and the queue looked at.
LEMMA QueueLeads ==
  ASSUME NEW s, NEW q, Leads(s, q), NEW p \in Pages
  PROVE  Leads(s, ProcessQueue(RenderRunningTab(q), p))
<1> DEFINE a == RenderRunningTab(q)
           r == ProcessQueue(a, p)
<1>1. Leads(q, a)
  BY RenderLeads DEF Leads
<1> HIDE DEF a
<1>2. Leads(a, r)
  BY <1>1, ProcessQueueLeads DEF Leads
<1> HIDE DEF r
<1>3. Leads(s, r)
  BY <1>1, <1>2, LeadsOn
<1> QED BY <1>3 DEF r, a

Touched(s, id) == UpdateTask(s, id, LAMBDA t : t)

LEMMA SeesLiveKeeps ==
  ASSUME IndInv, NEW p \in Pages, NEW c, SeesLive(p, c)
  PROVE  IndInv' /\ NoneBack
<1> DEFINE s == State(p)
           id == Card(p, c).task.id
           l == [i \in DOMAIN s.d.tasks |->
                    IF s.d.tasks[i].id = id THEN s.d.tasks[i] ELSE s.d.tasks[i]]
           r == Touched(s, id)
           q == Updated(s, id, l)
<1>1. Sane(s)
  BY StateIs
<1>2. Free(p, r) /\ UNCHANGED <<server, jobs>>
  BY DEF SeesLive, Touched
<1> HIDE DEF s, id
<1>3. r = q
  BY DEF Touched, UpdateTask, Edit, Updated
<1>4. \A i \in DOMAIN s.d.tasks : s.d.tasks[i] \in Fine(Known(s.n, s.w), Ended)
  BY <1>1, PageIs
<1>5. Edited(s.d.tasks, l, id, id, Fine(Known(s.n, s.w), Ended))
  BY <1>4 DEF Edited
<1> HIDE DEF l
<1>6. Rewrites(s, q, id, id)
  <2>1. MayBecome(s, id, id)
    BY DEF MayBecome
  <2> QED BY <1>1, <1>5, <2>1, UpdateLeads
<1> HIDE DEF q, r
<1>7. Leads(s, r)
  BY <1>3, <1>6 DEF Rewrites
<1> QED BY <1>2, <1>7, StateKeeps DEF s

LEMMA SeesGoneKeeps ==
  ASSUME IndInv, NEW p \in Pages, NEW c, SeesGone(p, c)
  PROVE  IndInv' /\ NoneBack
<1> DEFINE b == State(p)
           t == Card(p, c).task
           s == Over(b, c)
           x == SetStatus(s, t.id, "crashed")
           e == SetStatus(s, t.id, "error")
           y == SetStatus(s, t.id, "done")
           z == Await(s, Wait(p, "confirm", t))
           E == ProcessQueue(RenderRunningTab(e), p)
           X == ProcessQueue(RenderRunningTab(x), p)
           Y == ProcessQueue(RenderRunningTab(y), p)
           Z == ProcessQueue(RenderRunningTab(z), p)
<1>1. c \in DOMAIN page[p].mem.cards /\ PaneOf(p, c) = "gone" /\ UNCHANGED <<server, jobs>>
  BY DEF SeesGone, Watching
<1>2. Free(p, X) \/ Free(p, E) \/ Free(p, Y) \/ Free(p, Z)
  BY DEF SeesGone
<1>3. Sane(b) /\ t \in Fine(Known(b.n, b.w), Ended) /\ t.id \in Ended
  BY <1>1, PaneIs
<1> HIDE DEF b, t
<1>4. Leads(b, s) /\ s.w = b.w /\ s.n = b.n
  BY <1>3, OverLeads
<1> HIDE DEF s
<1>5. Sane(s) /\ t \in Fine(Known(s.n, s.w), Ended)
  BY <1>3, <1>4 DEF Leads
<1>6. Leads(s, x) /\ Leads(s, e) /\ Leads(s, y)
  BY <1>3, <1>5, StatusLeads DEF Settled
<1>7. Leads(s, z)
  <2>1. "confirm" \in Kinds \ Launching
    BY DEF Kinds, Launching
  <2> QED BY <1>5, <2>1, AwaitsRowLeads
<1> HIDE DEF x, e, y, z
<1>8. Leads(s, X) /\ Leads(s, E) /\ Leads(s, Y) /\ Leads(s, Z)
  BY <1>6, <1>7, QueueLeads
<1> HIDE DEF X, E, Y, Z
<1>9. Leads(b, X) /\ Leads(b, E) /\ Leads(b, Y) /\ Leads(b, Z)
  BY <1>4, <1>8, LeadsOn
<1> QED BY <1>1, <1>2, <1>9, StateKeeps DEF b

LEMMA LoopEndsKeeps ==
  ASSUME IndInv, NEW p \in Pages, NEW c, LoopEnds(p, c)
  PROVE  IndInv' /\ NoneBack
<1> DEFINE s == State(p)
           r == Abort(s, c)
<1>1. Sane(s)
  BY StateIs
<1>2. Free(p, r) /\ UNCHANGED <<server, jobs>>
  BY DEF LoopEnds
<1> HIDE DEF s
<1>3. Leads(s, r) /\ r.w = s.w
  BY <1>1, AbortLeads
<1> HIDE DEF r
<1> QED BY <1>2, <1>3, StateKeeps DEF s

\* The count of retries is no part of what leads on.
LEMMA RetriesLead ==
  ASSUME NEW s, Sane(s), NEW m \in Repos, NEW k \in Nat
  PROVE  LET r == [s EXCEPT !.d.mem.retries[m] = k]
         IN  Leads(s, r) /\ r.d.tasks = s.d.tasks /\ r.w = s.w /\ r.n = s.n
<1> DEFINE mem == [s.d.mem EXCEPT !.retries[m] = k]
           r == [s EXCEPT !.d.mem.retries[m] = k]
<1>1. IsMemory(s.d.mem) /\ s.d \in [tasks : {s.d.tasks}, tomb : {s.d.tomb}, mem : {s.d.mem}]
      /\ s \in [d : {s.d}, w : {s.w}, n : Nat]
  BY PageIs
<1>2. s.d.mem.retries \in [Repos -> Nat]
  BY <1>1 DEF IsMemory
<1>3. [s.d.mem.retries EXCEPT ![m] = k] \in [Repos -> Nat]
  BY <1>2
<1>4. IsMemory(mem) /\ mem.cards = s.d.mem.cards /\ Pushes(s.d.mem, <<>>, mem, <<>>)
  BY <1>1, <1>3 DEF IsMemory, Pushes, Ids
<1>5. r = [s EXCEPT !.d.mem = mem]
  BY <1>1
<1> HIDE DEF mem, r
<1>6. Leads(s, r) /\ r.d.tasks = s.d.tasks /\ r.w = s.w /\ r.n = s.n
  BY <1>4, <1>5, SetsLead
<1> QED BY <1>6 DEF r

LEMMA SeesFailureKeeps ==
  ASSUME IndInv, NEW p \in Pages, NEW c, SeesFailure(p, c)
  PROVE  IndInv' /\ NoneBack
<1> DEFINE b == State(p)
           t == Card(p, c).task
           s == Over(b, c)
           k == s.d.mem.retries[t.repo] + 1
           a == [s EXCEPT !.d.mem.retries[t.repo] = @ + 1]
           q == [s EXCEPT !.d.mem.retries[t.repo] = k]
           x == Await(a, Wait(p, "failKill", t))
           y == SetStatus(s, t.id, "error")
<1>1. c \in DOMAIN page[p].mem.cards /\ PaneOf(p, c) = "failed" /\ UNCHANGED <<server, jobs>>
  BY DEF SeesFailure, Watching
<1>2. Free(p, x) \/ Free(p, y)
  BY DEF SeesFailure
<1>3. Sane(b) /\ t \in Fine(Known(b.n, b.w), Ended) /\ t.id \in Ended /\ t.repo \in Repos
  BY <1>1, PaneIs
<1> HIDE DEF b, t
<1>4. Leads(b, s) /\ s.w = b.w /\ s.n = b.n
  BY <1>3, OverLeads
<1> HIDE DEF s
<1>5. Sane(s) /\ IsMemory(s.d.mem)
  BY <1>4, PageIs DEF Leads
<1>6. Leads(s, y)
  BY <1>3, <1>5, StatusLeads DEF Settled
<1>7. k \in Nat /\ a = q
  BY <1>3, <1>5 DEF IsMemory
<1> HIDE DEF a, k
<1>8. Leads(s, q) /\ q.w = s.w /\ q.n = s.n
  BY <1>3, <1>5, <1>7, RetriesLead
<1> HIDE DEF q
<1>9. Leads(s, a) /\ a.w = s.w /\ a.n = s.n
  BY <1>7, <1>8
<1>10. Leads(a, x)
  <2>1. Sane(a) /\ t \in Fine(Known(a.n, a.w), Ended) /\ "failKill" \in Kinds \ Launching
    BY <1>3, <1>4, <1>9 DEF Leads, Kinds, Killing, Launching
  <2> QED BY <2>1, AwaitsRowLeads
<1> HIDE DEF x, y
<1>11. Leads(b, x) /\ Leads(b, y)
  BY <1>4, <1>6, <1>9, <1>10, LeadsOn
<1> QED BY <1>1, <1>2, <1>11, StateKeeps DEF b

LEMMA SeesDoneKeeps ==
  ASSUME IndInv, NEW p \in Pages, NEW c, SeesDone(p, c)
  PROVE  IndInv' /\ NoneBack
<1> DEFINE b == State(p)
           t == Card(p, c).task
           o == Over(b, c)
           a == [o EXCEPT !.d.mem.retries[t.repo] = 0]
           s == SetStatus(a, t.id, "done")
           x == Await(s, Wait(p, "kill", t))
           r == ProcessQueue(x, p)
<1>1. /\ c \in DOMAIN page[p].mem.cards /\ PaneOf(p, c) = "ok" /\ UNCHANGED <<server, jobs>>
      /\ Free(p, r)
  BY DEF SeesDone, Watching
<1>3. Sane(b) /\ t \in Fine(Known(b.n, b.w), Ended) /\ t.id \in Ended /\ t.repo \in Repos
  BY <1>1, PaneIs
<1> HIDE DEF b, t
<1>4. Leads(b, o) /\ o.w = b.w /\ o.n = b.n
  BY <1>3, OverLeads
<1> HIDE DEF o
<1>5. Leads(o, a) /\ a.w = o.w /\ a.n = o.n
  <2>1. Sane(o) /\ 0 \in Nat
    BY <1>4 DEF Leads
  <2> QED BY <1>3, <2>1, RetriesLead
<1> HIDE DEF a
<1>6. Leads(a, s) /\ s.w = a.w /\ s.n = a.n
  <2>1. Sane(a)
    BY <1>5 DEF Leads
  <2> QED BY <1>3, <2>1, SetStatusLeads DEF Settled
<1> HIDE DEF s
<1>7. Leads(s, x)
  <2>1. Sane(s) /\ t \in Fine(Known(s.n, s.w), Ended) /\ "kill" \in Kinds \ Launching
    BY <1>3, <1>4, <1>5, <1>6 DEF Leads, Kinds, Killing, Launching
  <2> QED BY <2>1, AwaitsRowLeads
<1> HIDE DEF x
<1>8. Leads(x, r)
  BY <1>7, ProcessQueueLeads DEF Leads
<1> HIDE DEF r
<1>9. Leads(b, r)
  BY <1>4, <1>5, <1>6, <1>7, <1>8, LeadsOn
<1> QED BY <1>1, <1>9, StateKeeps DEF b, r, x, s, a, o

Restarted(s, id) == UpdateTask(s, id, LAMBDA x : [x EXCEPT !.restarted = TRUE])

\* A row remembers that it was restarted.
LEMMA RestartedLeads ==
  ASSUME NEW s, Sane(s), NEW id
  PROVE  LET r == Restarted(s, id)
         IN  Leads(s, r) /\ r.w = s.w /\ r.n = s.n
<1> DEFINE k == s.d.tasks
           l == [i \in DOMAIN k |-> IF k[i].id = id THEN [k[i] EXCEPT !.restarted = TRUE]
                                    ELSE k[i]]
           K == Known(s.n, s.w)
           r == Restarted(s, id)
           q == Updated(s, id, l)
<1>1. r = q
  BY DEF Restarted, UpdateTask, Edit, Updated
<1>2. \A i \in DOMAIN k : k[i] \in Fine(K, Ended)
  BY PageIs
<1>3. \A i \in DOMAIN k :
        IF k[i].id = id THEN l[i] \in Fine(K, Ended) /\ l[i].id = id ELSE l[i] = k[i]
  BY <1>2 DEF Fine, Rows
<1>4. l = [i \in DOMAIN k |-> l[i]]
  OBVIOUS
<1> HIDE DEF l, r
<1>5. Rewrites(s, q, id, id)
  <2>1. Edited(s.d.tasks, l, id, id, Fine(Known(s.n, s.w), Ended))
    BY <1>3, <1>4 DEF Edited
  <2>2. MayBecome(s, id, id)
    BY DEF MayBecome
  <2> QED BY <2>1, <2>2, UpdateLeads
<1> HIDE DEF q
<1> QED BY <1>1, <1>5 DEF r, Rewrites

LEMMA SeesStallKeeps ==
  ASSUME IndInv, NEW p \in Pages, NEW c, SeesStall(p, c)
  PROVE  IndInv' /\ NoneBack
<1> DEFINE b == State(p)
           t == Card(p, c).task
           card == [task |-> [t EXCEPT !.restarted = TRUE], loop |-> "busy"]
           s == [b EXCEPT !.d.mem.cards[c] = card]
           a == Restarted(s, t.id)
           x == [Wait(p, "stallKill", t) EXCEPT !.card = c]
           r == Await(a, x)
<1>1. c \in DOMAIN page[p].mem.cards /\ PaneOf(p, c) = "stuck" /\ UNCHANGED <<server, jobs>>
  BY DEF SeesStall, Watching
<1>2. Free(p, r)
  BY DEF SeesStall, Restarted
<1>3. /\ Sane(b) /\ b.d = page[p] /\ t \in Fine(Known(b.n, b.w), Ended) /\ ~NoStalls
      /\ t.id[1] = c[1] /\ t.id[1] = "session"
  BY <1>1, PaneIs
<1>4. IsDeck(page[p].mem.cards, Known(b.n, b.w), Ended)
  BY StateIs
<1>5. c \in Id
  BY <1>1, <1>4 DEF IsDeck, Known
<1> HIDE DEF b, t
<1>6. card \in [task : Fine(Known(b.n, b.w), Ended), loop : Loops] /\ card.task.id = t.id
  BY <1>3 DEF Fine, Rows, Loops
<1> HIDE DEF card
<1>7. Leads(b, s) /\ s.w = b.w /\ s.n = b.n
  <2>1. /\ Sane(b) /\ c \in DOMAIN b.d.mem.cards
        /\ card \in [task : Fine(Known(b.n, b.w), Ended), loop : Loops]
        /\ card.task.id[1] = c[1] /\ (NoStalls => card.task.id = c)
    BY <1>1, <1>3, <1>6
  <2>2. Leads(b, s)
    BY ONLY <2>1, CardLeads
  <2>3. s.w = b.w /\ s.n = b.n
    BY ONLY <2>1, CardLeads
  <2> QED BY <2>2, <2>3
<1> HIDE DEF s
<1>8. Leads(s, a) /\ a.w = s.w /\ a.n = s.n
  BY <1>7, RestartedLeads DEF Leads
<1> HIDE DEF a
<1>9. Sane(a) /\ t \in Fine(Known(a.n, a.w), Ended)
  BY <1>3, <1>7, <1>8 DEF Leads
<1> DEFINE K == Known(a.n, a.w)
           what == "stallKill"
           list == <<>>
           ids == {}
<1>10. x \in [p : {p}, what : {what}, task : {t}, card : {c}, at : {"sent"},
              new : {0}, list : {list}, ids : {ids}, k : {x.k}]
  BY DEF Wait
<1>11. /\ p \in Pages /\ what \in Kinds \ Launching
       /\ t \in Fine(K, Ended) /\ c \in Id
       /\ list \in Seq(Fine(K, Ended)) /\ ids \in SUBSET Gone(K, Ended)
       /\ what = "stallKill" => c[1] = "session"
       /\ NoStalls => /\ what # "stallKill"
                      /\ what \in {"stop", "remove"} => c = t.id
                      /\ what = "fade" => t.id \in Ended
  BY <1>3, <1>5, <1>9 DEF Kinds, Launching, Killing
<1> HIDE DEF what, list, ids, x, K
<1>12. IsWait(x, K, Ended) /\ x.new = 0
  BY ONLY <1>10, <1>11, WaitIs
<1>13. Leads(a, r) /\ r.d = a.d
  BY <1>9, <1>12, AwaitLeads DEF K
<1> HIDE DEF r
<1>14. Leads(b, r)
  BY <1>7, <1>8, <1>13, LeadsOn
<1> QED BY <1>1, <1>2, <1>14, StateKeeps DEF b

-----------------------------------------------------------------------------
(* One step per action: polls.                                              *)

LEMMA PollKeeps ==
  ASSUME IndInv, NEW p \in Pages, Poll(p)
  PROVE  IndInv' /\ NoneBack
<1> DEFINE s == State(p)
           list == server.tasks
           x == [Wait(p, "state", Nothing) EXCEPT !.list = list]
           a == MergeState(s, p, list)
           r == Await(s, x)
           K == Known(s.n, s.w)
<1>1. Sane(s) /\ s.w = waits /\ s.n = ghost.n
  BY StateIs
<1>2. Free(p, a) \/ Paid("slow", p, r)
  BY DEF Poll
<1>3. UNCHANGED <<server, jobs>> /\ "slow" \in Spendable
  BY DEF Poll, Spendable
<1> HIDE DEF s
<1>4. list \in Seq(Fine(K, Ended)) /\ Known(ghost.n, waits) \subseteq K
  BY <1>1 DEF IndInv
<1>5. Statuses \in Seq(Fine(K, Ended)) /\ Ids(list) \subseteq Ids(server.tasks)
  BY <1>4, StatusesAreFine
<1> HIDE DEF list
<1>6. Leads(s, a)
  BY <1>1, <1>4, <1>5, MergeStateLeads
<1>7. ASSUME Paid("slow", p, r) PROVE Leads(s, r)
  <2> DEFINE what == "state"
             t == Nothing
             card == t.id
             ids == {}
  <2>a. ~Alone
    BY <1>7, CanBeLate DEF Paid, Late
  <2>1. x \in [p : {p}, what : {what}, task : {t}, card : {card}, at : {"sent"},
               new : {0}, list : {list}, ids : {ids}, k : {x.k}]
    BY DEF Wait
  <2>2. t \in Fine(K, Ended) /\ card \in Id
    BY <1>1, NothingIsFine DEF Fine, Rows
  <2>3. /\ p \in Pages /\ what \in Kinds \ Launching
        /\ list \in Seq(Fine(K, Ended)) /\ ids \in SUBSET Gone(K, Ended)
        /\ what = "stallKill" => card[1] = "session"
        /\ NoStalls => /\ what # "stallKill"
                       /\ what \in {"stop", "remove"} => card = t.id
                       /\ what = "fade" => t.id \in Ended
    BY <1>4, <2>a DEF Kinds, Launching, Killing
  <2> HIDE DEF what, t, card, ids, x, K
  <2>4. IsWait(x, K, Ended) /\ x.new = 0
    BY ONLY <2>1, <2>2, <2>3, WaitIs
  <2>5. Leads(s, r) /\ r.d = s.d
    BY <1>1, <2>4, AwaitLeads DEF K
  <2> QED BY <2>5
<1> HIDE DEF a, r
<1> QED BY <1>2, <1>3, <1>6, <1>7, StateKeeps DEF s

LEMMA SelfHealKeeps ==
  ASSUME IndInv, NEW p \in Pages, NEW id, SelfHeal(p, id)
  PROVE  IndInv' /\ NoneBack
<1> DEFINE s == State(p)
           r == RenderRunningTab(SetStatus(s, id, "running"))
<1>1. Sane(s)
  BY StateIs
<1>2. Free(p, r) /\ UNCHANGED <<server, jobs>>
  BY DEF SelfHeal
<1> HIDE DEF s
<1>3. Leads(s, r)
  BY <1>1, StatusRenderedLeads DEF Settled
<1> HIDE DEF r
<1> QED BY <1>2, <1>3, StateKeeps DEF s

LEMMA SyncLostKeeps ==
  ASSUME IndInv, NEW p \in Pages, SyncLost(p)
  PROVE  IndInv' /\ NoneBack
<1> DEFINE s == State(p)
           mem == [s.d.mem EXCEPT !.due = FALSE]
           r == [s EXCEPT !.d.mem.due = FALSE]
<1>1. Sane(s) /\ s.d = page[p] /\ IsDeck(s.d.mem.cards, Known(s.n, s.w), Ended)
  BY StateIs
<1>2. Paid("lost", p, r) /\ "lost" \in Spendable /\ UNCHANGED <<server, jobs>>
  BY DEF SyncLost, Spendable
<1> HIDE DEF s
<1>3. /\ IsMemory(s.d.mem)
      /\ s.d \in [tasks : {s.d.tasks}, tomb : {s.d.tomb}, mem : {s.d.mem}]
      /\ s \in [d : {s.d}, w : {s.w}, n : Nat]
  BY <1>1, PageIs
<1>4. IsMemory(mem) /\ mem.cards = s.d.mem.cards /\ Pushes(s.d.mem, <<>>, mem, <<>>)
  BY <1>3 DEF IsMemory, Pushes, Ids
<1>5. r \in [d : [tasks : {s.d.tasks}, tomb : {s.d.tomb}, mem : {mem}], w : {s.w}, n : {s.n}]
  BY <1>3
<1> HIDE DEF r, mem
<1>6. Leads(s, r)
  BY <1>1, <1>4, <1>5, MemoryLeads
<1> QED BY <1>2, <1>6, StateKeeps DEF s

\* A page alone has removed what the server has, so that it sends all its rows.
LEMMA SyncToServerKeeps ==
  ASSUME IndInv, NEW p \in Pages, SyncToServer(p)
  PROVE  IndInv' /\ NoneBack
<1> DEFINE K == Known(ghost.n, waits)
           S == Fine(K, Ended)
           d == page[p]
           removed == server.removed \cup d.tomb
           sent == Without(d.tasks, removed)
           rest == Without(server.tasks, removed \cup Ids(sent))
<1>1. PICK kept \in SUBSET Ids(rest) :
        server' = [tasks |-> sent \o Only(rest, {i \in DOMAIN rest : rest[i].id \in kept}),
                   removed |-> removed]
  BY DEF SyncToServer
<1>2. page' = [page EXCEPT ![p].mem.dirty = FALSE, ![p].mem.due = FALSE]
      /\ UNCHANGED <<jobs, waits, ghost>>
  BY DEF SyncToServer
<1>3. /\ \A q \in Pages : IsPage(page[q], K, Ended)
      /\ server \in [tasks : Seq(S), removed : SUBSET Gone(K, Ended)]
      /\ page \in [Pages -> {page[q] : q \in Pages}]
  BY DEF IndInv
<1>4. removed \in SUBSET Gone(K, Ended) /\ d.tasks \in Seq(S)
  BY <1>3 DEF IsPage
<1> HIDE DEF S
<1> DEFINE ids == removed \cup Ids(sent)
           I == {i \in DOMAIN rest : rest[i].id \in kept}
           more == Only(rest, I)
           l == sent \o more
<1>5. sent \in Seq(S) /\ Ids(sent) = Ids(d.tasks) \ removed
  BY <1>4, WithoutIs
<1>6. server.tasks \in Seq(S)
  BY <1>3
<1> HIDE DEF ids
<1> DEFINE left == Without(server.tasks, ids)
<1>7. left \in Seq(S)
  BY <1>6, WithoutIs
<1>8. rest \in Seq(S)
  BY <1>7 DEF ids
<1>9. I \in SUBSET DOMAIN rest
  OBVIOUS
<1> HIDE DEF sent, rest, I
<1>10. more \in Seq(S)
  BY <1>8, <1>9, OnlyIs
<1> HIDE DEF more
<1>11. l \in Seq(S) /\ Ids(sent) \subseteq Ids(l)
  BY <1>5, <1>10, ConcatIs
<1>12. server' = [tasks |-> l, removed |-> removed]
  BY <1>1 DEF more, I
<1>a. ASSUME Alone PROVE IsPushed'
  <2>1. /\ \A q \in Pages : page[q].mem.up <=> q = First
        /\ page[First].mem.open
        /\ server.removed \subseteq page[First].tomb
    BY <1>a DEF IndInv, IsPushed
  <2>2. p = First
    BY <2>1 DEF SyncToServer
  <2>3. Ids(d.tasks) \cap d.tomb = {} /\ removed = d.tomb
    BY <1>3, <2>1, <2>2 DEF IsPage
  <2>4. \A q \in Pages : page'[q].mem.up = page[q].mem.up /\ page'[q].mem.open = page[q].mem.open
                         /\ page'[q].tomb = page[q].tomb /\ page'[q].tasks = page[q].tasks
    <3> TAKE q \in Pages
    <3>1. /\ page[q] \in [tasks : {page[q].tasks}, tomb : {page[q].tomb}, mem : {page[q].mem}]
          /\ IsMemory(page[q].mem)
      BY <1>3 DEF IsPage
    <3>2. page'[q] = page[q] \/ page'[q] = [page[q] EXCEPT !.mem.dirty = FALSE, !.mem.due = FALSE]
      BY <1>2, <1>3
    <3> QED BY <3>1, <3>2 DEF IsMemory
  <2>5. Ids(page[First].tasks) \subseteq Ids(l)
    BY <1>5, <1>11, <2>2, <2>3
  <2>6. server'.tasks = l /\ server'.removed = page[First].tomb
    BY <1>12, <2>2, <2>3
  <2>7. Ids(page'[First].tasks) \subseteq Ids(server'.tasks)
    BY <2>4, <2>5, <2>6, CookbookAssumption
  <2> HIDE DEF l, removed, d
  <2> QED BY <2>1, <2>4, <2>6, <2>7, CookbookAssumption DEF IsPushed
<1> HIDE DEF l, removed
<1>13. server' \in [tasks : Seq(S), removed : SUBSET Gone(K, Ended)]
  BY <1>4, <1>11, <1>12
<1>14. \A q \in Pages : /\ page'[q].tasks = page[q].tasks
                        /\ IsPage(page'[q], K, Ended)
  <2> TAKE q \in Pages
  <2>1. CASE q # p
    BY <1>2, <1>3, <2>1
  <2>2. CASE q = p
    <3>1. IsPage(d, K, Ended)
      BY <1>3
    <3>2. page'[q] = [d EXCEPT !.mem.dirty = FALSE, !.mem.due = FALSE]
      BY <1>2, <1>3, <2>2
    <3> HIDE DEF d, K
    <3>3. /\ page'[q].tasks = d.tasks /\ page'[q].tomb = d.tomb
          /\ page'[q].mem = [d.mem EXCEPT !.dirty = FALSE, !.due = FALSE]
          /\ page'[q] \in [tasks : {d.tasks}, tomb : {d.tomb}, mem : {page'[q].mem}]
      BY <3>1, <3>2 DEF IsPage
    <3>a. Ids(page'[q].tasks) \cap page'[q].tomb = {}
      BY <3>1, <3>3 DEF IsPage
    <3>4. IsMemory(page'[q].mem) /\ page'[q].mem.cards = d.mem.cards
      BY <3>1, <3>3 DEF IsPage, IsMemory
    <3>5. IsPage(page'[q], K, Ended)
      BY <3>1, <3>3, <3>4, <3>a DEF IsPage
    <3> QED BY <2>2, <3>3, <3>5 DEF d
  <2> QED BY <2>1, <2>2
<1>15. page' \in [Pages -> {page'[q] : q \in Pages}]
  BY <1>2, <1>3
<1>16. Ended' = Ended
  BY <1>2 DEF Ended, Running
<1>17. NoStalls => JobIsListed'
  BY <1>2, <1>14 DEF IndInv, JobIsListed, Running
<1>18. Counted' /\ JobsAreSound' /\ Numbered(waits', ghost'.n)
  BY <1>2 DEF IndInv, Counted, JobsAreSound
<1>19. \A w \in waits' : IsWait(w, K, Ended)
  BY <1>2 DEF IndInv
<1>20. Known(ghost'.n, waits') = K
  BY <1>2
<1> HIDE DEF K
<1>21. IndInv'
  BY <1>13, <1>14, <1>15, <1>16, <1>17, <1>18, <1>19, <1>20, <1>a DEF IndInv, S
<1>22. NoneBack
  BY <1>14 DEF NoneBack
<1> QED BY <1>21, <1>22

-----------------------------------------------------------------------------
(* One step per action: the requests are served, and the downloads run.     *)

\* The sessions are the same, and none begins to download again.
Quieter ==
  /\ jobs' \in [at : {jobs'.at}, of : {jobs'.of}, disk : {jobs'.disk}]
  /\ jobs'.at \in [DOMAIN jobs.at -> {"live", "stuck", "ok", "failed", "gone"}]
  /\ \A n \in DOMAIN jobs.at : jobs'.at[n] \in {"live", "stuck"} => Running(n)
  /\ NoStalls => \A n \in DOMAIN jobs.at : jobs'.at[n] # "stuck"

\* The waits are the same, or one is answered, which is sound if F has ended.
Heard(F) ==
  /\ \A w \in waits' : IsWait(w, Known(ghost.n, waits), F)
  /\ Known(ghost.n, waits') = Known(ghost.n, waits)
  /\ Numbered(waits', ghost.n)
  /\ \A v \in waits' : v.new > 0 => \E w \in waits : w.new = v.new /\ (w.at = "ok" => v.at = "ok")
  /\ \A w \in waits : w.new > 0 /\ w.at = "ok" => w \in waits'

\* Whatever happens outside of the pages.
LEMMA OutsideKeeps ==
  ASSUME IndInv, UNCHANGED <<page, server>>, Counted', ghost'.n = ghost.n, JobsAreSound',
         NoStalls => JobIsListed', NEW F, Ended' = F,
         Known(ghost.n, waits) \cap Ended \subseteq F, Heard(F)
  PROVE  IndInv' /\ NoneBack
<1> DEFINE K == Known(ghost.n, waits)
<1>1. /\ \A p \in Pages : IsPage(page[p], K, Ended)
      /\ server \in [tasks : Seq(Fine(K, Ended)), removed : SUBSET Gone(K, Ended)]
      /\ page \in [Pages -> {page[q] : q \in Pages}]
  BY DEF IndInv
<1>2. K \subseteq K /\ K \cap Ended \subseteq F
  OBVIOUS
<1>3. Known(ghost'.n, waits') = K /\ Numbered(waits', ghost'.n)
      /\ \A w \in waits' : IsWait(w, K, F)
  BY DEF Heard
<1> HIDE DEF K
<1>4. \A p \in Pages : IsPage(page[p], K, F)
  BY <1>1, <1>2, PageGrows
<1>5. /\ Gone(K, Ended) \subseteq Gone(K, F)
      /\ \A l \in Seq(Fine(K, Ended)) : l \in Seq(Fine(K, F))
  BY ONLY <1>2, Grows
<1>6. server \in [tasks : Seq(Fine(K, F)), removed : SUBSET Gone(K, F)]
  BY <1>1, <1>5
<1>7. Alone => IsPushed'
  BY DEF IndInv, IsPushed
<1>8. IndInv' /\ NoneBack
  BY <1>1, <1>3, <1>4, <1>6, <1>7 DEF IndInv, NoneBack
<1> QED BY <1>8

\* Nothing is heard: the same waits, over more that has ended.
LEMMA NothingHeard ==
  ASSUME IndInv, UNCHANGED waits, NEW F, Known(ghost.n, waits) \cap Ended \subseteq F
  PROVE  Heard(F)
<1> DEFINE K == Known(ghost.n, waits)
<1>1. \A w \in waits : IsWait(w, K, Ended)
  BY DEF IndInv
<1>2. K \subseteq K /\ K \cap Ended \subseteq F
  OBVIOUS
<1> HIDE DEF K
<1>3. \A w \in waits : IsWait(w, K, F)
  BY <1>1, <1>2, WaitGrows
<1> QED BY <1>3 DEF Heard, K, IndInv

\* A request is answered at, and what it was for is in F if it was a kill.
LEMMA AnswerHeard ==
  ASSUME IndInv, NEW w \in waits, NEW at \in {"ok", "bad", "cut"}, Answer(w, at),
         w.new > 0 => w.at # "ok",
         at = "cut" => w.what \in Killing,
         NEW F, Known(ghost.n, waits) \cap Ended \subseteq F,
         NoStalls /\ w.what \in Killing /\ at = "ok" => w.task.id \in F
  PROVE  Heard(F)
<1> DEFINE K == Known(ghost.n, waits)
           x == [w EXCEPT !.at = at]
<1>1. \A v \in waits : IsWait(v, K, Ended)
  BY DEF IndInv
<1>2. K \subseteq K /\ K \cap Ended \subseteq F
  OBVIOUS
<1> HIDE DEF K
<1>3. \A v \in waits : IsWait(v, K, F)
  BY <1>1, <1>2, WaitGrows
<1>4. waits' = (waits \ {w}) \cup {x}
  BY DEF Answer
<1>5. /\ x \in [p : {w.p}, what : {w.what}, task : {w.task}, card : {w.card}, at : {at},
                new : {w.new}, list : {w.list}, ids : {w.ids}, k : {x.k}]
      /\ x.p = w.p /\ x.what = w.what /\ x.task = w.task /\ x.card = w.card /\ x.at = at
      /\ x.new = w.new /\ x.list = w.list /\ x.ids = w.ids
  BY <1>3 DEF IsWait
<1> HIDE DEF x
<1>6. IsWait(x, K, F)
  <2>1. /\ w.p \in Pages /\ w.what \in Kinds /\ w.task \in Rows /\ w.card \in Id
        /\ at \in {"sent", "ok", "bad", "cut"} /\ w.new \in Nat
        /\ w.list \in Seq(Fine(K, F)) /\ w.ids \in SUBSET Gone(K, F)
    BY <1>3 DEF IsWait
  <2> DEFINE lists == Seq(Fine(K, F))
             sets == SUBSET Gone(K, F)
  <2>2. w.list \in lists /\ w.ids \in sets
    BY <2>1
  <2> HIDE DEF lists, sets
  <2>3. x \in [p : Pages, what : Kinds, task : Rows, card : Id,
               at : {"sent", "ok", "bad", "cut"}, new : Nat, list : lists, ids : sets, k : {x.k}]
    BY <1>5, <2>1, <2>2
  <2>4. x \in [p : Pages, what : Kinds, task : Rows, card : Id,
               at : {"sent", "ok", "bad", "cut"}, new : Nat, list : Seq(Fine(K, F)),
               ids : SUBSET Gone(K, F), k : {x.k}]
    BY <2>3 DEF lists, sets
  <2>5. IsWait(w, K, F)
    BY <1>3
  <2> QED BY <1>5, <2>4, <2>5 DEF IsWait
<1>7. \A v \in waits' : IsWait(v, K, F)
  BY <1>3, <1>4, <1>6
<1>8. Known(ghost.n, waits') = Known(ghost.n, waits)
  <2>1. \A v \in waits' : \E u \in waits : u.new = v.new
    BY <1>4, <1>5
  <2>2. \A u \in waits : \E v \in waits' : u.new = v.new
    BY <1>4, <1>5
  <2>3. Known(ghost.n, waits') \subseteq Known(ghost.n, waits)
    BY <2>2 DEF Known
  <2>4. Known(ghost.n, waits) \subseteq Known(ghost.n, waits')
    BY <2>1 DEF Known
  <2> QED BY <2>3, <2>4
<1>9. Numbered(waits', ghost.n)
  <2>1. Numbered(waits, ghost.n)
    BY DEF IndInv
  <2> QED BY <1>4, <1>5, <2>1 DEF Numbered
<1>10. \A v \in waits' : v.new > 0 => \E u \in waits : u.new = v.new /\ (u.at = "ok" => v.at = "ok")
  BY <1>4, <1>5
<1>11. \A u \in waits : u.new > 0 /\ u.at = "ok" => u \in waits'
  BY <1>4
<1> QED BY <1>7, <1>8, <1>9, <1>10, <1>11 DEF Heard, K

\* A step in which the sessions get no louder.
LEMMA QuieterKeeps ==
  ASSUME IndInv, UNCHANGED <<page, server>>, Counted', ghost'.n = ghost.n, Quieter,
         NEW F, Ended' = F, Heard(F)
  PROVE  IndInv' /\ NoneBack
<1>1. DOMAIN jobs'.at = DOMAIN jobs.at
  BY DEF Quieter
<1>2. \A n \in DOMAIN jobs.at : Running(n)' => Running(n)
  BY DEF Quieter, Running
<1>3. Known(ghost.n, waits) \cap Ended \subseteq F
  BY <1>1, <1>2 DEF Ended
<1>4. JobsAreSound'
  <2>1. \A n \in DOMAIN jobs.at : /\ n \in Nat \ {0} /\ n <= ghost.n
                                  /\ \A w \in waits : w.new = n => w.at = "ok"
    BY DEF IndInv, JobsAreSound
  <2>2. \A n \in DOMAIN jobs.at : \A v \in waits' : v.new = n => v.at = "ok"
    BY <2>1 DEF Heard
  <2>3. /\ jobs' \in [at : {jobs'.at}, of : {jobs'.of}, disk : {jobs'.disk}]
        /\ jobs'.at \in [DOMAIN jobs'.at -> {"live", "stuck", "ok", "failed", "gone"}]
    BY <1>1 DEF Quieter
  <2>4. NoStalls => \A n \in DOMAIN jobs'.at : jobs'.at[n] # "stuck"
    BY <1>1 DEF Quieter
  <2>5. DOMAIN jobs'.at \subseteq Nat \ {0}
    BY <1>1, <2>1
  <2>6. \A n \in DOMAIN jobs'.at : n <= ghost'.n /\ \A w \in waits' : w.new = n => w.at = "ok"
    BY <1>1, <2>1, <2>2
  <2> QED BY <2>3, <2>4, <2>5, <2>6 DEF JobsAreSound
<1>5. ASSUME NoStalls PROVE JobIsListed'
  <2> SUFFICES ASSUME NEW n \in DOMAIN jobs.at, Running(n)
               PROVE  \/ \E q \in Pages : Session(n) \in Ids(page[q].tasks)
                      \/ \E w \in waits' : w.new = n /\ w.at = "ok"
    BY <1>1, <1>2 DEF JobIsListed
  <2>1. n > 0
    BY DEF IndInv, JobsAreSound
  <2> QED BY <1>5, <2>1 DEF IndInv, JobIsListed, Heard
<1> QED BY <1>3, <1>4, <1>5, OutsideKeeps

\* Some of the budget is spent.
LEMMA SpendCounts ==
  ASSUME IndInv, NEW what \in Spendable, Spend(what)
  PROVE  Counted' /\ ghost'.n = ghost.n /\ (NoStalls => what # "stalls")
<1> DEFINE left == [ghost.left EXCEPT ![what] = @ - 1]
<1>1. /\ ghost \in [left : [Spendable -> Nat], n : Nat, starts : {ghost.starts},
                    auto : {ghost.auto}, asked : {ghost.asked}]
      /\ Bounded(ghost.left)
  BY DEF IndInv, Counted
<1>2. ghost.left[what] > 0 /\ ghost' = [ghost EXCEPT !.left = left]
  BY <1>1 DEF Spend, Can
<1>3. left \in [Spendable -> Nat] /\ Bounded(left) /\ (NoStalls => what # "stalls")
  BY <1>1, <1>2 DEF Spendable, Bounded, Late
<1> HIDE DEF left
<1>4. ghost' \in [left : {left}, n : {ghost.n}, starts : {ghost.starts},
                  auto : {ghost.auto}, asked : {ghost.asked}]
  BY <1>1, <1>2
<1>5. /\ ghost'.left = left /\ ghost'.n = ghost.n /\ ghost'.starts = ghost.starts
      /\ ghost'.auto = ghost.auto /\ ghost'.asked = ghost.asked
  BY <1>4
<1>6. Counted'
  BY <1>1, <1>3, <1>4, <1>5 DEF Counted
<1> QED BY <1>3, <1>5, <1>6

\* One session changes, and does not begin to download again.
LEMMA PaneQuiets ==
  ASSUME IndInv, NEW n \in DOMAIN jobs.at, NEW at \in {"stuck", "ok", "failed", "gone"},
         at = "stuck" => Running(n) /\ ~NoStalls,
         jobs' \in [at : {[jobs.at EXCEPT ![n] = at]}, of : {jobs'.of}, disk : {jobs'.disk}]
  PROVE  Quieter
<1> DEFINE new == [jobs.at EXCEPT ![n] = at]
<1>1. jobs'.at = new
  OBVIOUS
<1>2. /\ jobs.at \in [DOMAIN jobs.at -> {"live", "stuck", "ok", "failed", "gone"}]
      /\ NoStalls => \A k \in DOMAIN jobs.at : jobs.at[k] # "stuck"
  BY DEF IndInv, JobsAreSound
<1>3. new \in [DOMAIN jobs.at -> {"live", "stuck", "ok", "failed", "gone"}]
      /\ \A k \in DOMAIN jobs.at : new[k] = IF k = n THEN at ELSE jobs.at[k]
  BY <1>2
<1> HIDE DEF new
<1>4. jobs' \in [at : {jobs'.at}, of : {jobs'.of}, disk : {jobs'.disk}]
  BY <1>1 DEF new
<1> QED BY <1>1, <1>2, <1>3, <1>4 DEF Quieter, Running

LEMMA JobEndsKeeps ==
  ASSUME IndInv, NEW n, JobEnds(n)
  PROVE  IndInv' /\ NoneBack
<1>1. n \in DOMAIN jobs.at /\ UNCHANGED <<page, server, waits, ghost>>
      /\ jobs' = [jobs EXCEPT !.at[n] = "ok", !.disk = @ \cup {jobs.of[n]}]
  BY DEF JobEnds
<1>2. jobs \in [at : {jobs.at}, of : {jobs.of}, disk : {jobs.disk}]
  BY DEF IndInv, JobsAreSound
<1>3. jobs' \in [at : {[jobs.at EXCEPT ![n] = "ok"]}, of : {jobs'.of}, disk : {jobs'.disk}]
  BY <1>1, <1>2
<1>4. Quieter
  BY <1>1, <1>3, PaneQuiets
<1>5. PICK F : Ended' = F
  OBVIOUS
<1>6. Ended \subseteq F
  BY <1>4, <1>5 DEF Ended, Quieter, Running
<1>7. Heard(F)
  BY <1>1, <1>6, NothingHeard
<1>8. Counted' /\ ghost'.n = ghost.n
  BY <1>1 DEF IndInv, Counted
<1> QED BY <1>1, <1>4, <1>5, <1>7, <1>8, QuieterKeeps

LEMMA JobGoesWrongKeeps ==
  ASSUME IndInv, NEW n, JobGoesWrong(n)
  PROVE  IndInv' /\ NoneBack
<1>1. PICK what \in {"fails", "stalls", "deaths"}, at \in {"stuck", "failed", "gone"} :
        /\ Spend(what) /\ jobs' = [jobs EXCEPT !.at[n] = at]
        /\ at = "stuck" => Running(n) /\ what = "stalls"
  BY DEF JobGoesWrong, Running
<1>2. n \in DOMAIN jobs.at /\ UNCHANGED <<page, server, waits>>
  BY DEF JobGoesWrong
<1>3. Counted' /\ ghost'.n = ghost.n /\ (NoStalls => what # "stalls")
  BY <1>1, SpendCounts DEF Spendable
<1>4. jobs \in [at : {jobs.at}, of : {jobs.of}, disk : {jobs.disk}]
  BY DEF IndInv, JobsAreSound
<1>5. jobs' \in [at : {[jobs.at EXCEPT ![n] = at]}, of : {jobs'.of}, disk : {jobs'.disk}]
  BY <1>1, <1>4
<1>6. Quieter
  BY <1>1, <1>2, <1>3, <1>5, PaneQuiets
<1>7. PICK F : Ended' = F
  OBVIOUS
<1>8. Ended \subseteq F
  BY <1>6, <1>7 DEF Ended, Quieter, Running
<1>9. Heard(F)
  BY <1>2, <1>8, NothingHeard
<1> QED BY <1>2, <1>3, <1>6, <1>7, <1>9, QuieterKeeps

\* A pane that shows the end of its session, if there is one.
LEMMA PaneIsQuiet ==
  ASSUME IndInv, NEW id, NEW at \in {"failed", "gone"}, jobs' = Pane(id, at)
  PROVE  Quieter /\ (id \in Id => id \in Ended') /\ Ended \subseteq Ended'
<1>1. /\ jobs \in [at : {jobs.at}, of : {jobs.of}, disk : {jobs.disk}]
      /\ jobs.at \in [DOMAIN jobs.at -> {"live", "stuck", "ok", "failed", "gone"}]
      /\ NoStalls => \A k \in DOMAIN jobs.at : jobs.at[k] # "stuck"
  BY DEF IndInv, JobsAreSound
<1>2. CASE Alive(id)
  <2> DEFINE n == id[2]
  <2>1. id[1] = "session" /\ n \in DOMAIN jobs.at /\ jobs' = [jobs EXCEPT !.at[n] = at]
    BY <1>2 DEF Alive, Pane
  <2>2. jobs' \in [at : {[jobs.at EXCEPT ![n] = at]}, of : {jobs'.of}, disk : {jobs'.disk}]
    BY <1>1, <2>1
  <2>3. Quieter
    <3> HIDE DEF n
    <3> QED BY <2>1, <2>2, PaneQuiets
  <2>4. jobs'.at[n] = at
    BY <1>1, <2>1
  <2>5. id \in Id => id \in Ended'
    BY <2>4 DEF Ended, Running
  <2> QED BY <2>3, <2>5 DEF Ended, Quieter, Running
<1>3. CASE ~Alive(id)
  <2>1. jobs' = jobs
    BY <1>3 DEF Pane
  <2>2. Quieter
    BY <1>1, <2>1 DEF Quieter, Running
  <2>3. Ended' = Ended
    BY <2>1 DEF Ended, Running
  <2> QED BY <1>3, <2>2, <2>3, GoneIsEnded
<1> QED BY <1>2, <1>3

LEMMA InterruptedKeeps ==
  ASSUME IndInv, NEW w \in waits, Interrupted(w)
  PROVE  IndInv' /\ NoneBack
<1>1. /\ w.what \in {"stop", "remove", "retryKill"} /\ w.at = "sent"
      /\ UNCHANGED <<page, server>>
  BY DEF Interrupted
<1>2. PICK at \in {"bad", "cut"} :
        /\ Answer(w, at)
        /\ jobs' = jobs \/ jobs' = Pane(w.task.id, "failed")
        /\ UNCHANGED ghost \/ Spend("errors")
  BY DEF Interrupted
<1>3. Counted' /\ ghost'.n = ghost.n
  <2>1. CASE UNCHANGED ghost
    BY <2>1 DEF IndInv, Counted
  <2>2. CASE Spend("errors")
    BY <2>2, SpendCounts DEF Spendable
  <2> QED BY <1>2, <2>1, <2>2
<1>4. Quieter /\ Ended \subseteq Ended'
  <2>1. CASE jobs' = jobs
    BY <2>1 DEF IndInv, JobsAreSound, Quieter, Ended, Running
  <2>2. CASE jobs' = Pane(w.task.id, "failed")
    BY <2>2, PaneIsQuiet
  <2> QED BY <1>2, <2>1, <2>2
<1>5. PICK F : Ended' = F
  OBVIOUS
<1>6. Heard(F)
  <2>1. Known(ghost.n, waits) \cap Ended \subseteq F
    BY <1>4, <1>5
  <2>2. w.what \in Killing
    BY <1>1 DEF Killing
  <2> QED BY <1>1, <1>2, <2>1, <2>2, AnswerHeard
<1> QED BY <1>1, <1>3, <1>4, <1>5, <1>6, QuieterKeeps

LEMMA KillHandledKeeps ==
  ASSUME IndInv, NEW w \in waits, KillHandled(w)
  PROVE  IndInv' /\ NoneBack
<1>1. jobs' = Pane(w.task.id, "gone") /\ UNCHANGED <<page, server, ghost>>
  BY DEF KillHandled
<1>2. /\ w.task.id \in Id
      /\ w.new > 0 <=> w.what \in Launching
      /\ w.at = "cut" => w.what \in Killing
  BY DEF IndInv, IsWait, Rows
<1>3. Quieter /\ w.task.id \in Ended' /\ Ended \subseteq Ended'
  BY <1>1, <1>2, PaneIsQuiet
<1>4. PICK F : Ended' = F
  OBVIOUS
<1>5. Counted' /\ ghost'.n = ghost.n
  BY <1>1 DEF IndInv, Counted
<1>6. Known(ghost.n, waits) \cap Ended \subseteq F /\ w.task.id \in F
  BY <1>3, <1>4
<1>7. CASE Answer(w, "ok") /\ (w.at = "cut" \/ w.what \in {"stallKill", "failKill"})
  <2>1. w.new > 0 => w.at # "ok"
    BY <1>2, <1>7 DEF Launching
  <2>2. Heard(F)
    BY <1>6, <1>7, <2>1, AnswerHeard
  <2> QED BY <1>1, <1>3, <1>4, <1>5, <2>2, QuieterKeeps
<1>8. CASE w.what = "kill" /\ waits' = waits \ {w}
  <2> DEFINE K == Known(ghost.n, waits)
  <2>1. ~(w.new > 0)
    BY <1>2, <1>8 DEF Launching
  <2>2. Known(ghost.n, waits') = Known(ghost.n, waits)
    BY <1>8, <2>1 DEF Known
  <2>3. \A v \in waits : IsWait(v, K, Ended)
    BY DEF IndInv
  <2>4. K \subseteq K /\ K \cap Ended \subseteq F
    BY <1>6
  <2> HIDE DEF K
  <2>5. \A v \in waits : IsWait(v, K, F)
    BY <2>3, <2>4, WaitGrows
  <2>6. Numbered(waits', ghost.n)
    BY <1>8 DEF IndInv, Numbered
  <2>7. Heard(F)
    BY <1>8, <2>1, <2>2, <2>5, <2>6 DEF Heard, K
  <2> QED BY <1>1, <1>3, <1>4, <1>5, <2>7, QuieterKeeps
<1> QED BY <1>7, <1>8 DEF KillHandled

\* A launch is handled: its session is made, and its answer will list it.
LEMMA PostHandledKeeps ==
  ASSUME IndInv, NEW w \in waits, PostHandled(w)
  PROVE  IndInv' /\ NoneBack
<1>1. w.new > 0 /\ w.at = "sent" /\ UNCHANGED <<page, server>>
  BY DEF PostHandled
<1>2. w.what \in Launching /\ w.what \notin Killing /\ w.new \in Nat /\ w.new <= ghost.n
  BY <1>1 DEF IndInv, IsWait, Numbered, Launching, Killing
<1>3. CASE Spend("errors") /\ Answer(w, "bad") /\ UNCHANGED jobs
  <2>1. Counted' /\ ghost'.n = ghost.n
    BY <1>3, SpendCounts DEF Spendable
  <2>2. Quieter /\ Ended' = Ended
    BY <1>3 DEF IndInv, JobsAreSound, Quieter, Ended, Running
  <2>3. Known(ghost.n, waits) \cap Ended \subseteq Ended
    OBVIOUS
  <2>4. Heard(Ended)
    BY <1>1, <1>2, <1>3, <2>3, AnswerHeard
  <2> QED BY <1>1, <2>1, <2>2, <2>4, QuieterKeeps
<1>4. CASE /\ jobs' = [jobs EXCEPT !.at = [n \in DOMAIN @ \cup {w.new} |->
                                            IF n = w.new THEN "live" ELSE @[n]],
                                   !.of = [n \in DOMAIN @ \cup {w.new} |->
                                            IF n = w.new THEN w.task.repo ELSE @[n]]]
           /\ Answer(w, "ok") /\ UNCHANGED ghost
  <2> DEFINE D == DOMAIN jobs.at
             m == w.new
             at == [n \in D \cup {m} |-> IF n = m THEN "live" ELSE jobs.at[n]]
             x == [w EXCEPT !.at = "ok"]
  <2>1. /\ jobs \in [at : {jobs.at}, of : {jobs.of}, disk : {jobs.disk}]
        /\ jobs.at \in [D -> {"live", "stuck", "ok", "failed", "gone"}]
        /\ D \subseteq Nat \ {0}
        /\ \A n \in D : n <= ghost.n /\ \A v \in waits : v.new = n => v.at = "ok"
        /\ NoStalls => \A n \in D : jobs.at[n] # "stuck"
    BY DEF IndInv, JobsAreSound
  <2>2. jobs' \in [at : {at}, of : {jobs'.of}, disk : {jobs.disk}]
    BY <1>4, <2>1
  <2>3. jobs'.at = at /\ jobs' \in [at : {jobs'.at}, of : {jobs'.of}, disk : {jobs'.disk}]
    BY <2>2
  <2>4. /\ at \in [D \cup {m} -> {"live", "stuck", "ok", "failed", "gone"}]
        /\ at[m] = "live" /\ \A n \in D \ {m} : at[n] = jobs.at[n]
    BY <2>1
  <2>5. m \notin D
    BY <1>1, <2>1
  <2>6. waits' = (waits \ {w}) \cup {x} /\ x.new = m /\ x.at = "ok"
    <3>1. x.new = m /\ x.at = "ok"
      BY DEF IndInv, IsWait
    <3> QED BY <1>4, <3>1 DEF Answer
  <2> HIDE DEF at, x
  <2>7. PICK F : Ended' = F
    OBVIOUS
  <2>8. Known(ghost.n, waits) \cap Ended \subseteq F
    <3> SUFFICES ASSUME NEW id \in Known(ghost.n, waits), id \in Ended,
                        id[1] = "session", id[2] \in DOMAIN jobs'.at,
                        jobs'.at[id[2]] \in {"live", "stuck"}
                 PROVE  FALSE
      BY <2>7 DEF Ended, Running, Known
    <3>1. id = Session(id[2])
      BY DEF Known, Id, Session
    <3>2. id[2] # m
      BY <1>1, <3>1 DEF Known
    <3>3. id[2] \in D /\ Running(id[2])
      BY <2>3, <2>4, <3>2 DEF Running
    <3> QED BY <3>3 DEF Ended
  <2>9. Heard(F)
    BY <1>1, <1>2, <1>4, <2>8, AnswerHeard
  <2>10. Counted' /\ ghost'.n = ghost.n
    BY <1>4 DEF IndInv, Counted
  <2>11. JobsAreSound'
    <3>1. DOMAIN jobs'.at = D \cup {m}
      BY <2>3, <2>4
    <3>2. \A v \in waits : v.new = m /\ m > 0 => v = w
      BY DEF IndInv, Numbered
    <3>3. \A n \in DOMAIN jobs'.at : n \in Nat \ {0} /\ n <= ghost'.n
      BY <1>1, <1>2, <2>1, <2>10, <3>1
    <3>4. \A n \in DOMAIN jobs'.at : \A v \in waits' : v.new = n => v.at = "ok"
      BY <1>1, <2>1, <2>6, <3>1, <3>2
    <3>5. NoStalls => \A n \in DOMAIN jobs'.at : jobs'.at[n] # "stuck"
      BY <2>1, <2>3, <2>4, <3>1
    <3> QED BY <2>3, <2>4, <3>1, <3>3, <3>4, <3>5 DEF JobsAreSound
  <2>12. ASSUME NoStalls PROVE JobIsListed'
    <3> SUFFICES ASSUME NEW n \in DOMAIN jobs'.at, jobs'.at[n] \in {"live", "stuck"}
                 PROVE  \/ \E q \in Pages : Session(n) \in Ids(page[q].tasks)
                        \/ \E v \in waits' : v.new = n /\ v.at = "ok"
      BY <1>1 DEF JobIsListed, Running
    <3>1. CASE n = m
      BY <2>6, <3>1
    <3>2. CASE n # m
      <4>1. n \in D /\ Running(n) /\ n > 0
        BY <2>1, <2>3, <2>4, <3>2 DEF Running
      <4> QED BY <2>9, <2>12, <4>1 DEF IndInv, JobIsListed, Heard
    <3> QED BY <3>1, <3>2
  <2> QED BY <1>1, <2>7, <2>8, <2>9, <2>10, <2>11, <2>12, OutsideKeeps
<1> QED BY <1>3, <1>4 DEF PostHandled

-----------------------------------------------------------------------------
(* The theorems.                                                            *)

LEMMA StepKeeps ==
  ASSUME IndInv, Next
  PROVE  IndInv' /\ NoneBack
<1>1. CASE \E p \in Pages : UserActs(p)
  <2>1. PICK p \in Pages : UserActs(p)
    BY <1>1
  <2>2. CASE \E m \in Repos : Download(p, m)
    BY <2>2, DownloadKeeps
  <2>3. CASE \E h \in Hosts : AskStopAll(p, h) \/ AskClear(p, h)
    BY <2>3, AskStopAllKeeps, AskClearKeeps
  <2>4. CASE \E c \in DOMAIN page[p].mem.cards :
               StartNow(p, c) \/ Watch(p, c) \/ Reconnect(p, c) \/ RemoveCard(p, c)
                 \/ Restart(p, c) \/ ClearPill(p, c)
    BY <2>4, StartNowKeeps, WatchKeeps, ReconnectKeeps, RemoveCardKeeps, RestartKeeps,
       ClearPillKeeps
  <2>5. CASE CloseCookbook(p) \/ OpenCookbook(p) \/ ShowRunningTab(p) \/ Load(p)
    BY <2>5, CloseCookbookKeeps, OpenCookbookKeeps, ShowRunningTabKeeps, LoadKeeps
  <2> QED BY <2>1, <2>2, <2>3, <2>4, <2>5 DEF UserActs
<1>2. CASE \E p \in Pages : SyncToServer(p) \/ SyncLost(p) \/ Poll(p)
  BY <1>2, SyncToServerKeeps, SyncLostKeeps, PollKeeps
<1>3. CASE \E p \in Pages : \E c \in DOMAIN page[p].mem.cards : LoopSteps(p, c)
  <2>1. PICK p \in Pages : \E c \in DOMAIN page[p].mem.cards : LoopSteps(p, c)
    BY <1>3
  <2>2. PICK c \in DOMAIN page[p].mem.cards : LoopSteps(p, c)
    BY <2>1
  <2> QED BY <2>2, SeesLiveKeeps, SeesGoneKeeps, SeesStallKeeps, SeesFailureKeeps,
             SeesDoneKeeps, LoopEndsKeeps DEF LoopSteps
<1>4. CASE \E p \in Pages : \E id \in Ids(page[p].tasks) : SelfHeal(p, id)
  BY <1>4, SelfHealKeeps
<1>5. CASE \E w \in waits : GoesOn(w)
  <2>1. PICK w \in waits : GoesOn(w)
    BY <1>5
  <2>2. CASE Probed(w) \/ AddAnswered(w) \/ StartAnswered(w) \/ ReplaceAnswered(w)
               \/ RestallAnswered(w) \/ Confirmed(w)
    BY <2>2, ProbedKeeps, AddAnsweredKeeps, StartAnsweredKeeps, ReplaceAnsweredKeeps,
       RestallAnsweredKeeps, ConfirmedKeeps
  <2>3. CASE StallKilled(w) \/ FailKilled(w) \/ RetryTimer(w) \/ ConfirmStopAll(w)
               \/ Killed(w) \/ Faded(w)
    BY <2>3, StallKilledKeeps, FailKilledKeeps, RetryTimerKeeps, ConfirmStopAllKeeps,
       KilledKeeps, FadedKeeps
  <2>4. CASE RestartKilled(w) \/ ConfirmClear(w) \/ Dismiss(w) \/ StateAnswered(w)
               \/ StatusAnswered(w) \/ Synced(w)
    BY <2>4, RestartKilledKeeps, ConfirmClearKeeps, DismissKeeps, StateAnsweredKeeps,
       StatusAnsweredKeeps, SyncedKeeps
  <2> QED BY <2>1, <2>2, <2>3, <2>4 DEF GoesOn
<1>6. CASE \E w \in waits : Served(w)
  BY <1>6, PostHandledKeeps, InterruptedKeeps, KillHandledKeeps DEF Served
<1>7. CASE \E n \in DOMAIN jobs.at : JobEnds(n) \/ JobGoesWrong(n)
  BY <1>7, JobEndsKeeps, JobGoesWrongKeeps
<1> QED BY <1>1, <1>2, <1>3, <1>4, <1>5, <1>6, <1>7 DEF Next

LEMMA StutterKeeps ==
  ASSUME IndInv, UNCHANGED vars
  PROVE  IndInv' /\ NoneBack
<1>1. /\ page' = page /\ server' = server /\ jobs' = jobs /\ waits' = waits /\ ghost' = ghost
  BY DEF vars
<1>2. Ended' = Ended
  BY <1>1 DEF Ended, Running
<1>3. Counted' /\ JobsAreSound' /\ (NoStalls => JobIsListed')
  BY <1>1 DEF IndInv, Counted, JobsAreSound, JobIsListed, Running
<1>4. Alone => IsPushed'
  BY <1>1 DEF IndInv, IsPushed
<1>5. IndInv'
  BY <1>1, <1>2, <1>3, <1>4 DEF IndInv
<1> QED BY <1>1, <1>5 DEF NoneBack

LEMMA InitIsSound ==
  ASSUME NoClears, Init
  PROVE  IndInv
<1> DEFINE K == Known(ghost.n, waits)
           E == Ended
<1>1. /\ page = [p \in Pages |-> [tasks |-> <<>>, tomb |-> {},
                    mem |-> [NewPage EXCEPT !.up = p = First, !.open = p = First]]]
      /\ server = [tasks |-> <<>>, removed |-> {}]
      /\ jobs = [at |-> [n \in {} |-> "live"], of |-> [n \in {} |-> ""], disk |-> {}]
      /\ waits = {}
  BY DEF Init
<1>2. PICK b \in Budgets :
        ghost = [left |-> b, n |-> 0, starts |-> [id \in {} |-> 0],
                 auto |-> [p \in Pages |-> [r \in Repos |-> 0]], asked |-> [r \in Repos |-> 0]]
  BY DEF Init
<1>3. Counted
  <2>1. b \in [Spendable -> Nat]
    BY CookbookAssumption
  <2>2. Bounded(b)
    BY DEF NoClears, NoStalls, Alone, Bounded
  <2> QED BY <1>2, <2>1, <2>2 DEF Counted
<1>4. page \in [Pages -> {page[p] : p \in Pages}]
  BY <1>1
<1> HIDE DEF K, E
<1>5. \A p \in Pages : IsPage(page[p], K, E)
  <2> TAKE p \in Pages
  <2> DEFINE up == p = First
             mem == [NewPage EXCEPT !.up = up, !.open = up]
             d == page[p]
  <2>1. up \in BOOLEAN
    OBVIOUS
  <2>2. d = [tasks |-> <<>>, tomb |-> {}, mem |-> mem]
    BY <1>1
  <2> HIDE DEF up, d
  <2>3. IsMemory(mem) /\ mem.cards = NoCards
    BY <2>1 DEF IsMemory, NewPage
  <2>4. IsDeck(NoCards, K, E)
    BY DEF IsDeck, NoCards
  <2> HIDE DEF mem
  <2>5. d.mem = mem /\ d \in [tasks : Seq(Fine(K, E)), tomb : SUBSET Gone(K, E), mem : {d.mem}]
    BY <2>2
  <2>6. Ids(d.tasks) \cap d.tomb = {}
    BY <2>2
  <2>7. IsPage(d, K, E)
    BY <2>3, <2>4, <2>5, <2>6 DEF IsPage
  <2> QED BY <2>7 DEF d
<1>6. server \in [tasks : Seq(Fine(K, E)), removed : SUBSET Gone(K, E)]
  <2> DEFINE lists == Seq(Fine(K, E))
             sets == SUBSET Gone(K, E)
  <2>1. <<>> \in lists /\ {} \in sets
    OBVIOUS
  <2> HIDE DEF lists, sets
  <2>2. server \in [tasks : lists, removed : sets]
    BY <1>1, <2>1
  <2> QED BY <2>2 DEF lists, sets
<1>7. Numbered(waits, ghost.n) /\ \A w \in waits : IsWait(w, K, E)
  BY <1>1 DEF Numbered
<1>8. JobsAreSound
  BY <1>1 DEF JobsAreSound
<1>9. JobIsListed
  BY <1>1 DEF JobIsListed
<1>10. IsPushed
  <2>1. \A p \in Pages : /\ page[p].mem.up <=> p = First
                         /\ page[p].mem.open <=> p = First
                         /\ page[p].tasks = <<>>
    BY <1>1 DEF NewPage
  <2>2. First \in Pages /\ server.removed = {}
    BY <1>1, CookbookAssumption
  <2> QED BY <2>1, <2>2 DEF IsPushed, Ids
<1> QED BY <1>3, <1>4, <1>5, <1>6, <1>7, <1>8, <1>9, <1>10 DEF IndInv, K, E

\* The server reports on the rows that it has.
LEMMA StatusesAre ==
  ASSUME IndInv
  PROVE  /\ Ids(Statuses) = Ids(server.tasks)
         /\ DOMAIN Statuses = DOMAIN server.tasks
         /\ \A i \in DOMAIN Statuses : /\ Statuses[i].id = server.tasks[i].id
                                       /\ Statuses[i].status = StatusOf(server.tasks[i])
<1> DEFINE l == server.tasks
           r == Statuses
           S == Fine(Known(ghost.n, waits), Ended)
<1>1. l \in Seq(S) /\ DOMAIN r = DOMAIN l
      /\ \A i \in DOMAIN l : r[i] = [l[i] EXCEPT !.status = StatusOf(l[i])]
  BY DEF Statuses, IndInv
<1> HIDE DEF S, r, l
<1>2. \A i \in DOMAIN l : r[i].id = l[i].id /\ r[i].status = StatusOf(l[i])
  <2> TAKE i \in DOMAIN l
  <2> DEFINE t == l[i]
             status == StatusOf(t)
             u == [t EXCEPT !.status = status]
  <2>1. t \in Rows /\ r[i] = u
    BY <1>1 DEF S, Fine
  <2> HIDE DEF t, status
  <2>2. u.id = t.id /\ u.status = status
    BY <2>1 DEF Rows
  <2> QED BY <2>1, <2>2 DEF t, status
<1>3. Ids(r) = Ids(l)
  BY <1>1, <1>2, SameIds
<1> QED BY <1>1, <1>2, <1>3 DEF r, l

\* A row runs, it says, only if its session does.
LEMMA StatusIsTrue ==
  ASSUME IndInv, NEW id \in Ids(server.tasks)
  PROVE  Row(Statuses, id).status = "running" => Alive(id)
<1> DEFINE r == Statuses
           j == CHOOSE k \in DOMAIN r : r[k].id = id
<1>1. /\ Ids(r) = Ids(server.tasks) /\ DOMAIN r = DOMAIN server.tasks
      /\ \A i \in DOMAIN r : /\ r[i].id = server.tasks[i].id
                              /\ r[i].status = StatusOf(server.tasks[i])
  BY StatusesAre
<1>2. \A t : StatusOf(t) = "running" => Alive(t.id)
  BY DEF StatusOf
<1> HIDE DEF r
<1>3. \E k \in DOMAIN r : r[k].id = id
  BY <1>1 DEF Ids
<1>4. j \in DOMAIN r /\ r[j].id = id
  BY <1>3
<1> HIDE DEF j
<1>5. r[j].status = "running" => Alive(id)
  BY <1>1, <1>2, <1>4
<1> QED BY <1>5 DEF Row, j, r

\* The next poll of a page whose rows the server has settles those that ended.
LEMMA PushedSettles ==
  ASSUME IndInv, Alone
  PROVE  PollsSettle
<1> SUFFICES ASSUME NEW p \in Pages, page[p].mem.up, ~page[p].mem.dirty,
                    NEW t \in Range(Reconcile(State(p), Statuses)), t.status = "running"
             PROVE  Alive(t.id)
  BY DEF PollsSettle, Idle, NextPollSettles
<1> DEFINE s == State(p)
           live == Statuses
           k == Merge(s, live)
           S == Fine(Known(s.n, s.w), Ended)
<1>1. Sane(s) /\ s.d = page[p] /\ s.n = ghost.n /\ s.w = waits
  BY StateIs DEF State
<1>2. live \in Seq(S) /\ Ids(live) = Ids(server.tasks)
  <2>1. live \in Seq(S)
    BY <1>1, StatusesAreFine
  <2> QED BY <2>1, StatusesAre
<1>3. Ids(s.d.tasks) \subseteq Ids(server.tasks)
  BY <1>1 DEF IndInv, IsPushed
<1> HIDE DEF s, live
<1>4. k \in Seq(S) /\ Ids(k) \subseteq Ids(s.d.tasks) \cup Ids(live)
  BY <1>1, <1>2, MergeIs
<1> HIDE DEF k, S
<1>5. PICK i \in DOMAIN k :
        t = IF k[i].id \in Ids(live)
            THEN [k[i] EXCEPT !.status = Row(live, k[i].id).status] ELSE k[i]
  BY DEF Reconcile, Range, s, live, k
<1> DEFINE u == k[i]
<1>6. u \in S /\ u.id \in Ids(server.tasks)
  <2>1. u \in S
    BY <1>4
  <2>2. u.id \in Ids(k)
    BY DEF Ids
  <2> QED BY <1>2, <1>3, <1>4, <2>1, <2>2
<1>7. t = [u EXCEPT !.status = Row(live, u.id).status]
  BY <1>2, <1>5, <1>6
<1>8. u \in Rows
  BY <1>6 DEF Fine, S
<1> DEFINE status == Row(live, u.id).status
<1> HIDE DEF u, status
<1>9. t.id = u.id /\ t.status = status
  BY <1>7, <1>8 DEF Rows, status
<1>10. status = "running" => Alive(u.id)
  BY <1>6, StatusIsTrue DEF status, live
<1> QED BY <1>9, <1>10

\* When nobody clears, ids are never given twice, what settled or was removed
\* has ended where nothing stalls, and what is awaited, listed, pushed or shown
\* has rows that exist (the invariant behind the theorems below).
THEOREM Inductive == NoClears => (Spec => []IndInv)
<1> SUFFICES ASSUME NoClears PROVE Spec => []IndInv
  OBVIOUS
<1>1. Init => IndInv
  BY InitIsSound
<1>2. IndInv /\ [Next]_vars => IndInv'
  BY StepKeeps, StutterKeeps
<1> QED BY <1>1, <1>2, PTL DEF Spec

\* Unless someone confirms "Clear finished", whose list may be old, a row that
\* was removed on a page never comes back to it, whatever polls, launches,
\* restarts and reloads do meanwhile (_tombstoneTask, _syncFromServer).
THEOREM RemovedRowsStayRemoved == NoClears => (Spec => RemovedStaysRemoved)
<1> SUFFICES ASSUME NoClears PROVE Spec => RemovedStaysRemoved
  OBVIOUS
<1>1. IndInv /\ [Next]_vars =>
        [\A p \in Pages : \A id \in page[p].tomb :
            id \notin Ids(page[p].tasks) => id \notin Ids(page'[p].tasks)]_vars
  BY StepKeeps DEF NoneBack
<1> QED BY <1>1, Inductive, PTL DEF RemovedStaysRemoved, Spec

\* Where no download stalls either, each that runs is in the list of some page
\* or in the answer that will list it: no launch, removal, restart, poll or
\* reload loses sight of it (_startQueuedDownload, _addTask, _removeTask).
THEOREM JobsAreListed == NoClears /\ NoStalls => (Spec => []JobIsListed)
<1> SUFFICES ASSUME NoClears, NoStalls PROVE Spec => []JobIsListed
  OBVIOUS
<1>1. IndInv => JobIsListed
  BY DEF IndInv
<1> QED BY <1>1, Inductive, PTL

\* A page that is alone, not reloaded, and polls without delay gets every row of
\* a session that has gone settled by its next poll: what it pushed last was all
\* it has, so that the server reports on each row (_pollBackgroundStatus,
\* _syncToServer).
THEOREM PollsAlwaysSettle == NoClears /\ Alone => (Spec => []PollsSettle)
<1> SUFFICES ASSUME NoClears, Alone PROVE Spec => []PollsSettle
  OBVIOUS
<1>1. IndInv => PollsSettle
  BY PushedSettles
<1> QED BY <1>1, Inductive, PTL
=============================================================================
