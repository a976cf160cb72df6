------------------------ MODULE SessionHistoryProofs ------------------------
(***************************************************************************)
(* Proofs about SessionHistory: its inductive invariant, and what follows  *)
(* from it.                                                                *)
(***************************************************************************)
EXTENDS SessionHistory, FiniteSetTheorems, SequenceTheorems, WellFoundedInduction, TLAPS

-----------------------------------------------------------------------------
(* Positions.                                                               *)

Less == {p \in Nat \X Nat : p[1] < p[2]}

\* A set of natural numbers that is not empty has a least element: the induction
\* the lemmas about positions need.
LEMMA Least ==
  ASSUME NEW T \in SUBSET Nat, T # {}
  PROVE  \E x \in T : \A y \in T : x <= y
<1>1. IsWellFoundedOn(Less, Nat)
  BY NatLessThanWellFounded DEF OpToRel, Less
<1>2. PICK x \in T : \A y \in T : <<y, x>> \notin Less
  BY <1>1, WFMin
<1>3. ASSUME NEW y \in T PROVE x <= y
  <2>1. CASE y < x
    <3>1. <<y, x>> \in Nat \X Nat /\ <<y, x>>[1] < <<y, x>>[2]
      BY <2>1
    <3>2. <<y, x>> \in Less
      BY <3>1 DEF Less
    <3>. QED BY <3>2, <1>2
  <2>. QED BY <2>1
<1>. QED BY <1>3

UpTo(I, n) == {j \in I : j <= n}

\* The positions up to a bound are finitely many, and no more than all of them.
LEMMA UpToFinite ==
  ASSUME NEW L \in Nat, NEW I \in SUBSET (1..L), NEW n \in Nat
  PROVE  /\ IsFiniteSet(I) /\ Cardinality(I) \in Nat
         /\ IsFiniteSet(UpTo(I, n)) /\ Cardinality(UpTo(I, n)) \in Nat
<1>1. IsFiniteSet(1..L)
  BY FS_Interval
<1>2. IsFiniteSet(I)
  BY <1>1, FS_Subset
<1>3. IsFiniteSet(UpTo(I, n))
  BY <1>2, FS_Subset DEF UpTo
<1>. QED BY <1>2, <1>3, FS_CardinalityType

\* Place(I, k) is the k-th position.
LEMMA PlaceIs ==
  ASSUME NEW L \in Nat, NEW I \in SUBSET (1..L), NEW k \in 1..Cardinality(I)
  PROVE  Place(I, k) \in I /\ Cardinality(UpTo(I, Place(I, k))) = k
<1> DEFINE T == {n \in 0..L : Cardinality(UpTo(I, n)) >= k}
<1>0. \A j \in I : j \in Nat /\ 1 <= j /\ j <= L
  OBVIOUS
<1>k. k \in Nat /\ 0 < k
  BY UpToFinite
<1>1. UpTo(I, L) = I /\ UpTo(I, 0) = {}
  <2>1. \A j \in I : j <= L /\ ~(j <= 0)
    BY <1>0
  <2>. QED BY <2>1 DEF UpTo
<1>2. T \in SUBSET Nat /\ L \in T
  BY <1>1, UpToFinite
<1>3. PICK m \in T : \A y \in T : m <= y
  <2> HIDE DEF T
  <2>. QED BY <1>2, Least
<1>4. m \in Nat /\ m \in 0..L /\ Cardinality(UpTo(I, m)) >= k
  BY <1>3
<1>5. m # 0
  BY <1>1, <1>4, FS_EmptySet, UpToFinite
<1>6. Cardinality(UpTo(I, m - 1)) < k
  <2>1. m - 1 \in 0..L /\ m - 1 \notin T
    BY <1>2, <1>3, <1>4, <1>5
  <2>2. m - 1 \in Nat /\ ~(Cardinality(UpTo(I, m - 1)) >= k)
    BY <2>1
  <2>3. Cardinality(UpTo(I, m - 1)) \in Nat
    BY <2>2, UpToFinite
  <2>. QED BY <2>2, <2>3, <1>k
<1>7. m \in I
  <2>1. CASE m \notin I
    <3>1. \A j \in I : j <= m <=> j <= m - 1
      BY <2>1, <1>0, <1>4, <1>5
    <3>2. UpTo(I, m) = UpTo(I, m - 1)
      BY <3>1 DEF UpTo
    <3>3. Cardinality(UpTo(I, m)) \in Nat
      BY <1>4, UpToFinite
    <3>. QED BY <3>2, <3>3, <1>4, <1>k, <1>6
  <2>. QED BY <2>1
<1>8. UpTo(I, m) = UpTo(I, m - 1) \cup {m} /\ m \notin UpTo(I, m - 1)
  <2>1. \A j \in I : (j <= m <=> j <= m - 1 \/ j = m) /\ ~(m <= m - 1)
    BY <1>0, <1>4, <1>5
  <2>2. m <= m
    BY <1>4
  <2>. QED BY <2>1, <2>2, <1>7 DEF UpTo
<1>9. Cardinality(UpTo(I, m)) = Cardinality(UpTo(I, m - 1)) + 1
  <2>1. m - 1 \in Nat
    BY <1>4, <1>5
  <2>. QED BY <2>1, <1>8, UpToFinite, FS_AddElement
<1>10. Cardinality(UpTo(I, m)) = k
  <2>1. m - 1 \in Nat /\ m \in Nat
    BY <1>4, <1>5
  <2>2. Cardinality(UpTo(I, m - 1)) \in Nat /\ Cardinality(UpTo(I, m)) \in Nat
    BY <2>1, UpToFinite
  <2>. QED BY <2>2, <1>k, <1>4, <1>6, <1>9
<1>11. Cardinality({j \in I : j <= m}) = k
  BY <1>10 DEF UpTo
<1>. QED BY <1>7, <1>11 DEF Place, UpTo

\* Later places are greater.
LEMMA PlaceIncreases ==
  ASSUME NEW L \in Nat, NEW I \in SUBSET (1..L),
         NEW j \in 1..Cardinality(I), NEW k \in 1..Cardinality(I), j < k
  PROVE  Place(I, j) < Place(I, k)
<1> DEFINE x == Place(I, j)
           y == Place(I, k)
<1>1. /\ x \in I /\ Cardinality(UpTo(I, x)) = j
      /\ y \in I /\ Cardinality(UpTo(I, y)) = k
  BY PlaceIs
<1> HIDE DEF x, y
<1>0. \A i \in I : i \in Nat
  OBVIOUS
<1>2. ASSUME y <= x PROVE FALSE
  <2>1. UpTo(I, y) \subseteq UpTo(I, x)
    <3>1. \A i \in I : i <= y => i <= x
      BY <1>0, <1>1, <1>2
    <3>. QED BY <3>1 DEF UpTo
  <2>2. Cardinality(UpTo(I, y)) <= Cardinality(UpTo(I, x))
    <3>1. IsFiniteSet(UpTo(I, x))
      BY <1>0, <1>1, UpToFinite
    <3>. QED BY <2>1, <3>1, FS_Subset
  <2>3. j \in Nat /\ k \in Nat
    BY UpToFinite
  <2>. QED BY <2>2, <2>3, <1>1
<1>3. x < y
  BY <1>0, <1>1, <1>2
<1>. QED BY <1>3 DEF x, y

\* What Only leaves of a sequence.
LEMMA OnlyIs ==
  ASSUME NEW S, NEW s \in Seq(S), NEW I \in SUBSET DOMAIN s
  PROVE  /\ Only(s, I) \in Seq(S)
         /\ Len(Only(s, I)) = Cardinality(I)
         /\ Len(Only(s, I)) <= Len(s)
         /\ I # {} => Only(s, I) # <<>>
         /\ \A k \in DOMAIN Only(s, I) : /\ k \in 1..Cardinality(I)
                                         /\ Place(I, k) \in I
                                         /\ Only(s, I)[k] = s[Place(I, k)]
<1> DEFINE n == Cardinality(I)
           r == Only(s, I)
<1>1. Len(s) \in Nat /\ DOMAIN s = 1..Len(s)
  OBVIOUS
<1>2. n \in Nat /\ IsFiniteSet(I) /\ n <= Len(s) /\ (I # {} => n # 0)
  <2>1. I \in SUBSET (1..Len(s))
    BY <1>1
  <2>2. IsFiniteSet(1..Len(s)) /\ Cardinality(1..Len(s)) = Len(s)
    <3>1. 1 \in Int /\ Len(s) \in Int
      BY <1>1
    <3>2. Cardinality(1..Len(s)) = IF 1 > Len(s) THEN 0 ELSE Len(s) - 1 + 1
      BY <3>1, FS_Interval
    <3>. QED BY <1>1, <3>1, <3>2, FS_Interval
  <2>. QED BY <1>1, <2>1, <2>2, FS_Subset, FS_EmptySet, FS_CardinalityType
<1>3. \A k \in 1..n : Place(I, k) \in I
  BY <1>1, PlaceIs
<1>4. r = [k \in 1..n |-> s[Place(I, k)]]
  BY DEF Only
<1> HIDE DEF n
<1>5. r \in [1..n -> S]
  <2>1. \A i \in DOMAIN s : s[i] \in S
    BY <1>1
  <2>2. \A k \in 1..n : s[Place(I, k)] \in S
    BY <1>3, <2>1
  <2>. QED BY <1>4, <2>2
<1> HIDE DEF r
<1>6. r \in Seq(S) /\ Len(r) = n /\ DOMAIN r = 1..n
  BY <1>2, <1>5
<1>7. \A k \in DOMAIN r : k \in 1..n /\ Place(I, k) \in I /\ r[k] = s[Place(I, k)]
  BY <1>3, <1>4, <1>6
<1>8. I # {} => r # <<>>
  BY <1>2, <1>6
<1>. QED BY <1>2, <1>6, <1>7, <1>8 DEF n, r

-----------------------------------------------------------------------------
(* Stories: sequences of messages already said, in order.  The roles are a   *)
(* parameter here, for they grow in a step.                                  *)

StoryOf(roles, s) ==
  /\ \A i \in DOMAIN s : s[i] \in DOMAIN roles
  /\ \A i, j \in DOMAIN s :
       i < j /\ roles[s[i]] # "system" /\ roles[s[j]] # "system" => s[i] < s[j]

LEMMA StoryIs == \A s : Story(s) <=> StoryOf(said, s)
BY DEF Story, StoryOf, Elements, Ordered, Dialogue, Summaries

LEMMA StoryIsNext ==
  (Stories)' <=> /\ StoryOf(said', rows') /\ StoryOf(said', compaction'.recent)
                 /\ StoryOf(said', reader'.hist)
                 /\ \A o \in Objs : StoryOf(said', heap'[o].hist)
BY DEF Stories, Story, StoryOf, Elements, Ordered, Dialogue, Summaries

\* r is made of messages of s, in the order of their positions, and of summaries.
Drawn(roles, s, r, at) ==
  /\ \A k \in DOMAIN r : \/ r[k] \in DOMAIN roles /\ roles[r[k]] = "system"
                         \/ at[k] \in DOMAIN s /\ r[k] = s[at[k]]
  /\ \A j, k \in DOMAIN r :
       j < k /\ roles[r[j]] # "system" /\ roles[r[k]] # "system" => at[j] < at[k]

LEMMA StoryDrawn ==
  ASSUME NEW roles, NEW s, StoryOf(roles, s), NEW r, NEW at, Drawn(roles, s, r, at)
  PROVE  StoryOf(roles, r)
BY DEF StoryOf, Drawn

LEMMA StoryOnly ==
  ASSUME NEW roles, NEW s \in Seq(Messages), StoryOf(roles, s), NEW I \in SUBSET DOMAIN s
  PROVE  StoryOf(roles, Only(s, I))
<1> DEFINE at == [k \in 1..Cardinality(I) |-> Place(I, k)]
           r == Only(s, I)
<1>1. \A k \in DOMAIN r : k \in 1..Cardinality(I) /\ at[k] \in DOMAIN s /\ r[k] = s[at[k]]
  BY OnlyIs
<1>2. \A j, k \in 1..Cardinality(I) : j < k => at[j] < at[k]
  <2>1. Len(s) \in Nat /\ I \in SUBSET (1..Len(s))
    OBVIOUS
  <2>. QED BY <2>1, PlaceIncreases
<1> HIDE DEF at, r
<1>3. Drawn(roles, s, r, at)
  BY <1>1, <1>2 DEF Drawn
<1>4. StoryOf(roles, r)
  BY <1>3, StoryDrawn
<1>. QED BY <1>4 DEF r

LEMMA StorySubSeq ==
  ASSUME NEW roles, NEW s \in Seq(Messages), StoryOf(roles, s),
         NEW a \in Nat, NEW b \in Nat, 1 <= a, b <= Len(s)
  PROVE  SubSeq(s, a, b) \in Seq(Messages) /\ StoryOf(roles, SubSeq(s, a, b))
<1> DEFINE r == SubSeq(s, a, b)
           at == [k \in DOMAIN r |-> k + a - 1]
<1>1. /\ r \in Seq(Messages)
      /\ \A k \in DOMAIN r : k \in Nat /\ k + a - 1 \in DOMAIN s /\ r[k] = s[k + a - 1]
  OBVIOUS
<1> HIDE DEF r
<1>2. \A k \in DOMAIN r : at[k] \in DOMAIN s /\ r[k] = s[at[k]]
  BY <1>1
<1>3. \A j, k \in DOMAIN r : j < k => at[j] < at[k]
  BY <1>1
<1> HIDE DEF at
<1>4. StoryOf(roles, r)
  <2>1. Drawn(roles, s, r, at)
    BY <1>2, <1>3 DEF Drawn
  <2>. QED BY <2>1, StoryDrawn
<1>. QED BY <1>1, <1>4 DEF r

\* One message more has been said: stories stay stories, and may tell it.
LEMMA StoryLasts ==
  ASSUME NEW roles \in Seq(Roles), NEW role \in Roles, NEW s, StoryOf(roles, s)
  PROVE  StoryOf(Append(roles, role), s)
<1>1. \A n \in DOMAIN roles : /\ n \in DOMAIN Append(roles, role)
                              /\ Append(roles, role)[n] = roles[n]
  OBVIOUS
<1>. QED BY <1>1 DEF StoryOf

LEMMA StoryGrows ==
  ASSUME NEW roles \in Seq(Roles), NEW role \in Roles, NEW s \in Seq(Messages),
         StoryOf(roles, s), Len(roles) + 1 \in Messages
  PROVE  /\ Append(s, Len(roles) + 1) \in Seq(Messages)
         /\ StoryOf(Append(roles, role), Append(s, Len(roles) + 1))
<1> DEFINE n == Len(roles) + 1
           r == Append(s, n)
           all == Append(roles, role)
<1>1. /\ r \in Seq(Messages)
      /\ \A i \in DOMAIN r : \/ i \in DOMAIN s /\ r[i] = s[i] /\ i <= Len(s)
                             \/ i = Len(s) + 1 /\ r[i] = n
      /\ Len(s) \in Nat
  OBVIOUS
<1>2. /\ n \in DOMAIN all
      /\ \A m \in DOMAIN roles : m \in DOMAIN all /\ all[m] = roles[m] /\ m \in Nat /\ m < n
  OBVIOUS
<1>3. \A i \in DOMAIN s : i \in Nat
  OBVIOUS
<1> HIDE DEF n, r, all
<1>4. ASSUME NEW i \in DOMAIN r PROVE r[i] \in DOMAIN all
  BY <1>1, <1>2 DEF StoryOf
<1>5. ASSUME NEW i \in DOMAIN r, NEW j \in DOMAIN r, i < j,
             all[r[i]] # "system", all[r[j]] # "system"
      PROVE  r[i] < r[j]
  <2>1. i \in DOMAIN s /\ r[i] = s[i] /\ s[i] \in DOMAIN roles
    BY <1>1, <1>3, <1>5 DEF StoryOf
  <2>2. CASE j = Len(s) + 1 /\ r[j] = n
    BY <2>1, <2>2, <1>2
  <2>3. CASE j \in DOMAIN s /\ r[j] = s[j]
    <3>1. s[j] \in DOMAIN roles
      BY <2>3 DEF StoryOf
    <3>2. roles[s[i]] # "system" /\ roles[s[j]] # "system"
      BY <1>2, <1>5, <2>1, <2>3, <3>1
    <3>. QED BY <1>5, <2>1, <2>3, <3>2 DEF StoryOf
  <2>. QED BY <1>1, <2>2, <2>3
<1>6. StoryOf(all, r)
  BY <1>4, <1>5 DEF StoryOf
<1>. QED BY <1>1, <1>6 DEF n, r, all

\* A summary in the place of a part of a story.
LEMMA StoryCompacted ==
  ASSUME NEW roles \in Seq(Roles), NEW s \in Seq(Messages), StoryOf(roles, s),
         Len(roles) + 1 \in Messages,
         NEW a \in Nat, NEW b \in Nat, a <= b, b <= Len(s)
  PROVE  LET r == SubSeq(s, 1, a) \o <<Len(roles) + 1>> \o SubSeq(s, b + 1, Len(s))
         IN  r \in Seq(Messages) /\ r # <<>> /\ StoryOf(Append(roles, "system"), r)
<1> DEFINE n == Len(roles) + 1
           r == SubSeq(s, 1, a) \o <<n>> \o SubSeq(s, b + 1, Len(s))
           all == Append(roles, "system")
           at == [k \in DOMAIN r |-> IF k <= a THEN k ELSE k - 1 - a + b]
<1>1. StoryOf(all, s)
  BY StoryLasts DEF Roles
<1>2. n \in DOMAIN all /\ all[n] = "system"
  OBVIOUS
<1> DEFINE u == SubSeq(s, 1, a)
           v == SubSeq(s, b + 1, Len(s))
<1>3. u \in Seq(Messages) /\ Len(u) = a /\ \A k \in 1..a : u[k] = s[k]
  OBVIOUS
<1>4. /\ v \in Seq(Messages) /\ Len(v) = Len(s) - b
      /\ \A k \in 1..(Len(s) - b) : v[k] = s[b + k]
  OBVIOUS
<1>5. Len(s) \in Nat /\ Len(s) - b \in Nat
  OBVIOUS
<1> HIDE DEF u, v
<1> DEFINE w == u \o <<n>>
<1>6. w \in Seq(Messages) /\ Len(w) = a + 1
  BY <1>3
<1>7. \A k \in 1..(a + 1) : w[k] = IF k <= a THEN s[k] ELSE n
  BY <1>3
<1> HIDE DEF w
<1>8. w \o v \in Seq(Messages) /\ Len(w \o v) = Len(s) - b + a + 1
  <2>1. w \o v \in Seq(Messages) /\ Len(w \o v) = Len(w) + Len(v)
    BY <1>4, <1>6, ConcatProperties
  <2>. QED BY <2>1, <1>4, <1>5, <1>6
<1>9. \A k \in 1..(Len(s) - b + a + 1) :
        (w \o v)[k] = IF k <= a + 1 THEN w[k] ELSE v[k - (a + 1)]
  BY <1>4, <1>5, <1>6, ConcatProperties
<1>10. /\ r \in Seq(Messages) /\ DOMAIN r = 1..(Len(s) - b + a + 1)
       /\ \A k \in DOMAIN r :
            \/ k <= a /\ r[k] = s[k]
            \/ k = a + 1 /\ r[k] = n
            \/ a + 1 < k /\ r[k] = s[k - 1 - a + b]
  <2>1. r = w \o v
    BY DEF u, v, w
  <2> HIDE DEF r, n
  <2>3. \A k \in 1..(Len(s) - b + a + 1) :
          r[k] = IF k <= a + 1 THEN (IF k <= a THEN s[k] ELSE n) ELSE s[k - 1 - a + b]
    <3> TAKE k \in 1..(Len(s) - b + a + 1)
    <3>1. CASE k <= a + 1
      <4>1. k \in 1..(a + 1)
        BY <3>1
      <4>. QED BY <3>1, <4>1, <1>7, <1>9, <2>1
    <3>2. CASE ~(k <= a + 1)
      <4>1. k - (a + 1) \in 1..(Len(s) - b) /\ b + (k - (a + 1)) = k - 1 - a + b
        BY <3>2, <1>5
      <4>2. r[k] = v[k - (a + 1)]
        BY <3>2, <1>9, <2>1
      <4>3. v[k - (a + 1)] = s[b + (k - (a + 1))]
        BY <4>1, <1>4
      <4>. QED BY <3>2, <4>1, <4>2, <4>3
    <3>. QED BY <3>1, <3>2
  <2>4. r \in Seq(Messages) /\ DOMAIN r = 1..(Len(s) - b + a + 1)
    BY <1>8, <2>1
  <2>5. \A k \in 1..(Len(s) - b + a + 1) :
          \/ k <= a /\ r[k] = s[k]
          \/ k = a + 1 /\ r[k] = n
          \/ a + 1 < k /\ r[k] = s[k - 1 - a + b]
    BY <2>3, <1>5
  <2>. QED BY <2>4, <2>5
<1> HIDE DEF r, n, all
<1>11. \A k \in DOMAIN r :
         \/ r[k] \in DOMAIN all /\ all[r[k]] = "system"
         \/ at[k] \in DOMAIN s /\ r[k] = s[at[k]]
  BY <1>2, <1>5, <1>10
<1>12. ASSUME NEW j \in DOMAIN r, NEW k \in DOMAIN r,
              j < k, all[r[j]] # "system", all[r[k]] # "system"
       PROVE  at[j] < at[k]
  <2>1. j # a + 1 /\ k # a + 1
    BY <1>2, <1>10, <1>12
  <2>2. j \in Nat /\ k \in Nat /\ at[j] = (IF j <= a THEN j ELSE j - 1 - a + b)
                                /\ at[k] = (IF k <= a THEN k ELSE k - 1 - a + b)
    BY <1>10
  <2> HIDE DEF at
  <2>. QED BY <1>12, <2>1, <2>2
<1> HIDE DEF at
<1>13. StoryOf(all, r)
  <2>1. Drawn(all, s, r, at)
    BY <1>11, <1>12 DEF Drawn
  <2>. QED BY <2>1, <1>1, StoryDrawn
<1>14. r # <<>>
  BY <1>5, <1>10
<1>. QED BY <1>10, <1>13, <1>14 DEF r, n, all

-----------------------------------------------------------------------------
(* The session in memory.                                                    *)

Memories == [cached : Objs \cup {None}, heap : [Objs -> Objects]]

Told(roles, m) == \A o \in Objs : StoryOf(roles, m.heap[o].hist)

\* There is always an object nobody refers to.
LEMMA SpareIs ==
  ASSUME TypeOK
  PROVE  /\ Spare \in Objs /\ Spare # cached
         /\ \A t \in Turns : turn[t].obj # Spare
<1> DEFINE used == {turn[t].obj : t \in Turns}
           busy == used \cup {cached}
<1>1. IsFiniteSet(Turns) /\ IsFiniteSet(Objs) /\ Cardinality(Objs) >= Cardinality(Turns) + 2
  BY ConstantsAssumption
<1>2. IsFiniteSet(used) /\ Cardinality(used) <= Cardinality(Turns)
  <2> DEFINE f == [t \in Turns |-> turn[t].obj]
  <2>1. f \in Surjection(Turns, used)
    BY DEF Surjection
  <2>. QED BY <2>1, <1>1, FS_Surjection
<1>3. IsFiniteSet(busy) /\ Cardinality(busy) <= Cardinality(used) + 1
  <2>1. CASE cached \in used
    <3>1. busy = used
      BY <2>1
    <3>2. Cardinality(used) \in Nat
      BY <1>2, FS_CardinalityType
    <3> HIDE DEF used, busy
    <3>. QED BY <3>1, <3>2, <1>2
  <2>2. CASE cached \notin used
    <3>1. Cardinality(busy) = Cardinality(used) + 1 /\ IsFiniteSet(busy)
      BY <2>2, <1>2, FS_AddElement
    <3>2. Cardinality(used) \in Nat
      BY <1>2, FS_CardinalityType
    <3> HIDE DEF used, busy
    <3>. QED BY <3>1, <3>2
  <2>. QED BY <2>1, <2>2
<1>4. \E o \in Objs : o \notin busy
  <2>1. ASSUME Objs \subseteq busy PROVE FALSE
    <3>1. Cardinality(Objs) <= Cardinality(busy)
      BY <2>1, <1>3, FS_Subset
    <3>. QED BY <3>1, <1>1, <1>2, <1>3, FS_CardinalityType
  <2>. QED BY <2>1
<1>5. \E o \in Objs : o # cached /\ \A t \in Turns : turn[t].obj # o
  BY <1>4
<1>. QED BY <1>5 DEF Spare

\* What get_session returns, and leaves in memory.
LEMMA OpenedIs ==
  ASSUME TypeOK, Stories, Known
  PROVE  /\ Opened \in Memories /\ Opened.cached \in Objs
         /\ Told(said, Opened)
         /\ LET o == Opened.cached IN
              /\ cached = None \/ Unread => o = Spare /\ Opened.heap[o].hist = rows
              /\ ~(cached = None \/ Unread) => o = cached /\ Opened.heap[o].hist = heap[cached].hist
              /\ row # None => Opened.heap[o].count = row
<1> DEFINE load == cached = None \/ Unread
           o    == IF load THEN Spare ELSE cached
           h    == IF load THEN rows ELSE heap[cached].hist
           n    == IF row # None THEN row ELSE heap[cached].count
           ids  == IF load THEN Own ELSE heap[cached].ids
           obj  == [hist |-> h, count |-> n, ids |-> ids]
           all  == [heap EXCEPT ![o] = obj]
<1>1. Spare \in Objs /\ None \notin Objs
  BY SpareIs, ConstantsAssumption
<1>2. /\ heap \in [Objs -> Objects] /\ rows \in Seq(Messages)
      /\ row \in Nat \cup {None} /\ cached \in Objs \cup {None}
  BY DEF TypeOK
<1>3. cached # None => heap[cached] \in Objects
  BY <1>2
<1>4. o \in Objs /\ h \in Seq(Messages)
  BY <1>1, <1>2, <1>3 DEF Objects
<1>5. n \in Nat
  BY <1>2, <1>3 DEF Objects, Known
<1>6. ids \in [Messages -> 0..MaxMessages]
  <2>1. Own \in [Messages -> 0..MaxMessages]
    BY ConstantsAssumption DEF Own, Messages
  <2>. QED BY <1>1, <1>2, <1>3, <2>1 DEF Objects
<1>7. obj \in Objects
  <2> HIDE DEF h, n, ids
  <2>. QED BY <1>4, <1>5, <1>6 DEF Objects
<1>8. StoryOf(said, h) /\ \A p \in Objs : StoryOf(said, heap[p].hist)
  BY <1>2, StoryIs DEF Stories
<1>9. /\ all \in [Objs -> Objects] /\ all[o] = obj
      /\ \A p \in Objs \ {o} : all[p] = heap[p]
  <2> HIDE DEF o, obj
  <2>. QED BY <1>2, <1>4, <1>7
<1>10. Opened = [cached |-> o, heap |-> all]
  BY DEF Opened
<1>11. obj.hist = h /\ obj.count = n
  OBVIOUS
<1> HIDE DEF o, obj, all, h, n, ids
<1>12. Opened \in Memories /\ Opened.cached = o /\ Opened.heap = all
  BY <1>4, <1>9, <1>10 DEF Memories
<1>13. Told(said, Opened)
  BY <1>8, <1>9, <1>11, <1>12 DEF Told
<1>. QED BY <1>4, <1>9, <1>11, <1>12, <1>13 DEF o, h, n

\* Memory as it is, before a handler changes it.
LEMMA MemoryIs ==
  ASSUME TypeOK, Stories
  PROVE  Memory \in Memories /\ Told(said, Memory)
BY StoryIs DEF TypeOK, Stories, Memory, Memories, Told

\* A change of one object's history, and what it is made of.
Changed(m, o, h, r) ==
  /\ r \in Memories /\ r.cached = m.cached /\ r.heap[o].hist = h
  /\ \A p \in Objs \ {o} : r.heap[p] = m.heap[p]

LEMMA HistoryIs ==
  ASSUME NEW m \in Memories, NEW o \in Objs, NEW h \in Seq(Messages)
  PROVE  /\ Changed(m, o, h, [m EXCEPT !.heap[o].hist = h])
         /\ [m EXCEPT !.heap[o].hist = h].heap[o].count = m.heap[o].count
<1> DEFINE obj == [m.heap[o] EXCEPT !.hist = h]
           all == [m.heap EXCEPT ![o] = obj]
           r   == [m EXCEPT !.heap[o].hist = h]
<1>1. m.heap \in [Objs -> Objects] /\ m.cached \in Objs \cup {None}
  BY DEF Memories
<1>2. m.heap[o] \in Objects
  BY <1>1
<1>3. obj \in Objects /\ obj.hist = h /\ obj.count = m.heap[o].count
  BY <1>2 DEF Objects
<1>4. r = [m EXCEPT !.heap = all]
  BY <1>1 DEF Memories
<1> HIDE DEF obj, r
<1>5. all \in [Objs -> Objects] /\ all[o] = obj /\ \A p \in Objs \ {o} : all[p] = m.heap[p]
  BY <1>1, <1>3
<1> HIDE DEF all
<1>6. r \in Memories /\ r.cached = m.cached /\ r.heap = all
  BY <1>1, <1>4, <1>5 DEF Memories
<1>. QED BY <1>3, <1>5, <1>6 DEF Changed, r

LEMMA HoldingIs ==
  ASSUME NEW m \in Memories, NEW o \in Objs, NEW h \in Seq(Messages)
  PROVE  /\ Changed(m, o, h, Holding(m, o, h))
         /\ Holding(m, o, h).heap[o].count = Len(h)
<1> DEFINE obj == [m.heap[o] EXCEPT !.hist = h, !.count = Len(h)]
           all == [m.heap EXCEPT ![o] = obj]
           r   == Holding(m, o, h)
<1>1. m.heap \in [Objs -> Objects] /\ m.cached \in Objs \cup {None} /\ Len(h) \in Nat
  BY DEF Memories
<1>2. m.heap[o] \in Objects
  BY <1>1
<1>3. obj \in Objects /\ obj.hist = h /\ obj.count = Len(h)
  BY <1>1, <1>2 DEF Objects
<1>4. r = [m EXCEPT !.heap = all]
  BY <1>1, <1>2 DEF Memories, Holding, Objects
<1> HIDE DEF obj, r
<1>5. all \in [Objs -> Objects] /\ all[o] = obj /\ \A p \in Objs \ {o} : all[p] = m.heap[p]
  BY <1>1, <1>3
<1> HIDE DEF all
<1>6. r \in Memories /\ r.cached = m.cached /\ r.heap = all
  BY <1>1, <1>4, <1>5 DEF Memories
<1>. QED BY <1>3, <1>5, <1>6 DEF Changed, r

\* Other ids for the messages of an object change neither history nor count.
LEMMA IdsAre ==
  ASSUME NEW m \in Memories, NEW o \in Objs, NEW ids \in [Messages -> 0..MaxMessages]
  PROVE  LET r == [m EXCEPT !.heap[o].ids = ids]
         IN  /\ Changed(m, o, m.heap[o].hist, r)
             /\ r.heap[o].count = m.heap[o].count
<1> DEFINE obj == [m.heap[o] EXCEPT !.ids = ids]
           all == [m.heap EXCEPT ![o] = obj]
           r   == [m EXCEPT !.heap[o].ids = ids]
<1>1. m.heap \in [Objs -> Objects] /\ m.cached \in Objs \cup {None}
  BY DEF Memories
<1>2. m.heap[o] \in Objects
  BY <1>1
<1>3. obj \in Objects /\ obj.hist = m.heap[o].hist /\ obj.count = m.heap[o].count
  BY <1>2 DEF Objects
<1>4. r = [m EXCEPT !.heap = all]
  BY <1>1 DEF Memories
<1> HIDE DEF obj, r
<1>5. all \in [Objs -> Objects] /\ all[o] = obj /\ \A p \in Objs \ {o} : all[p] = m.heap[p]
  BY <1>1, <1>3
<1> HIDE DEF all
<1>6. r \in Memories /\ r.cached = m.cached /\ r.heap = all
  BY <1>1, <1>4, <1>5 DEF Memories
<1>. QED BY <1>3, <1>5, <1>6 DEF Changed, r

LEMMA ChangedIsTold ==
  ASSUME NEW roles, NEW m, Told(roles, m), NEW o \in Objs, NEW h, StoryOf(roles, h),
         NEW r, Changed(m, o, h, r)
  PROVE  Told(roles, r)
BY DEF Told, Changed

\* What is remembered after a step.
LEMMA RememberIs ==
  ASSUME NEW m \in Memories, NEW roles, Told(roles, m), Remember(m)
  PROVE  /\ cached' = m.cached /\ cached' \in Objs \cup {None}
         /\ heap' \in [Objs -> Objects]
         /\ \A o \in Objs : StoryOf(roles, heap'[o].hist)
         /\ m.cached \in Objs => heap'[m.cached] = m.heap[m.cached]
<1>1. Blank \in Objects /\ Blank.hist = <<>>
  <2>1. Own \in [Messages -> 0..MaxMessages] /\ <<>> \in Seq(Messages)
    BY ConstantsAssumption DEF Own, Messages
  <2>. QED BY <2>1 DEF Blank, Objects
<1>2. StoryOf(roles, <<>>)
  BY DEF StoryOf
<1>3. m.heap \in [Objs -> Objects] /\ m.cached \in Objs \cup {None}
  BY DEF Memories
<1> DEFINE kept(o) == o = m.cached \/ \E t \in Turns : turn'[t].obj = o
<1>4. cached' = m.cached /\ heap' = [o \in Objs |-> IF kept(o) THEN m.heap[o] ELSE Blank]
  BY DEF Remember
<1>5. m.cached \in Objs => kept(m.cached)
  OBVIOUS
<1> HIDE DEF kept
<1>6. heap' \in [Objs -> Objects]
  BY <1>1, <1>3, <1>4
<1>7. \A o \in Objs : StoryOf(roles, heap'[o].hist)
  BY <1>1, <1>2, <1>4 DEF Told
<1>. QED BY <1>3, <1>4, <1>5, <1>6, <1>7

\* Memory and database agree, and the turns with them, when the memory a handler
\* leaves does.
Live == ~strayed /\ ~Gone /\ ~deleting

Matches(m) ==
  /\ m.cached \in Objs /\ m.heap[m.cached].hist = rows'
  /\ rows' = <<>> => m.heap[m.cached].count = 0
  /\ \A t \in Turns : turn'[t].at # "idle" => turn'[t].obj = m.cached

LEMMA Settles ==
  ASSUME NEW m \in Memories, NEW roles, Told(roles, m), Remember(m), Live' => Matches(m)
  PROVE  Agreement' /\ TurnsShareTheObject' /\ Held'
<1>1. /\ cached' = m.cached /\ (m.cached \in Objs => heap'[m.cached] = m.heap[m.cached])
  BY RememberIs
<1>2. CASE ~Live'
  BY <1>2 DEF Live, Agreement, TurnsShareTheObject, Held
<1>3. CASE Live'
  <2>1. Matches(m)
    BY <1>3
  <2>2. heap'[cached'].hist = rows' /\ (rows' = <<>> => heap'[cached'].count = 0)
    BY <1>1, <2>1 DEF Matches
  <2>3. ~Unread'
    BY <2>2 DEF Unread
  <2>. QED BY <1>1, <2>1, <2>2, <2>3 DEF Matches, Agreement, TurnsShareTheObject, Held
<1>. QED BY <1>2, <1>3

-----------------------------------------------------------------------------
(* The parts of the invariant that are not about the heap.                   *)

SaidOK == said \in Seq(Roles) /\ Len(said) <= MaxMessages

RowsOK ==
  /\ row \in Nat \cup {None} /\ rows \in Seq(Messages) /\ StoryOf(said, rows)
  /\ Counted

TurnsOK ==
  /\ turn \in [Turns -> Stages]
  /\ \A t \in Turns : (turn[t].obj = None) <=> (turn[t].at = "idle")

CopyOK ==
  /\ compaction \in [at : {"idle", "summarizing"}, recent : Seq(Messages)]
  /\ StoryOf(said, compaction.recent)
  /\ reader \in [at : {"idle", "loaded"}, hist : Seq(Messages), count : Nat]
  /\ StoryOf(said, reader.hist)

CountsOK ==
  /\ deleting \in BOOLEAN /\ strayed \in BOOLEAN
  /\ edits \in 0..MaxEdits /\ crashes \in 0..MaxCrashes

LEMMA PartsAre ==
  IndInv => SaidOK /\ RowsOK /\ TurnsOK /\ CopyOK /\ CountsOK
BY StoryIs DEF IndInv, TypeOK, Stories, SaidOK, RowsOK, TurnsOK, CopyOK, CountsOK

\* A handler that leaves the memory m keeps the invariant.
LEMMA Assembles ==
  ASSUME SaidOK', RowsOK', TurnsOK', CopyOK', CountsOK',
         NEW m \in Memories, Told(said', m), Remember(m), Live' => Matches(m)
  PROVE  IndInv'
<1>1. Agreement' /\ TurnsShareTheObject' /\ Held'
  BY Settles
<1>2. /\ cached' \in Objs \cup {None} /\ heap' \in [Objs -> Objects]
      /\ \A o \in Objs : StoryOf(said', heap'[o].hist)
  BY RememberIs
<1>3. TypeOK'
  BY <1>2 DEF TypeOK, SaidOK, RowsOK, TurnsOK, CopyOK, CountsOK
<1>4. (Stories)'
  BY <1>2, StoryIsNext DEF RowsOK, CopyOK
<1>. QED BY <1>1, <1>3, <1>4 DEF IndInv, RowsOK

\* One message more is said.
Says(role) == said' = Append(said, role) /\ Len(said) + 1 <= MaxMessages

LEMMA SaidNext ==
  ASSUME SaidOK, NEW role \in Roles, Says(role)
  PROVE  /\ SaidOK' /\ Len(said) + 1 \in Messages
         /\ \A s : StoryOf(said, s) => StoryOf(said', s)
         /\ \A m : Told(said, m) => Told(said', m)
<1>1. SaidOK' /\ Len(said) + 1 \in Messages
  BY ConstantsAssumption DEF SaidOK, Says, Messages
<1>2. \A s : StoryOf(said, s) => StoryOf(said', s)
  BY StoryLasts DEF SaidOK, Says
<1>. QED BY <1>1, <1>2 DEF Told

\* A write that meets no deletion changes the rows, and no other does.
LEMMA StoreIs ==
  ASSUME RowsOK, NEW s \in Seq(Messages), NEW n \in Nat, Store(s, n),
         StoryOf(said', rows), StoryOf(said', s), strayed => strayed',
         Writable /\ ~strayed' => n >= Len(s) /\ (s = <<>> => n = 0)
  PROVE  /\ RowsOK'
         /\ ~deleting /\ row' # None => Writable
         /\ Writable => rows' = s
<1>1. CASE Writable
  <2>1. rows' = s /\ row' = n
    BY <1>1 DEF Store
  <2>. QED BY <1>1, <2>1 DEF RowsOK, Counted, Gone
<1>2. CASE ~Writable
  <2>1. rows' = rows /\ row' = row
    BY <1>2 DEF Store
  <2>. QED BY <1>2, <2>1 DEF RowsOK, Counted, Gone, Writable
<1>. QED BY <1>1, <1>2

\* One turn is somewhere else.
LEMMA TurnMoves ==
  ASSUME TurnsOK, NEW t \in Turns, NEW x \in Stages, (x.obj = None) <=> (x.at = "idle"),
         turn' = [turn EXCEPT ![t] = x]
  PROVE  TurnsOK' /\ turn'[t] = x /\ \A u \in Turns \ {t} : turn'[u] = turn[u]
BY DEF TurnsOK

\* What a handler finds when nothing stands in the way of agreement.
LEMMA LiveIs ==
  ASSUME IndInv, Live
  PROVE  /\ \A t \in Turns : turn[t].at # "idle" =>
                turn[t].obj = cached /\ cached \in Objs /\ ~Unread
         /\ cached # None /\ ~Unread =>
                heap[cached].hist = rows /\ (rows = <<>> => heap[cached].count = 0)
<1>1. \A t \in Turns : turn[t].at # "idle" => turn[t].obj \in Objs
  BY DEF IndInv, TypeOK, Stages
<1>2. \A t \in Turns : turn[t].at # "idle" => turn[t].obj = cached /\ ~Unread
  BY DEF IndInv, Live, TurnsShareTheObject, Held
<1>3. cached # None => heap[cached].count \in Nat
  BY DEF IndInv, TypeOK, Objects
<1>4. cached # None /\ ~Unread => heap[cached].hist = rows
  BY DEF IndInv, Live, Agreement
<1>. QED BY <1>1, <1>2, <1>3, <1>4 DEF Unread

LEMMA OpenedLive ==
  ASSUME IndInv, Live
  PROVE  LET o == Opened.cached IN
         /\ Opened.heap[o].hist = rows /\ (rows = <<>> => Opened.heap[o].count = 0)
         /\ \A t \in Turns : turn[t].at # "idle" => turn[t].obj = o
<1>1. Known /\ TypeOK /\ Stories /\ row # None
  BY DEF Live, Known, Gone, IndInv
<1>2. rows = <<>> => row = 0
  BY DEF IndInv, Counted, Live
<1> DEFINE o == Opened.cached
<1>3. Opened.heap[o].count = row
  BY <1>1, OpenedIs
<1> HIDE DEF o
<1>4. CASE cached = None \/ Unread
  <2>1. Opened.heap[o].hist = rows
    BY <1>1, <1>4, OpenedIs DEF o
  <2>2. \A t \in Turns : turn[t].at = "idle"
    BY <1>4, LiveIs, ConstantsAssumption
  <2>. QED BY <1>2, <1>3, <2>1, <2>2 DEF o
<1>5. CASE ~(cached = None \/ Unread)
  <2>1. o = cached /\ Opened.heap[o].hist = heap[cached].hist
    BY <1>1, <1>5, OpenedIs DEF o
  <2>2. heap[cached].hist = rows
    BY <1>5, LiveIs
  <2>3. \A t \in Turns : turn[t].at # "idle" => turn[t].obj = cached
    BY LiveIs
  <2>. QED BY <1>2, <1>3, <2>1, <2>2, <2>3 DEF o
<1>. QED BY <1>4, <1>5

-----------------------------------------------------------------------------
(* Messages that are added.                                                  *)

\* Object o of memory m is the one that turns hold, and has the rows.
Holds(m, o) ==
  /\ m.cached = o /\ m.heap[o].hist = rows
  /\ \A t \in Turns : turn'[t].at # "idle" => turn'[t].obj = o

LEMMA AddToKeeps ==
  ASSUME IndInv, TurnsOK', NEW m \in Memories, Told(said, m), NEW o \in Objs,
         NEW role \in {"user", "assistant"}, AddTo(m, o, role), Live => Holds(m, o),
         UNCHANGED <<deleting, compaction, strayed, edits, reader, crashes>>
  PROVE  IndInv'
<1> DEFINE n    == Len(said) + 1
           h    == Append(m.heap[o].hist, n)
           told == Holding(m, o, h)
           new  == IF row = None THEN [told EXCEPT !.cached = None] ELSE told
<1>1. SaidOK /\ RowsOK /\ CopyOK /\ CountsOK /\ role \in Roles /\ Says(role)
  BY PartsAre DEF AddTo, Says, Roles
<1>2. /\ SaidOK' /\ n \in Messages
      /\ \A s : StoryOf(said, s) => StoryOf(said', s)
      /\ Told(said', m)
  BY <1>1, SaidNext
<1>3. CopyOK' /\ CountsOK'
  BY <1>1, <1>2 DEF CopyOK, CountsOK
<1>4. m.heap[o].hist \in Seq(Messages) /\ StoryOf(said, m.heap[o].hist)
  BY DEF Memories, Objects, Told
<1>5. h \in Seq(Messages) /\ StoryOf(said', h) /\ Len(h) = Len(m.heap[o].hist) + 1
  BY <1>1, <1>2, <1>4, StoryGrows DEF SaidOK, Says
<1>6. Append(rows, n) \in Seq(Messages) /\ StoryOf(said', Append(rows, n)) /\ Append(rows, n) # <<>>
      /\ Len(Append(rows, n)) = Len(rows) + 1
  BY <1>1, <1>2, StoryGrows DEF SaidOK, RowsOK, Says
<1>7. Store(Append(rows, n), CachedLength(told)) /\ Remember(new)
  BY DEF AddTo
<1> HIDE DEF h, n
<1>8. Changed(m, o, h, told) /\ told.heap[o].count = Len(h)
  BY <1>5, HoldingIs
<1>9. told \in Memories /\ Told(said', told)
  BY <1>2, <1>5, <1>8, ChangedIsTold DEF Changed
<1>10. CachedLength(told) \in Nat
  BY <1>9 DEF CachedLength, Memories, Objects
<1>11. Live => CachedLength(told) = Len(h)
  BY <1>8, ConstantsAssumption DEF Changed, Holds, CachedLength
<1> HIDE DEF told
<1>12. Writable /\ ~strayed' => Live
  BY DEF Writable, Live, Gone
<1>13. Live => m.heap[o].hist = rows
  BY DEF Holds
<1>14. Writable /\ ~strayed' => CachedLength(told) >= Len(Append(rows, n))
  BY <1>5, <1>6, <1>10, <1>11, <1>12, <1>13
<1>15. StoryOf(said', rows) /\ (strayed => strayed')
  BY <1>1, <1>2 DEF RowsOK
<1>16. /\ RowsOK'
       /\ ~deleting /\ row' # None => Writable
       /\ Writable => rows' = Append(rows, n)
  BY <1>1, <1>6, <1>7, <1>10, <1>14, <1>15, StoreIs
<1>17. new \in Memories /\ Told(said', new)
  BY <1>9 DEF Memories, Told
<1>18. ASSUME Live' PROVE Matches(new)
  <2>1. Writable /\ ~strayed
    BY <1>16, <1>18 DEF Live, Gone
  <2>2. Live /\ row # None /\ rows' = Append(rows, n)
    BY <1>12, <1>16, <2>1 DEF Live, Gone
  <2>3. Holds(m, o) /\ new = told
    BY <2>2
  <2>4. told.heap[o].hist = rows' /\ rows' # <<>> /\ told.cached = o
    BY <1>6, <1>8, <2>2, <2>3 DEF Holds, Changed, h
  <2>. QED BY <2>3, <2>4 DEF Matches, Holds
<1> HIDE DEF new
<1>. QED BY <1>2, <1>3, <1>7, <1>16, <1>17, <1>18, Assembles

LEMMA TurnAsksKeeps ==
  ASSUME IndInv, NEW t \in Turns, TurnAsks(t)
  PROVE  IndInv'
<1> DEFINE x == [turn[t] EXCEPT !.at = "asked"]
<1>1. TurnsOK /\ turn[t] \in Stages /\ turn[t].at = "begun" /\ turn[t].obj \in Objs
  BY PartsAre DEF TurnsOK, TurnAsks, Stages
<1>2. x \in Stages /\ x.obj = turn[t].obj /\ x.at = "asked" /\ x.obj # None
  BY <1>1, ConstantsAssumption DEF Stages
<1>3. turn' = [turn EXCEPT ![t] = x]
  BY DEF TurnAsks
<1> HIDE DEF x
<1>4. TurnsOK' /\ turn'[t] = x /\ \A u \in Turns \ {t} : turn'[u] = turn[u]
  BY <1>1, <1>2, <1>3, TurnMoves
<1>5. Memory \in Memories /\ Told(said, Memory)
  BY MemoryIs DEF IndInv
<1>6. Live => Holds(Memory, turn[t].obj)
  BY <1>1, <1>2, <1>4, LiveIs, ConstantsAssumption DEF Holds, Memory
<1>7. AddTo(Memory, turn[t].obj, "user") /\ UNCHANGED <<deleting, compaction, strayed, edits,
                                                        reader, crashes>>
  BY DEF TurnAsks
<1>. QED BY <1>1, <1>4, <1>5, <1>6, <1>7, AddToKeeps

LEMMA TurnAnswersKeeps ==
  ASSUME IndInv, NEW t \in Turns, TurnAnswers(t)
  PROVE  IndInv'
<1>1. TurnsOK /\ turn[t] \in Stages /\ turn[t].at = "streaming" /\ turn[t].obj \in Objs
  BY PartsAre DEF TurnsOK, TurnAnswers, Stages
<1>2. Idle \in Stages /\ Idle.obj = None /\ Idle.at = "idle"
  BY DEF Idle, Stages
<1>3. turn' = [turn EXCEPT ![t] = Idle]
  BY DEF TurnAnswers
<1>4. TurnsOK' /\ turn'[t] = Idle /\ \A u \in Turns \ {t} : turn'[u] = turn[u]
  BY <1>1, <1>2, <1>3, TurnMoves
<1>5. Memory \in Memories /\ Told(said, Memory)
  BY MemoryIs DEF IndInv
<1>6. Live => Holds(Memory, turn[t].obj)
  BY <1>1, <1>2, <1>4, LiveIs, ConstantsAssumption DEF Holds, Memory
<1>7. AddTo(Memory, turn[t].obj, "assistant")
      /\ UNCHANGED <<deleting, compaction, strayed, edits, reader, crashes>>
  BY DEF TurnAnswers
<1>. QED BY <1>1, <1>4, <1>5, <1>6, <1>7, AddToKeeps

LEMMA AddMessageKeeps ==
  ASSUME IndInv, NEW role \in {"user", "assistant"}, AddMessage(role)
  PROVE  IndInv'
<1>1. Known /\ AddTo(Opened, Opened.cached, role)
      /\ UNCHANGED <<deleting, turn, compaction, strayed, edits, reader, crashes>>
  BY DEF AddMessage, Same
<1>2. TurnsOK'
  BY <1>1, PartsAre DEF TurnsOK
<1>3. Opened \in Memories /\ Opened.cached \in Objs /\ Told(said, Opened)
  BY <1>1, OpenedIs DEF IndInv
<1>4. Live => Holds(Opened, Opened.cached)
  BY <1>1, OpenedLive DEF Holds
<1>. QED BY <1>1, <1>2, <1>3, <1>4, AddToKeeps

-----------------------------------------------------------------------------
(* Handlers that change neither rows nor what was said.                      *)

Untold == UNCHANGED <<row, rows, said, strayed, edits>>

LEMMA UntoldKeeps ==
  ASSUME SaidOK, RowsOK, CopyOK, CountsOK, Untold
  PROVE  /\ SaidOK' /\ RowsOK' /\ (UNCHANGED <<compaction, reader>> => CopyOK')
         /\ deleting' \in BOOLEAN /\ crashes' \in 0..MaxCrashes => CountsOK'
BY DEF SaidOK, RowsOK, CopyOK, CountsOK, Counted, Gone, Untold

LEMMA TurnBeginsKeeps ==
  ASSUME IndInv, NEW t \in Turns, TurnBegins(t)
  PROVE  IndInv'
<1> DEFINE x == [Idle EXCEPT !.at = "begun", !.obj = Opened.cached]
<1>1. Known /\ Remember(Opened) /\ turn' = [turn EXCEPT ![t] = x]
      /\ Untold /\ UNCHANGED <<deleting, compaction, reader, crashes>>
  BY DEF TurnBegins, Untold
<1>2. Opened \in Memories /\ Opened.cached \in Objs /\ Told(said', Opened)
  BY <1>1, OpenedIs DEF IndInv, Untold
<1>3. x \in Stages /\ x.obj = Opened.cached /\ x.at = "begun" /\ x.obj # None
  BY <1>2, ConstantsAssumption DEF Idle, Stages
<1> HIDE DEF x
<1>4. TurnsOK' /\ turn'[t] = x /\ \A u \in Turns \ {t} : turn'[u] = turn[u]
  BY <1>1, <1>3, TurnMoves, PartsAre
<1>5. SaidOK' /\ RowsOK' /\ CopyOK' /\ CountsOK'
  BY <1>1, UntoldKeeps, PartsAre DEF CountsOK
<1>6. Live' => Matches(Opened)
  <2>1. Live' => Live /\ rows' = rows
    BY <1>1 DEF Live, Gone, Untold
  <2>. QED BY <1>2, <1>3, <1>4, <2>1, OpenedLive DEF Matches
<1>. QED BY <1>1, <1>2, <1>4, <1>5, <1>6, Assembles

LEMMA TurnEndsKeeps ==
  ASSUME IndInv, NEW t \in Turns, TurnEnds(t)
  PROVE  IndInv'
<1>1. turn[t].at # "idle" /\ Remember(Memory) /\ turn' = [turn EXCEPT ![t] = Idle]
      /\ Untold /\ UNCHANGED <<deleting, compaction, reader, crashes>>
  BY DEF TurnEnds, Untold
<1>2. Memory \in Memories /\ Told(said', Memory)
  BY <1>1, MemoryIs DEF IndInv, Untold
<1>3. Idle \in Stages /\ Idle.obj = None /\ Idle.at = "idle"
  BY DEF Idle, Stages
<1>4. TurnsOK' /\ turn'[t] = Idle /\ \A u \in Turns \ {t} : turn'[u] = turn[u]
  BY <1>1, <1>3, TurnMoves, PartsAre
<1>5. SaidOK' /\ RowsOK' /\ CopyOK' /\ CountsOK'
  BY <1>1, UntoldKeeps, PartsAre DEF CountsOK
<1>6. Live' => Matches(Memory)
  <2>1. Live' => Live /\ rows' = rows
    BY <1>1 DEF Live, Gone, Untold
  <2>. QED BY <1>1, <1>3, <1>4, <2>1, LiveIs, ConstantsAssumption DEF Matches, Memory
<1>. QED BY <1>1, <1>2, <1>4, <1>5, <1>6, Assembles

\* A turn that goes on with its object changes nothing for the others.
LEMMA TurnGoesOn ==
  ASSUME IndInv, NEW t \in Turns, turn[t].at # "idle",
         NEW x \in Stages, x.obj = turn[t].obj, x.at # "idle", turn' = [turn EXCEPT ![t] = x],
         UNCHANGED <<row, rows, deleting, cached, heap, compaction, said, strayed, edits, reader,
                     crashes>>
  PROVE  IndInv'
<1>1. TurnsOK' /\ turn'[t] = x /\ \A u \in Turns \ {t} : turn'[u] = turn[u]
  BY TurnMoves, PartsAre DEF IndInv, TypeOK
<1>2. \A u \in Turns : turn'[u].at # "idle" => turn[u].at # "idle" /\ turn'[u].obj = turn[u].obj
  BY <1>1
<1>3. TypeOK'
  BY <1>1 DEF IndInv, TypeOK, TurnsOK
<1>4. Stories'
  BY DEF IndInv, Stories, Story, Elements, Ordered, Dialogue, Summaries
<1>5. Agreement' /\ Counted'
  BY DEF IndInv, Agreement, Counted, Gone, Unread
<1>6. TurnsShareTheObject' /\ Held'
  BY <1>2 DEF IndInv, TurnsShareTheObject, Held, Gone, Unread
<1>. QED BY <1>3, <1>4, <1>5, <1>6 DEF IndInv

LEMMA TurnStreamsKeeps ==
  ASSUME IndInv, NEW t \in Turns, TurnStreams(t)
  PROVE  IndInv'
<1> DEFINE x == [Idle EXCEPT !.at = "streaming", !.obj = turn[t].obj]
<1>1. x \in Stages /\ x.obj = turn[t].obj /\ x.at = "streaming"
  BY PartsAre DEF TurnsOK, Idle, Stages
<1>2. turn[t].at # "idle" /\ turn' = [turn EXCEPT ![t] = x]
      /\ UNCHANGED <<row, rows, deleting, cached, heap, compaction, said, strayed, edits, reader,
                     crashes>>
  BY DEF TurnStreams
<1> HIDE DEF x
<1>. QED BY <1>1, <1>2, TurnGoesOn

LEMMA TurnSummarizesKeeps ==
  ASSUME IndInv, NEW t \in Turns, NEW date \in {0, 1}, TurnSummarizes(t, date)
  PROVE  IndInv'
<1> DEFINE hist   == heap[turn[t].obj].hist
           convo  == PrefaceUser + Cardinality(Dialogue(hist)) + date
           half   == convo \div 2
           system == PrefaceSystem + Cardinality(Summaries(hist))
           older  == {hist[i] : i \in
                        {j \in Dialogue(hist) :
                           PrefaceUser + Cardinality({k \in Dialogue(hist) : k <= j}) <= half}}
           x      == [at |-> "summarizing", obj |-> turn[t].obj, cut |-> half,
                      system |-> system, older |-> older]
<1>1. turn[t] \in Stages /\ turn[t].at = "asked" /\ turn[t].obj \in Objs
  BY PartsAre DEF TurnsOK, TurnSummarizes, Stages
<1>2. hist \in Seq(Messages)
  BY <1>1 DEF IndInv, TypeOK, Objects
<1>3. Cardinality(Dialogue(hist)) \in Nat /\ Cardinality(Summaries(hist)) \in Nat
  <2>1. DOMAIN hist = 1..Len(hist) /\ Len(hist) \in Int /\ 1 \in Int
    BY <1>2
  <2>2. IsFiniteSet(DOMAIN hist)
    <3>1. IsFiniteSet(1..Len(hist))
      BY <2>1, FS_Interval
    <3>. QED BY <2>1, <3>1
  <2>. QED BY <2>2, FS_Subset, FS_CardinalityType DEF Dialogue, Summaries
<1>4. half \in Nat /\ system \in Nat
  BY <1>3, ConstantsAssumption
<1>5. older \subseteq Messages
  <2>1. \A i \in Dialogue(hist) : hist[i] \in Messages
    BY <1>2 DEF Dialogue
  <2> HIDE DEF hist, half
  <2>. QED BY <2>1
<1>6. x \in Stages /\ x.obj = turn[t].obj /\ x.at = "summarizing"
  <2> HIDE DEF half, system, older
  <2>. QED BY <1>1, <1>4, <1>5 DEF Stages
<1>7. /\ UNCHANGED <<row, rows, deleting, cached, heap, compaction, said, strayed, edits, reader,
                     crashes>>
      /\ turn' = [turn EXCEPT ![t] = x]
  BY DEF TurnSummarizes
<1> HIDE DEF x
<1>. QED BY <1>1, <1>6, <1>7, TurnGoesOn

-----------------------------------------------------------------------------
(* Histories that are replaced.                                              *)

\* The turns that go on hold what they held.
TurnsStay ==
  \A t \in Turns : turn'[t].at # "idle" => turn[t].at # "idle" /\ turn'[t].obj = turn[t].obj

LEMMA OwnIs == Own \in [Messages -> 0..MaxMessages]
BY ConstantsAssumption DEF Own, Messages

LEMMA ReplaceKeeps ==
  ASSUME IndInv, Known, SaidOK', TurnsOK', CopyOK', CountsOK', TurnsStay,
         \A q : StoryOf(said, q) => StoryOf(said', q),
         NEW s \in Seq(Messages), StoryOf(said', s), Replace(Opened, s),
         UNCHANGED <<deleting, strayed>>
  PROVE  IndInv'
<1> DEFINE o    == Opened.cached
           held == Holding(Opened, o, s)
           own  == [held EXCEPT !.heap[o].ids = Own]
           m    == IF Writable THEN own ELSE Opened
<1>1. Opened \in Memories /\ o \in Objs /\ Told(said', Opened)
  BY OpenedIs DEF IndInv, Told
<1>2. Store(s, Len(s)) /\ Remember(m)
  BY DEF Replace
<1> HIDE DEF o
<1>3. Changed(Opened, o, s, held) /\ held.heap[o].count = Len(s)
  BY <1>1, HoldingIs
<1> HIDE DEF held
<1>4. held \in Memories /\ held.heap[o].hist = s
  BY <1>3 DEF Changed
<1>5. Changed(held, o, s, own) /\ own.heap[o].count = Len(s)
  BY <1>1, <1>3, <1>4, IdsAre, OwnIs
<1> HIDE DEF own
<1>6. m \in Memories /\ Told(said', m)
  <2>1. Told(said', held)
    BY <1>1, <1>3, ChangedIsTold
  <2>2. Told(said', own)
    BY <1>1, <2>1, <1>5, ChangedIsTold
  <2>. QED BY <1>1, <1>5, <2>2 DEF Changed
<1>7. RowsOK /\ StoryOf(said', rows) /\ Len(s) \in Nat /\ (s = <<>> => Len(s) = 0)
  BY PartsAre DEF RowsOK
<1>8. /\ RowsOK'
      /\ ~deleting /\ row' # None => Writable
      /\ Writable => rows' = s
  BY <1>2, <1>7, StoreIs
<1>9. ASSUME Live' PROVE Matches(m)
  <2>1. Writable
    BY <1>8, <1>9 DEF Live, Gone
  <2>2. Live /\ rows' = s /\ m = own
    BY <1>8, <1>9, <2>1 DEF Live, Gone, Writable
  <2>3. m.cached = o /\ m.heap[o].hist = rows' /\ m.heap[o].count = Len(s)
    BY <1>3, <1>5, <2>2 DEF Changed, o
  <2>4. \A t \in Turns : turn'[t].at # "idle" => turn'[t].obj = o
    BY <2>2, OpenedLive DEF TurnsStay, o
  <2>. QED BY <1>1, <1>7, <2>2, <2>3, <2>4 DEF Matches
<1> HIDE DEF m
<1>. QED BY <1>2, <1>6, <1>8, <1>9, Assembles

LEMMA TurnCompactsKeeps ==
  ASSUME IndInv, NEW t \in Turns, TurnCompacts(t)
  PROVE  IndInv'
<1> DEFINE o    == turn[t].obj
           hist == heap[o].hist
           n    == Len(said) + 1
           new  == Compacted(hist, turn[t].system, turn[t].cut, n)
           x    == [Idle EXCEPT !.at = "streaming", !.obj = o]
           m    == [Opened EXCEPT !.heap[o].hist = new]
<1>1. /\ turn[t].at = "summarizing" /\ Known /\ Says("system")
      /\ turn[t].system + turn[t].cut < Len(hist)
      /\ turn' = [turn EXCEPT ![t] = x]
      /\ IF Writable THEN Replace(Opened, new)
         ELSE Remember(m) /\ UNCHANGED <<row, rows>>
      /\ UNCHANGED <<deleting, compaction, strayed, edits, reader, crashes>>
  BY DEF TurnCompacts, Says
<1>2. SaidOK /\ RowsOK /\ CopyOK /\ CountsOK /\ TurnsOK
  BY PartsAre
<1>3. /\ turn[t] \in Stages /\ o \in Objs
      /\ hist \in Seq(Messages) /\ StoryOf(said, hist)
  BY <1>1, <1>2, StoryIs DEF TurnsOK, Stages, IndInv, TypeOK, Stories, Objects
<1>4. /\ SaidOK' /\ n \in Messages
      /\ \A q : StoryOf(said, q) => StoryOf(said', q)
      /\ \A q : Told(said, q) => Told(said', q)
  BY <1>1, <1>2, SaidNext DEF Roles
<1>5. new \in Seq(Messages) /\ StoryOf(said', new)
  <2>1. /\ turn[t].system \in Nat /\ turn[t].cut \in Nat
        /\ turn[t].system + turn[t].cut \in Nat
        /\ turn[t].system <= turn[t].system + turn[t].cut
        /\ turn[t].system + turn[t].cut <= Len(hist)
    BY <1>1, <1>3 DEF Stages
  <2> HIDE DEF hist
  <2>. QED BY <1>1, <1>2, <1>3, <1>4, <2>1, StoryCompacted DEF SaidOK, Says, Compacted
<1>6. x \in Stages /\ x.obj = o /\ x.at = "streaming" /\ x.obj # None
  BY <1>3, ConstantsAssumption DEF Idle, Stages
<1> HIDE DEF new, x
<1>7. TurnsOK' /\ turn'[t] = x /\ \A u \in Turns \ {t} : turn'[u] = turn[u]
  BY <1>1, <1>2, <1>6, TurnMoves
<1>8. TurnsStay
  BY <1>1, <1>6, <1>7 DEF TurnsStay
<1>9. CopyOK' /\ CountsOK'
  BY <1>1, <1>2, <1>4 DEF CopyOK, CountsOK
<1>10. CASE Writable
  BY <1>1, <1>4, <1>5, <1>7, <1>8, <1>9, <1>10, ReplaceKeeps
<1>11. CASE ~Writable
  <2>1. Opened \in Memories /\ Told(said', Opened)
    BY <1>1, <1>4, OpenedIs DEF IndInv
  <2>2. Changed(Opened, o, new, m)
    BY <1>3, <1>5, <2>1, HistoryIs
  <2>3. m \in Memories /\ Told(said', m)
    BY <1>3, <1>5, <2>1, <2>2, ChangedIsTold DEF Changed
  <2>4. RowsOK' /\ ~Live'
    BY <1>1, <1>2, <1>4, <1>11 DEF RowsOK, Counted, Gone, Live, Writable
  <2>5. Remember(m)
    BY <1>1, <1>11
  <2> HIDE DEF m
  <2>. QED BY <1>4, <1>7, <1>9, <2>3, <2>4, <2>5, Assembles
<1>. QED BY <1>10, <1>11

LEMMA CompactEndsKeeps ==
  ASSUME IndInv, CompactEnds
  PROVE  IndInv'
<1> DEFINE n   == Len(said) + 1
           old == compaction.recent
           new == <<n>> \o old
<1>1. /\ Known /\ Says("system") /\ compaction' = Resting /\ Replace(Opened, new)
      /\ UNCHANGED <<deleting, turn, strayed, edits, reader, crashes>>
  BY DEF CompactEnds, Says
<1>2. SaidOK /\ RowsOK /\ CopyOK /\ CountsOK /\ TurnsOK
  BY PartsAre
<1>3. old \in Seq(Messages) /\ StoryOf(said, old)
  BY <1>2 DEF CopyOK
<1>4. /\ SaidOK' /\ n \in Messages
      /\ \A q : StoryOf(said, q) => StoryOf(said', q)
  BY <1>1, <1>2, SaidNext DEF Roles
<1>5. new \in Seq(Messages) /\ StoryOf(said', new)
  <2>1. 0 \in Nat /\ 0 <= 0 /\ 0 <= Len(old) /\ SubSeq(old, 1, 0) = <<>> /\ SubSeq(old, 0 + 1,
                                                                      Len(old)) = old
    BY <1>3
  <2>2. LET r == SubSeq(old, 1, 0) \o <<Len(said) + 1>> \o SubSeq(old, 0 + 1, Len(old))
        IN  r \in Seq(Messages) /\ StoryOf(Append(said, "system"), r)
    BY <1>2, <1>3, <1>4, <2>1, StoryCompacted DEF SaidOK
  <2>3. <<>> \o <<Len(said) + 1>> = <<Len(said) + 1>>
    OBVIOUS
  <2>. QED BY <1>1, <2>1, <2>2, <2>3 DEF Says
<1>6. CopyOK' /\ CountsOK' /\ TurnsOK' /\ TurnsStay
  BY <1>1, <1>2, <1>4 DEF CopyOK, CountsOK, TurnsOK, TurnsStay, Resting, StoryOf
<1> HIDE DEF new
<1>. QED BY <1>1, <1>4, <1>5, <1>6, ReplaceKeeps

\* The compact route keeps no more than there is.
LEMMA KeptIs ==
  ASSUME NEW n \in Nat, n >= KeepLeast
  PROVE  Kept(n) \in Nat /\ Kept(n) <= n
<1>1. KeepPart \in Nat /\ KeepPart > 1 /\ KeepLeast \in Nat /\ KeepMost \in Nat
  BY ConstantsAssumption
<1>2. n \div KeepPart \in Nat /\ n \div KeepPart <= n
  BY <1>1
<1>. QED BY <1>1, <1>2 DEF Kept

LEMMA CompactBeginsKeeps ==
  ASSUME IndInv, CompactBegins
  PROVE  IndInv'
<1> DEFINE hist == Opened.heap[Opened.cached].hist
           kept == Len(hist) - Kept(Len(hist))
           tail == SubSeq(hist, kept + 1, Len(hist))
<1>1. /\ Known /\ Len(hist) >= CompactMin /\ Remember(Opened)
      /\ compaction' = [at |-> "summarizing", recent |-> tail]
      /\ Untold /\ UNCHANGED <<deleting, turn, reader, crashes>>
  BY DEF CompactBegins, Untold
<1>2. SaidOK /\ RowsOK /\ CopyOK /\ CountsOK /\ TurnsOK
  BY PartsAre
<1>3. Opened \in Memories /\ Opened.cached \in Objs /\ Told(said, Opened)
  BY <1>1, OpenedIs DEF IndInv
<1>4. hist \in Seq(Messages) /\ StoryOf(said, hist)
  BY <1>3 DEF Memories, Objects, Told
<1>5. tail \in Seq(Messages) /\ StoryOf(said, tail)
  <2>1. Len(hist) \in Nat /\ kept + 1 \in Nat /\ 1 <= kept + 1 /\ Len(hist) <= Len(hist)
    <3>1. CompactMin \in Nat /\ KeepLeast \in Nat /\ KeepLeast < CompactMin
      BY ConstantsAssumption
    <3>2. Len(hist) \in Nat
      BY <1>4
    <3> HIDE DEF hist
    <3>3. Kept(Len(hist)) \in Nat /\ Kept(Len(hist)) <= Len(hist)
      <4>1. Len(hist) >= KeepLeast
        BY <1>1, <3>1, <3>2
      <4>. QED BY <3>2, <4>1, KeptIs
    <3>. QED BY <3>2, <3>3
  <2> HIDE DEF hist, kept
  <2>. QED BY <1>4, <2>1, StorySubSeq
<1> HIDE DEF tail
<1>6. CopyOK' /\ CountsOK' /\ TurnsOK' /\ SaidOK' /\ RowsOK' /\ said' = said
  BY <1>1, <1>2, <1>5, UntoldKeeps DEF CopyOK, CountsOK, TurnsOK, Untold
<1>7. Live' => Matches(Opened)
  <2>1. Live' => Live /\ rows' = rows
    BY <1>1 DEF Live, Gone, Untold
  <2>. QED BY <1>1, <1>3, <2>1, OpenedLive DEF Matches
<1>. QED BY <1>1, <1>3, <1>6, <1>7, Assembles

LEMMA CompactFailsKeeps ==
  ASSUME IndInv, CompactFails
  PROVE  IndInv'
<1>1. compaction' = Resting
      /\ UNCHANGED <<row, rows, deleting, cached, heap, turn, said, strayed, edits, reader,
                     crashes>>
  BY DEF CompactFails
<1>2. TypeOK'
  BY <1>1 DEF IndInv, TypeOK, Resting
<1>3. Stories'
  BY <1>1 DEF IndInv, Stories, Story, Elements, Ordered, Dialogue, Summaries, Resting
<1>4. Agreement' /\ TurnsShareTheObject' /\ Counted' /\ Held'
  BY <1>1 DEF IndInv, Agreement, TurnsShareTheObject, Counted, Held, Gone, Unread
<1>. QED BY <1>2, <1>3, <1>4 DEF IndInv

LEMMA OpenKeeps ==
  ASSUME IndInv, Open
  PROVE  IndInv'
<1>1. Known /\ Remember(Opened) /\ Untold /\ UNCHANGED <<deleting, turn, compaction, reader,
                                                         crashes>>
  BY DEF Open, Same, Untold
<1>2. SaidOK /\ RowsOK /\ CopyOK /\ CountsOK /\ TurnsOK
  BY PartsAre
<1>3. Opened \in Memories /\ Opened.cached \in Objs /\ Told(said', Opened)
  BY <1>1, OpenedIs DEF IndInv, Untold
<1>4. CopyOK' /\ CountsOK' /\ TurnsOK' /\ SaidOK' /\ RowsOK'
  BY <1>1, <1>2, UntoldKeeps DEF CountsOK, TurnsOK, Untold
<1>5. Live' => Matches(Opened)
  <2>1. Live' => Live /\ rows' = rows
    BY <1>1 DEF Live, Gone, Untold
  <2>. QED BY <1>1, <1>3, <2>1, OpenedLive DEF Matches
<1>. QED BY <1>1, <1>3, <1>4, <1>5, Assembles

-----------------------------------------------------------------------------
(* The thread.                                                               *)

LEMMA ThreadLoadsKeeps ==
  ASSUME IndInv, ThreadLoads
  PROVE  IndInv'
<1>1. /\ row # None /\ edits < MaxEdits /\ edits' = edits + 1
      /\ reader' = [at |-> "loaded", hist |-> rows, count |-> row]
      /\ UNCHANGED <<row, rows, deleting, cached, heap, turn, compaction, said, strayed, crashes>>
  BY DEF ThreadLoads, Gone
<1>2. row \in Nat /\ rows \in Seq(Messages) /\ Story(rows)
  BY <1>1 DEF IndInv, TypeOK, Stories
<1>3. edits' \in 0..MaxEdits
  BY <1>1, PartsAre, ConstantsAssumption DEF CountsOK
<1>4. TypeOK'
  BY <1>1, <1>2, <1>3 DEF IndInv, TypeOK
<1>5. Stories'
  BY <1>1, <1>2 DEF IndInv, Stories, Story, Elements, Ordered, Dialogue, Summaries
<1>6. Agreement' /\ TurnsShareTheObject' /\ Counted' /\ Held'
  BY <1>1 DEF IndInv, Agreement, TurnsShareTheObject, Counted, Held, Gone, Unread
<1>. QED BY <1>4, <1>5, <1>6 DEF IndInv

\* A thread that nobody overtook stores what the rows are, and no turn holds
\* another object.
LEMMA ThreadStoresKeeps ==
  ASSUME IndInv, ThreadStores
  PROVE  IndInv'
<1> DEFINE o   == Spare
           n   == IF Gone THEN reader.count ELSE row
           obj == [hist |-> reader.hist, count |-> n, ids |-> Own]
           all == [heap EXCEPT ![o] = obj]
           m   == [cached |-> o, heap |-> all]
<1>1. /\ reader' = NoThread /\ strayed' = (strayed \/ Overtaken) /\ Remember(m)
      /\ UNCHANGED <<row, rows, deleting, turn, compaction, said, edits, crashes>>
  BY DEF ThreadStores
<1>2. SaidOK /\ RowsOK /\ CopyOK /\ CountsOK /\ TurnsOK
  BY PartsAre
<1>3. o \in Objs
  BY SpareIs DEF IndInv
<1>4. n \in Nat
  BY <1>2 DEF RowsOK, CopyOK, Gone
<1>5. obj \in Objects /\ obj.hist = reader.hist /\ obj.count = n
  <2> HIDE DEF n
  <2>. QED BY <1>2, <1>4, OwnIs DEF CopyOK, Objects
<1>6. /\ all \in [Objs -> Objects] /\ all[o] = obj
      /\ \A p \in Objs \ {o} : all[p] = heap[p]
  <2> HIDE DEF o, obj
  <2>. QED BY <1>3, <1>5 DEF IndInv, TypeOK
<1> HIDE DEF obj, all
<1>7. m \in Memories /\ m.cached = o /\ m.heap = all
  BY <1>3, <1>6 DEF Memories
<1>8. Told(said', m)
  <2>1. \A p \in Objs : StoryOf(said, heap[p].hist)
    BY StoryIs DEF IndInv, Stories
  <2>. QED BY <1>1, <1>2, <1>5, <1>6, <1>7, <2>1 DEF Told, CopyOK
<1> HIDE DEF m
<1>9. strayed' \in BOOLEAN /\ (strayed => strayed') /\ (~strayed' => ~Overtaken)
  BY <1>1, <1>2 DEF CountsOK
<1>10. SaidOK' /\ TurnsOK' /\ CountsOK' /\ RowsOK'
  BY <1>1, <1>2, <1>9 DEF SaidOK, TurnsOK, CountsOK, RowsOK, Counted, Gone
<1>11. CopyOK'
  BY <1>1, <1>2 DEF CopyOK, NoThread, StoryOf
<1>12. ASSUME Live' PROVE Matches(m)
  <2>1. ~Overtaken /\ ~strayed /\ ~Gone
    BY <1>1, <1>9, <1>12 DEF Live, Gone
  <2>2. reader.hist = rows /\ \A t \in Turns : turn[t].at = "idle"
    BY <2>1 DEF Overtaken
  <2>3. rows = <<>> => n = 0
    BY <2>1 DEF IndInv, Counted
  <2>. QED BY <1>1, <1>3, <1>5, <1>6, <1>7, <2>2, <2>3 DEF Matches
<1>. QED BY <1>1, <1>7, <1>8, <1>10, <1>11, <1>12, Assembles

-----------------------------------------------------------------------------
(* Edits.                                                                    *)

LEMMA EditingIs ==
  ASSUME IndInv, Editing, strayed' \in BOOLEAN
  PROVE  /\ Known /\ UNCHANGED <<deleting, turn, compaction, said, reader, crashes>>
         /\ SaidOK' /\ TurnsOK' /\ CopyOK' /\ CountsOK'
<1>1. Known /\ edits < MaxEdits /\ edits' = edits + 1
      /\ UNCHANGED <<deleting, turn, compaction, said, reader, crashes>>
  BY DEF Editing
<1>2. edits' \in 0..MaxEdits
  BY <1>1, PartsAre, ConstantsAssumption DEF CountsOK
<1>. QED BY <1>1, <1>2, PartsAre DEF SaidOK, TurnsOK, CopyOK, CountsOK

\* An edit that leaves the object o with the history h, and the rows s.
LEMMA EditKeeps ==
  ASSUME IndInv, Editing, strayed' \in BOOLEAN, strayed => strayed',
         NEW s \in Seq(Messages), StoryOf(said, s), NEW n \in Nat, Store(s, n),
         Writable /\ ~strayed' => n >= Len(s) /\ (s = <<>> => n = 0),
         NEW m \in Memories, Told(said, m), Remember(m), m.cached = Opened.cached,
         Live /\ Writable /\ ~strayed' =>
           m.heap[m.cached].hist = s /\ (s = <<>> => m.heap[m.cached].count = 0)
  PROVE  IndInv'
<1>1. /\ Known /\ UNCHANGED <<deleting, turn, compaction, said, reader, crashes>>
      /\ SaidOK' /\ TurnsOK' /\ CopyOK' /\ CountsOK'
  BY EditingIs
<1>2. RowsOK /\ StoryOf(said', rows) /\ StoryOf(said', s) /\ Told(said', m)
  BY <1>1, PartsAre DEF RowsOK
<1>3. /\ RowsOK'
      /\ ~deleting /\ row' # None => Writable
      /\ Writable => rows' = s
  BY <1>2, StoreIs
<1>4. ASSUME Live' PROVE Matches(m)
  <2>1. Live /\ Writable /\ rows' = s /\ ~strayed'
    BY <1>1, <1>3, <1>4 DEF Live, Gone, Writable
  <2>2. \A t \in Turns : turn'[t].at # "idle" => turn'[t].obj = m.cached
    BY <1>1, <2>1, OpenedLive
  <2>3. m.cached \in Objs
    BY <1>1, OpenedIs DEF IndInv
  <2>. QED BY <2>1, <2>2, <2>3 DEF Matches
<1>. QED BY <1>1, <1>2, <1>3, <1>4, Assembles

\* The first messages of a story.
LEMMA CutIs ==
  ASSUME NEW s \in Seq(Messages), NEW keep \in Nat
  PROVE  LET n == IF keep < Len(s) THEN keep ELSE Len(s)
         IN  /\ n \in Nat /\ n <= Len(s) /\ SubSeq(s, 1, n) \in Seq(Messages)
             /\ Len(SubSeq(s, 1, n)) = n
             /\ (keep # 0 /\ SubSeq(s, 1, n) = <<>> => s = <<>>)
             /\ (StoryOf(said, s) => StoryOf(said, SubSeq(s, 1, n)))
<1> DEFINE n == IF keep < Len(s) THEN keep ELSE Len(s)
<1>1. n \in Nat /\ n <= Len(s) /\ (keep # 0 /\ n = 0 => Len(s) = 0)
  OBVIOUS
<1> HIDE DEF n
<1>2. SubSeq(s, 1, n) \in Seq(Messages) /\ Len(SubSeq(s, 1, n)) = n
  BY <1>1
<1>3. SubSeq(s, 1, n) = <<>> => n = 0
  BY <1>2
<1>4. Len(s) = 0 => s = <<>>
  OBVIOUS
<1>5. StoryOf(said, s) => StoryOf(said, SubSeq(s, 1, n))
  BY <1>1, StorySubSeq
<1>. QED BY <1>1, <1>2, <1>3, <1>4, <1>5 DEF n

LEMMA TruncateKeeps ==
  ASSUME IndInv, NEW keep \in 0..MaxMessages, Truncate(keep)
  PROVE  IndInv'
<1> DEFINE o       == Opened.cached
           hist    == Opened.heap[o].hist
           upto(q) == IF keep < Len(q) THEN keep ELSE Len(q)
           s       == SubSeq(rows, 1, upto(rows))
           h       == SubSeq(hist, 1, upto(hist))
           cut     == [Opened EXCEPT !.heap[o].hist = h]
           m       == IF Writable \/ Gone THEN cut ELSE Opened
<1>1. /\ Editing /\ strayed' = (strayed \/ keep = 0)
      /\ Store(s, upto(rows)) /\ Remember(m)
  BY DEF Truncate
<1>2. Known /\ RowsOK /\ strayed \in BOOLEAN /\ keep \in Nat
  BY <1>1, PartsAre, ConstantsAssumption DEF Editing, CountsOK
<1>3. Opened \in Memories /\ o \in Objs /\ Told(said, Opened)
  BY <1>2, OpenedIs DEF IndInv
<1>4. hist \in Seq(Messages) /\ StoryOf(said, hist)
  BY <1>3 DEF Memories, Objects, Told
<1>5. /\ s \in Seq(Messages) /\ StoryOf(said, s) /\ upto(rows) \in Nat
      /\ upto(rows) = Len(s) /\ (keep # 0 /\ s = <<>> => rows = <<>>)
  BY <1>2, CutIs DEF RowsOK
<1>6. h \in Seq(Messages) /\ StoryOf(said, h)
  BY <1>2, <1>4, CutIs
<1>7. hist = rows => h = s
  OBVIOUS
<1>8. Live => hist = rows /\ (rows = <<>> => Opened.heap[o].count = 0)
  BY OpenedLive
<1> HIDE DEF o, s, h
<1>9. Changed(Opened, o, h, cut) /\ cut.heap[o].count = Opened.heap[o].count
  BY <1>3, <1>6, HistoryIs
<1> HIDE DEF cut
<1>10. m \in Memories /\ Told(said, m) /\ m.cached = o
  <2>1. Told(said, cut)
    BY <1>3, <1>6, <1>9, ChangedIsTold
  <2>. QED BY <1>3, <1>9, <2>1 DEF Changed, o
<1>11. ASSUME Live, Writable, ~strayed'
       PROVE  m.heap[m.cached].hist = s /\ (s = <<>> => m.heap[m.cached].count = 0)
  <2>1. m = cut /\ m.cached = o
    BY <1>10, <1>11
  <2>2. cut.heap[o].hist = h /\ h = s
    BY <1>7, <1>8, <1>9, <1>11 DEF Changed
  <2>3. s = <<>> => Opened.heap[o].count = 0
    BY <1>1, <1>5, <1>8, <1>11
  <2>. QED BY <1>9, <2>1, <2>2, <2>3
<1>12. (s = <<>> => upto(rows) = 0) /\ upto(rows) >= Len(s)
  BY <1>5
<1>13. strayed' \in BOOLEAN /\ (strayed => strayed')
  BY <1>1, <1>2
<1> HIDE DEF m, upto
<1>14. m.cached = Opened.cached
  BY <1>10 DEF o
<1>. QED BY <1>1, <1>5, <1>10, <1>11, <1>12, <1>13, <1>14, EditKeeps

LEMMA DeleteMessagesKeeps ==
  ASSUME IndInv, NEW D, DeleteMessages(D)
  PROVE  IndInv'
<1> DEFINE o        == Opened.cached
           hist     == Opened.heap[o].hist
           Named(n) == Opened.heap[o].ids[n] \in D
           I        == {i \in DOMAIN hist : ~Named(hist[i])}
           J        == {i \in DOMAIN rows : rows[i] \notin D}
           left     == Only(hist, I)
           s        == Only(rows, J)
           m        == Holding(Opened, o, left)
<1>1. /\ Editing /\ strayed' = (strayed \/ \E n \in Elements(hist) : Named(n) # (n \in D))
      /\ Store(s, Len(left)) /\ Remember(m)
  BY DEF DeleteMessages
<1>2. Known /\ RowsOK /\ strayed \in BOOLEAN
  BY <1>1, PartsAre DEF Editing, CountsOK
<1>3. Opened \in Memories /\ o \in Objs /\ Told(said, Opened)
  BY <1>2, OpenedIs DEF IndInv
<1>4. hist \in Seq(Messages) /\ StoryOf(said, hist) /\ I \subseteq DOMAIN hist
  BY <1>3 DEF Memories, Objects, Told
<1>5. rows \in Seq(Messages) /\ StoryOf(said, rows) /\ J \subseteq DOMAIN rows
  BY <1>2 DEF RowsOK
<1>6. strayed' \in BOOLEAN /\ (strayed => strayed')
      /\ (~strayed' => \A i \in DOMAIN hist : Named(hist[i]) = (hist[i] \in D))
  <2>1. (\E n \in Elements(hist) : Named(n) # (n \in D)) \in BOOLEAN
    OBVIOUS
  <2>2. \A i \in DOMAIN hist : hist[i] \in Elements(hist)
    BY DEF Elements
  <2> HIDE DEF hist, Named
  <2>. QED BY <1>1, <1>2, <2>1, <2>2
<1>7. ~strayed' /\ hist = rows => I = J
  BY <1>6
<1> HIDE DEF o, hist, I, J
<1>8. left \in Seq(Messages) /\ Len(left) \in Nat /\ StoryOf(said, left)
  BY <1>4, OnlyIs, StoryOnly
<1>9. s \in Seq(Messages) /\ StoryOf(said, s)
  BY <1>5, OnlyIs, StoryOnly
<1>10. ~strayed' /\ hist = rows => left = s
  BY <1>7
<1> HIDE DEF left, s
<1>11. Live => hist = rows
  BY OpenedLive DEF hist, o
<1>12. Writable /\ ~strayed' => left = s
  BY <1>6, <1>10, <1>11 DEF Writable, Live, Gone
<1>13. Writable /\ ~strayed' => Len(left) >= Len(s) /\ (s = <<>> => Len(left) = 0)
  BY <1>8, <1>9, <1>12
<1>14. Changed(Opened, o, left, m) /\ m.heap[o].count = Len(left)
  BY <1>3, <1>8, HoldingIs
<1> HIDE DEF m
<1>15. m \in Memories /\ Told(said, m) /\ m.cached = Opened.cached
  BY <1>3, <1>8, <1>14, ChangedIsTold DEF Changed
<1>16. Live /\ Writable /\ ~strayed' =>
         m.heap[m.cached].hist = s /\ (s = <<>> => m.heap[m.cached].count = 0)
  BY <1>12, <1>13, <1>14, <1>15 DEF Changed, o
<1>. QED BY <1>1, <1>6, <1>8, <1>9, <1>13, <1>15, <1>16, EditKeeps

\* A sequence with answers has a last one.
LEMMA LastAnswerIs ==
  ASSUME NEW s \in Seq(Messages), Answers(s) # {}
  PROVE  LastAnswer(s) \in DOMAIN s /\ \A j \in Answers(s) : j <= LastAnswer(s)
<1> DEFINE T == {Len(s) - i : i \in Answers(s)}
<1>1. Len(s) \in Nat /\ \A i \in Answers(s) : i \in DOMAIN s /\ i \in Nat /\ i <= Len(s)
  BY DEF Answers
<1>2. T \in SUBSET Nat /\ T # {}
  BY <1>1
<1> HIDE DEF T
<1>3. PICK x \in T : \A y \in T : x <= y
  BY <1>2, Least
<1>4. PICK i \in Answers(s) : x = Len(s) - i
  BY <1>3 DEF T
<1>5. \A j \in Answers(s) : j <= i
  <2> TAKE j \in Answers(s)
  <2>1. Len(s) - i <= Len(s) - j
    BY <1>3, <1>4 DEF T
  <2>. QED BY <2>1, <1>1
<1>6. LastAnswer(s) \in Answers(s) /\ \A j \in Answers(s) : j <= LastAnswer(s)
  BY <1>5 DEF LastAnswer
<1>. QED BY <1>1, <1>6

\* Merging leaves the first of the two answers.
LEMMA MergedIs ==
  ASSUME NEW s \in Seq(Messages), Cardinality(Answers(s)) >= 2, NEW prompt \in BOOLEAN
  PROVE  /\ Merged(s, prompt) \in Seq(Messages) /\ Merged(s, prompt) # <<>>
         /\ Len(Merged(s, prompt)) <= Len(s)
         /\ StoryOf(said, s) => StoryOf(said, Merged(s, prompt))
         /\ LastTwo(s)[1] \in DOMAIN s /\ LastTwo(s)[2] \in DOMAIN s
<1> DEFINE last  == LastAnswer(s)
           asked == prompt /\ said[s[last - 1]] = "user"
           I     == DOMAIN s \ ({last} \cup IF asked THEN {last - 1} ELSE {})
<1>1. Merged(s, prompt) = Only(s, I)
  BY DEF Merged
<1>2. IsFiniteSet(Answers(s))
  <2>1. DOMAIN s = 1..Len(s) /\ 1 \in Int /\ Len(s) \in Int
    OBVIOUS
  <2>2. IsFiniteSet(1..Len(s)) /\ Answers(s) \subseteq 1..Len(s)
    BY <2>1, FS_Interval DEF Answers
  <2>. QED BY <2>2, FS_Subset
<1>3. Answers(s) # {}
  <2>1. Cardinality({}) = 0
    BY FS_EmptySet
  <2>2. ~(0 >= 2)
    OBVIOUS
  <2>. QED BY <2>1, <2>2
<1>4. last \in DOMAIN s /\ \A j \in Answers(s) : j <= last
  BY <1>3, LastAnswerIs
<1>5. PICK i \in Answers(s) : i # last
  <2>1. ASSUME \A j \in Answers(s) : j = last PROVE FALSE
    <3>1. Answers(s) = {last}
      BY <1>3, <2>1
    <3>2. Cardinality({last}) = 1
      BY FS_Singleton
    <3>. QED BY <3>1, <3>2
  <2>. QED BY <2>1
<1>6. i \in I
  BY <1>5 DEF Answers
<1>7. LastTwo(s)[1] \in DOMAIN s /\ LastTwo(s)[2] \in DOMAIN s
  <2> DEFINE q == SubSeq(s, 1, last - 1)

         <2>1. /\ i \in DOMAIN s /\ said[s[i]] = "assistant" /\ i < last
        /\ last \in 1..Len(s) /\ Len(s) \in Nat
    BY <1>4, <1>5 DEF Answers
  <2>2. q \in Seq(Messages) /\ DOMAIN q = 1..(last - 1) /\ \A k \in 1..(last - 1) : q[k] = s[k]
    BY <2>1
  <2>3. i \in 1..(last - 1) /\ DOMAIN q \subseteq DOMAIN s
    BY <2>1, <2>2
  <2> HIDE DEF q
  <2>4. i \in Answers(q)
    BY <2>1, <2>2, <2>3 DEF Answers
  <2>5. LastAnswer(q) \in DOMAIN s
    BY <2>2, <2>3, <2>4, LastAnswerIs
  <2>6. LastTwo(s) = <<LastAnswer(q), last>>
    BY DEF LastTwo, q
  <2>. QED BY <1>4, <2>5, <2>6
<1> HIDE DEF I
<1>8. I \subseteq DOMAIN s
  BY DEF I
<1>. QED BY <1>1, <1>6, <1>7, <1>8, OnlyIs, StoryOnly

LEMMA MergeLastKeeps ==
  ASSUME IndInv, NEW prompt \in BOOLEAN, MergeLast(prompt)
  PROVE  IndInv'
<1> DEFINE o    == Opened.cached
           hist == Opened.heap[o].hist
           ids  == Opened.heap[o].ids
           a    == LastTwo(hist)[1]
           b    == LastTwo(hist)[2]
           h    == Merged(hist, prompt)
           both == Cardinality(Answers(rows)) >= 2
           s    == IF both THEN Merged(rows, prompt) ELSE rows
           with == [ids EXCEPT ![hist[a]] = ids[hist[b]]]
           cut  == [Opened EXCEPT !.heap[o].hist = h]
           m    == [Opened EXCEPT !.heap[o].hist = h, !.heap[o].ids = with]
<1>1. /\ Editing /\ strayed' = strayed /\ Cardinality(Answers(hist)) >= 2
      /\ IF both THEN Store(s, row) ELSE UNCHANGED <<rows, row>>
      /\ Remember(m)
  BY DEF MergeLast
<1>2. Known /\ RowsOK /\ strayed' \in BOOLEAN
  BY <1>1, PartsAre DEF Editing, CountsOK
<1>3. Opened \in Memories /\ o \in Objs /\ Told(said, Opened)
  BY <1>2, OpenedIs DEF IndInv
<1>4. hist \in Seq(Messages) /\ StoryOf(said, hist) /\ ids \in [Messages -> 0..MaxMessages]
  BY <1>3 DEF Memories, Objects, Told
<1>5. h \in Seq(Messages) /\ StoryOf(said, h) /\ a \in DOMAIN hist /\ b \in DOMAIN hist
  <2> HIDE DEF hist
  <2>. QED BY <1>1, <1>4, MergedIs
<1>6. with \in [Messages -> 0..MaxMessages]
  <2>1. hist[a] \in Messages /\ hist[b] \in Messages
    <3> HIDE DEF hist, a, b
    <3>. QED BY <1>4, <1>5
  <2> HIDE DEF hist, a, b, ids
  <2>. QED BY <1>4, <2>1
<1>7. m = [cut EXCEPT !.heap[o].ids = with]
  <2> HIDE DEF h, with, o
  <2>. QED BY <1>3 DEF Memories, Objects
<1> HIDE DEF h, with, m
<1>8. Changed(Opened, o, h, cut) /\ cut.heap[o].count = Opened.heap[o].count
  BY <1>3, <1>5, HistoryIs
<1> HIDE DEF cut
<1>9. cut \in Memories /\ Told(said, cut)
  BY <1>3, <1>5, <1>8, ChangedIsTold DEF Changed
<1>10. Changed(cut, o, cut.heap[o].hist, m) /\ m.heap[o].count = cut.heap[o].count
  BY <1>3, <1>6, <1>7, <1>9, IdsAre
<1>11. m \in Memories /\ m.cached = Opened.cached /\ m.heap[o].hist = h /\ Told(said, m)
  BY <1>3, <1>5, <1>8, <1>9, <1>10, ChangedIsTold DEF Changed
<1>12. rows \in Seq(Messages) /\ StoryOf(said, rows)
  BY <1>2 DEF RowsOK
<1>13. /\ s \in Seq(Messages) /\ StoryOf(said, s) /\ Len(s) <= Len(rows)
       /\ both => s # <<>>
  BY <1>12, MergedIs
<1>14. Live => hist = rows
  BY OpenedLive
<1>15. Live => both /\ h = s
  BY <1>1, <1>14 DEF h
<1>16. Writable /\ ~strayed' => Live
  BY <1>1 DEF Writable, Live, Gone
<1> HIDE DEF s
<1>17. CASE row \in Nat /\ both
  <2>1. Store(s, row)
    BY <1>1, <1>17
  <2>2. Writable /\ ~strayed' => row >= Len(s) /\ (s = <<>> => row = 0)
    <3>1. Writable /\ ~strayed' => row >= Len(rows)
      BY <1>1, <1>2 DEF RowsOK, Counted, Writable, Gone
    <3>2. Len(rows) \in Nat /\ Len(s) \in Nat
      BY <1>12, <1>13
    <3>. QED BY <1>13, <1>17, <3>1, <3>2
  <2>3. Live /\ Writable /\ ~strayed' =>
          m.heap[m.cached].hist = s /\ (s = <<>> => m.heap[m.cached].count = 0)
    BY <1>11, <1>13, <1>15 DEF o
  <2>4. strayed => strayed'
    BY <1>1
  <2> HIDE DEF both
  <2>. QED BY <1>1, <1>2, <1>11, <1>13, <1>17, <2>1, <2>2, <2>3, <2>4, EditKeeps
<1>18. CASE ~(row \in Nat /\ both)
  <2>1. rows' = rows /\ row' = row
    <3>1. CASE ~both
      BY <1>1, <3>1
    <3>2. CASE both /\ row = None
      BY <1>1, <3>2 DEF Store, Writable
    <3>. QED BY <1>2, <1>18, <3>1, <3>2 DEF RowsOK
  <2>2. ~Live
    BY <1>2, <1>15, <1>18 DEF RowsOK, Live, Gone
  <2>3. /\ UNCHANGED <<deleting, turn, compaction, said, reader, crashes>>
        /\ SaidOK' /\ TurnsOK' /\ CopyOK' /\ CountsOK'
    BY <1>1, <1>2, EditingIs
  <2>4. RowsOK' /\ ~Live' /\ Told(said', m)
    BY <1>1, <1>2, <1>11, <2>1, <2>2, <2>3 DEF RowsOK, Counted, Gone, Live
  <2>. QED BY <1>1, <1>11, <2>3, <2>4, Assembles
<1>. QED BY <1>17, <1>18

-----------------------------------------------------------------------------
(* Deletion and restart.                                                     *)

LEMMA DeleteBeginsKeeps ==
  ASSUME IndInv, DeleteBegins
  PROVE  IndInv'
<1> DEFINE m == [Memory EXCEPT !.cached = None]
<1>1. /\ deleting' = ~Gone /\ Remember(m) /\ Untold /\ UNCHANGED <<turn, compaction, reader,
                                                                   crashes>>
  BY DEF DeleteBegins, Untold
<1>2. SaidOK /\ RowsOK /\ CopyOK /\ CountsOK /\ TurnsOK
  BY PartsAre
<1>3. m \in Memories /\ Told(said', m)
  BY <1>1, MemoryIs DEF IndInv, Memories, Told, Untold
<1>4. deleting' \in BOOLEAN
  BY <1>1
<1>5. CopyOK' /\ CountsOK' /\ TurnsOK' /\ SaidOK' /\ RowsOK'
  BY <1>1, <1>2, <1>4, UntoldKeeps DEF CountsOK, TurnsOK
<1>6. ~Live'
  BY <1>1 DEF Live, Gone, Untold
<1> HIDE DEF m
<1>. QED BY <1>1, <1>3, <1>5, <1>6, Assembles

LEMMA DeleteCommitsKeeps ==
  ASSUME IndInv, DeleteCommits
  PROVE  IndInv'
<1>1. /\ deleting' = FALSE /\ row' = None /\ rows' = <<>>
      /\ UNCHANGED <<cached, heap, turn, compaction, said, strayed, edits, reader, crashes>>
  BY DEF DeleteCommits
<1>2. TypeOK'
  <2>1. row' \in Nat \cup {None} /\ rows' \in Seq(Messages) /\ deleting' \in BOOLEAN
    <3>1. row' = None /\ rows' = <<>> /\ deleting' = FALSE
      BY <1>1
    <3>2. row' \in Nat \cup {None} /\ rows' \in Seq(Messages)
      BY <3>1
    <3>3. deleting' \in BOOLEAN
      BY <3>1, Zenon
    <3>. QED BY <3>2, <3>3
  <2>2. said' \in Seq(Roles) /\ Len(said') <= MaxMessages
    BY <1>1 DEF IndInv, TypeOK
  <2>3. /\ cached' \in Objs \cup {None} /\ heap' \in [Objs -> Objects]
        /\ turn' \in [Turns -> Stages]
    BY <1>1 DEF IndInv, TypeOK
  <2>4. \A t \in Turns : (turn'[t].obj = None) <=> (turn'[t].at = "idle")
    BY <1>1 DEF IndInv, TypeOK
  <2>5. compaction' \in [at : {"idle", "summarizing"}, recent : Seq(Messages)]
    BY <1>1 DEF IndInv, TypeOK
  <2>6. strayed' \in BOOLEAN /\ edits' \in 0..MaxEdits /\ crashes' \in 0..MaxCrashes
    BY <1>1 DEF IndInv, TypeOK
  <2>7. reader' \in [at : {"idle", "loaded"}, hist : Seq(Messages), count : Nat]
    BY <1>1 DEF IndInv, TypeOK
  <2>. QED BY <2>1, <2>2, <2>3, <2>4, <2>5, <2>6, <2>7 DEF TypeOK
<1>3. Stories'
  BY <1>1 DEF IndInv, Stories, Story, Elements, Ordered, Dialogue, Summaries
<1>4. Gone'
  BY <1>1 DEF Gone
<1>5. Agreement' /\ TurnsShareTheObject' /\ Counted' /\ Held'
  BY <1>4 DEF Agreement, TurnsShareTheObject, Counted, Held
<1>. QED BY <1>2, <1>3, <1>5 DEF IndInv

LEMMA CrashRestartKeeps ==
  ASSUME IndInv, CrashRestart
  PROVE  IndInv'
<1> DEFINE meta == CHOOSE o \in Objs : TRUE
           load == ~Gone /\ row > 0
           new  == [Blank EXCEPT !.count = row]
<1>1. /\ crashes < MaxCrashes /\ crashes' = crashes + 1 /\ deleting' = FALSE
      /\ turn' = [t \in Turns |-> Idle] /\ compaction' = Resting /\ reader' = NoThread
      /\ cached' = IF load THEN meta ELSE None
      /\ heap' = [o \in Objs |-> IF load /\ o = meta THEN new ELSE Blank]
      /\ UNCHANGED <<row, rows, said, strayed, edits>>
  BY DEF CrashRestart
<1>2. SaidOK /\ RowsOK /\ CopyOK /\ CountsOK /\ TurnsOK
  BY PartsAre
<1>3. meta \in Objs
  BY SpareIs DEF IndInv
<1>4. Blank \in Objects /\ Blank.hist = <<>>
  BY OwnIs DEF Blank, Objects
<1>5. load => new \in Objects /\ new.hist = <<>> /\ new.count = row
  <2>1. load => row \in Nat
    BY <1>2 DEF RowsOK, Gone
  <2>. QED BY <1>4, <2>1 DEF Blank, Objects
<1> HIDE DEF new, meta
<1>6. heap' \in [Objs -> Objects] /\ \A o \in Objs : heap'[o].hist = <<>>
  <2> HIDE DEF load
  <2>. QED BY <1>1, <1>4, <1>5
<1>7. \A t \in Turns : turn'[t] = Idle
  BY <1>1
<1>8. TurnsOK'
  BY <1>1, <1>7 DEF TurnsOK, Idle, Stages
<1>9. crashes' \in 0..MaxCrashes
  BY <1>1, <1>2, ConstantsAssumption DEF CountsOK
<1>10. CountsOK' /\ CopyOK' /\ SaidOK' /\ RowsOK'
  <2>1. CountsOK'
    BY <1>1, <1>2, <1>9 DEF CountsOK
  <2>2. SaidOK'
    BY <1>1, <1>2 DEF SaidOK
  <2>3. RowsOK'
    BY <1>1, <1>2 DEF RowsOK, Counted, Gone, StoryOf
  <2>4. compaction'.at = "idle" /\ compaction'.recent = <<>>
        /\ compaction' \in [at : {"idle", "summarizing"}, recent : Seq(Messages)]
    BY <1>1 DEF Resting
  <2>5. StoryOf(said', <<>>)
    BY DEF StoryOf
  <2>6. CopyOK'
    BY <1>1, <2>4, <2>5 DEF CopyOK, NoThread
  <2>. QED BY <2>1, <2>2, <2>3, <2>6
<1>11. TypeOK'
  BY <1>1, <1>3, <1>6, <1>8, <1>10 DEF TypeOK, SaidOK, RowsOK, TurnsOK, CopyOK, CountsOK
<1>12. Stories'
  BY <1>6, <1>10, StoryIsNext DEF RowsOK, CopyOK, StoryOf
<1>13. TurnsShareTheObject' /\ Held'
  BY <1>7 DEF TurnsShareTheObject, Held, Idle
<1>14. Agreement'
  <2>1. CASE ~load
    BY <1>1, <2>1 DEF Agreement
  <2>2. CASE load
    <3>1. cached' = meta /\ heap'[meta] = new
      BY <1>1, <1>3, <2>2
    <3>2. heap'[cached'].hist = <<>> /\ heap'[cached'].count > 0 /\ cached' # None
      BY <1>3, <1>5, <2>2, <3>1, ConstantsAssumption
    <3>. QED BY <3>2 DEF Agreement, Unread
  <2>. QED BY <2>1, <2>2
<1>. QED BY <1>10, <1>11, <1>12, <1>13, <1>14 DEF IndInv, RowsOK

-----------------------------------------------------------------------------
(* The theorems.                                                             *)

LEMMA InitIs == Init => IndInv
<1> SUFFICES ASSUME Init PROVE IndInv
  OBVIOUS
<1>1. Opening \in Nat /\ MaxMessages \in Nat /\ Opening <= MaxMessages /\ MaxEdits \in Nat
      /\ MaxCrashes \in Nat
  BY ConstantsAssumption
<1>2. rows \in Seq(Messages) /\ Len(rows) = Opening /\ DOMAIN rows = 1..Opening
      /\ \A i \in 1..Opening : rows[i] = i
  BY <1>1 DEF Init, Messages
<1>3. said \in Seq(Roles) /\ Len(said) = Opening /\ DOMAIN said = 1..Opening
  BY <1>1 DEF Init, Roles
<1>4. Blank \in Objects /\ Blank.hist = <<>>
  BY OwnIs DEF Blank, Objects
<1>5. StoryOf(said, rows) /\ StoryOf(said, <<>>)
  BY <1>2, <1>3 DEF StoryOf
<1>6. TypeOK
  <2>1. row \in Nat \cup {None} /\ deleting \in BOOLEAN /\ cached \in Objs \cup {None}
    BY <1>1 DEF Init
  <2>2. heap \in [Objs -> Objects]
    BY <1>4 DEF Init
  <2>3. Idle \in Stages /\ Idle.obj = None /\ Idle.at = "idle"
    BY DEF Idle, Stages
  <2>4. turn \in [Turns -> Stages]
        /\ \A t \in Turns : (turn[t].obj = None) <=> (turn[t].at = "idle")
    BY <2>3 DEF Init
  <2>5. /\ compaction \in [at : {"idle", "summarizing"}, recent : Seq(Messages)]
        /\ reader \in [at : {"idle", "loaded"}, hist : Seq(Messages), count : Nat]
    BY DEF Init, Resting, NoThread
  <2>6. strayed \in BOOLEAN /\ edits \in 0..MaxEdits /\ crashes \in 0..MaxCrashes
    <3>1. strayed = FALSE /\ edits = 0 /\ crashes = 0
      BY DEF Init
    <3>2. edits \in 0..MaxEdits /\ crashes \in 0..MaxCrashes
      BY <1>1, <3>1
    <3>3. strayed \in BOOLEAN
      BY <3>1, Zenon
    <3>. QED BY <3>2, <3>3
  <2>. QED BY <1>1, <1>2, <1>3, <2>1, <2>2, <2>4, <2>5, <2>6 DEF TypeOK
<1>7. Stories
  BY <1>4, <1>5, StoryIs DEF Stories, Init, Resting, NoThread
<1>8. Counted
  BY <1>1, <1>2 DEF Counted, Init
<1>9. Agreement /\ TurnsShareTheObject /\ Held
  BY DEF Agreement, TurnsShareTheObject, Held, Init, Idle
<1>. QED BY <1>6, <1>7, <1>8, <1>9 DEF IndInv

LEMMA NextIs == IndInv /\ [Next]_vars => IndInv'
<1> SUFFICES ASSUME IndInv, [Next]_vars PROVE IndInv'
  OBVIOUS
<1>1. CASE UNCHANGED vars
  BY <1>1 DEF vars, IndInv, TypeOK, Stories, Story, Elements, Ordered, Dialogue, Summaries,
              Agreement, TurnsShareTheObject, Counted, Held, Gone, Unread
<1>2. ASSUME NEW t \in Turns, Turning(t) PROVE IndInv'
  BY <1>2, TurnBeginsKeeps, TurnAsksKeeps, TurnStreamsKeeps, TurnCompactsKeeps,
     TurnAnswersKeeps, TurnEndsKeeps, TurnSummarizesKeeps DEF Turning
<1>3. ASSUME NEW role \in {"user", "assistant"}, AddMessage(role) PROVE IndInv'
  BY <1>3, AddMessageKeeps
<1>4. CASE Open \/ ThreadLoads \/ ThreadStores
  BY <1>4, OpenKeeps, ThreadLoadsKeeps, ThreadStoresKeeps
<1>5. ASSUME NEW keep \in 0..MaxMessages, Truncate(keep) PROVE IndInv'
  BY <1>5, TruncateKeeps
<1>6. ASSUME NEW D \in SUBSET (1..Len(said)), DeleteMessages(D) PROVE IndInv'
  BY <1>6, DeleteMessagesKeeps
<1>7. ASSUME NEW prompt \in BOOLEAN, MergeLast(prompt) PROVE IndInv'
  BY <1>7, MergeLastKeeps
<1>8. CASE CompactBegins \/ CompactEnds \/ CompactFails
  BY <1>8, CompactBeginsKeeps, CompactEndsKeeps, CompactFailsKeeps
<1>9. CASE DeleteBegins \/ DeleteCommits \/ CrashRestart
  BY <1>9, DeleteBeginsKeeps, DeleteCommitsKeeps, CrashRestartKeeps
<1>. QED BY <1>1, <1>2, <1>3, <1>4, <1>5, <1>6, <1>7, <1>8, <1>9 DEF Next

\* The inductive invariant holds: whatever is kept of the session is a story, in
\* order, of what was said, and unless a step strayed (an edit, or a thread that was
\* overtaken), the cached object has the rows, or is to read them and no turn holds it.
THEOREM Inductive == Spec => []IndInv
BY InitIs, NextIs, PTL DEF Spec

\* The variables keep their types.
THEOREM TypeCorrect == Spec => []TypeOK
<1>1. IndInv => TypeOK
  BY DEF IndInv
<1>. QED BY <1>1, Inductive, PTL

\* Whichever handlers run between the awaits of the turns, through compactions from
\* copies, a deletion in its thread and restarts, no message is repeated or out of
\* its order; and until an edit strays, or a thread that loads the session is
\* overtaken, memory and database agree and the turns hold the object all others
\* are given.
THEOREM OneStory == Spec => []Consistent
<1>1. IndInv => Consistent
  BY DEF IndInv, Consistent, Stories, Story, InOrder
<1>. QED BY <1>1, Inductive, PTL

\* The count by which a restart lists a session never misses a message, until a step
\* strays.
THEOREM NoSessionIsHidden == Spec => []CountCovers
<1>1. IndInv => CountCovers
  BY DEF IndInv, Counted, CountCovers
<1>. QED BY <1>1, Inductive, PTL
=============================================================================
