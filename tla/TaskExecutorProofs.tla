-------------------------- MODULE TaskExecutorProofs --------------------------
(***************************************************************************)
(* Theorems about TaskExecutor for any finite sets of tasks and threads    *)
(* and any intervals.  The linked list is represented by a sequence:       *)
(* appending, taking and unlinking a task are operations on that sequence, *)
(* and the tasks reachable from task_head are its elements.  The tail is   *)
(* kept apart from it, because a cancel can leave it in a deleted task.    *)
(***************************************************************************)
EXTENDS TaskExecutor, FiniteSetTheorems, SequenceTheorems,
        WellFoundedInduction, TLAPS

Elements(s) == {s[i] : i \in 1..Len(s)}
Distinct(s) == \A i, j \in 1..Len(s) : s[i] = s[j] => i = j
-----------------------------------------------------------------------------
\* A set of natural numbers has a least element.
Smaller == {p \in Nat \X Nat : p[1] < p[2]}

LEMMA SmallestNumber ==
  ASSUME NEW T \in SUBSET Nat, T # {}
  PROVE  \E x \in T : \A y \in T : x <= y
<1>1. IsWellFoundedOn(Smaller, Nat)
  BY NatLessThanWellFounded DEF OpToRel, Smaller
<1>2. PICK x \in T : \A y \in T : <<y, x>> \notin Smaller
  BY <1>1, WFMin
<1>3. ASSUME NEW y \in T PROVE x <= y
  <2>1. x \in Nat /\ y \in Nat
    OBVIOUS
  <2>2. ~(y < x)
    BY <1>2, <2>1 DEF Smaller
  <2> QED BY <2>1, <2>2
<1> QED BY <1>3

\* Sequences: an element more and an element less.
Inserted(s, i, x) == SubSeq(s, 1, i - 1) \o <<x>> \o SubSeq(s, i, Len(s))
Removed(s, i) == SubSeq(s, 1, i - 1) \o SubSeq(s, i + 1, Len(s))

LEMMA InsertedFacts ==
  ASSUME NEW S, NEW s \in Seq(S), NEW x \in S, NEW i \in 1..(Len(s) + 1)
  PROVE  LET q == Inserted(s, i, x) IN
         /\ q \in Seq(S) /\ Len(q) = Len(s) + 1
         /\ \A j \in 1..(Len(s) + 1) :
              q[j] = IF j < i THEN s[j] ELSE IF j = i THEN x ELSE s[j - 1]
<1> DEFINE a == SubSeq(s, 1, i - 1)
           b == SubSeq(s, i, Len(s))
           c == a \o <<x>>
<1>1. /\ Len(s) \in Nat /\ i \in Int /\ i - 1 \in Int
      /\ \A j \in 1..Len(s) : s[j] \in S
  BY ElementOfSeq
<1>2. /\ a \in Seq(S) /\ Len(a) = i - 1
      /\ \A j \in 1..(i - 1) : a[j] = s[j]
  <2>1. \A j \in 1..(i - 1) : s[j] \in S
    BY <1>1
  <2>2. /\ a \in Seq(S) /\ Len(a) = IF 1 <= i - 1 THEN (i - 1) - 1 + 1 ELSE 0
        /\ \A j \in 1..((i - 1) - 1 + 1) : a[j] = s[1 + j - 1]
    BY <1>1, <2>1, SubSeqProperties
  <2> QED BY <1>1, <2>2
<1>3. /\ b \in Seq(S) /\ Len(b) = Len(s) - i + 1
      /\ \A j \in 1..(Len(s) - i + 1) : b[j] = s[i + j - 1]
  <2>1. \A j \in i..Len(s) : s[j] \in S
    BY <1>1
  <2>2. /\ b \in Seq(S) /\ Len(b) = IF i <= Len(s) THEN Len(s) - i + 1 ELSE 0
        /\ \A j \in 1..(Len(s) - i + 1) : b[j] = s[i + j - 1]
    BY <1>1, <2>1, SubSeqProperties
  <2> QED BY <1>1, <2>2
<1> HIDE DEF a, b
<1>4. <<x>> \in Seq(S) /\ Len(<<x>>) = 1 /\ <<x>>[1] = x
  OBVIOUS
<1>5. /\ c \in Seq(S) /\ Len(c) = i
      /\ \A j \in 1..i : c[j] = IF j <= i - 1 THEN a[j] ELSE <<x>>[j - (i - 1)]
  BY <1>1, <1>2, <1>4, ConcatProperties
<1>6. \A j \in 1..i : c[j] = IF j < i THEN s[j] ELSE x
  BY <1>1, <1>2, <1>4, <1>5
<1> HIDE DEF c
<1>7. /\ c \o b \in Seq(S) /\ Len(c \o b) = i + (Len(s) - i + 1)
      /\ \A j \in 1..(i + (Len(s) - i + 1)) :
           (c \o b)[j] = IF j <= i THEN c[j] ELSE b[j - i]
  <2>1. /\ c \o b \in Seq(S) /\ Len(c \o b) = Len(c) + Len(b)
        /\ \A j \in 1..(Len(c) + Len(b)) :
             (c \o b)[j] = IF j <= Len(c) THEN c[j] ELSE b[j - Len(c)]
    BY <1>3, <1>5, ConcatProperties
  <2>2. Len(c) = i /\ Len(b) = Len(s) - i + 1
    BY <1>3, <1>5
  <2> QED BY ONLY <2>1, <2>2
<1>8. Inserted(s, i, x) = c \o b
  BY DEF Inserted, a, b, c
<1>9. i + (Len(s) - i + 1) = Len(s) + 1
  BY <1>1
<1>10. ASSUME NEW j \in 1..(Len(s) + 1), j > i
       PROVE  b[j - i] = s[j - 1]
  <2>1. j - i \in 1..(Len(s) - i + 1) /\ i + (j - i) - 1 = j - 1
    BY <1>1, <1>10
  <2> QED BY <1>3, <2>1
<1> QED BY <1>1, <1>6, <1>7, <1>8, <1>9, <1>10

LEMMA RemovedFacts ==
  ASSUME NEW S, NEW s \in Seq(S), NEW i \in 1..Len(s)
  PROVE  LET q == Removed(s, i) IN
         /\ q \in Seq(S) /\ Len(q) = Len(s) - 1
         /\ \A j \in 1..(Len(s) - 1) : q[j] = IF j < i THEN s[j] ELSE s[j + 1]
<1> DEFINE a == SubSeq(s, 1, i - 1)
           b == SubSeq(s, i + 1, Len(s))
<1>1. /\ Len(s) \in Nat /\ i \in Int /\ i - 1 \in Int /\ i + 1 \in Int
      /\ \A j \in 1..Len(s) : s[j] \in S
  BY ElementOfSeq
<1>2. /\ a \in Seq(S) /\ Len(a) = i - 1
      /\ \A j \in 1..(i - 1) : a[j] = s[j]
  <2>1. \A j \in 1..(i - 1) : s[j] \in S
    BY <1>1
  <2>2. /\ a \in Seq(S) /\ Len(a) = IF 1 <= i - 1 THEN (i - 1) - 1 + 1 ELSE 0
        /\ \A j \in 1..((i - 1) - 1 + 1) : a[j] = s[1 + j - 1]
    BY <1>1, <2>1, SubSeqProperties
  <2> QED BY <1>1, <2>2
<1>3. /\ b \in Seq(S) /\ Len(b) = Len(s) - i
      /\ \A j \in 1..(Len(s) - i) : b[j] = s[i + j]
  <2>1. \A j \in (i + 1)..Len(s) : s[j] \in S
    BY <1>1
  <2>2. /\ b \in Seq(S) /\ Len(b) = IF i + 1 <= Len(s) THEN Len(s) - (i + 1) + 1 ELSE 0
        /\ \A j \in 1..(Len(s) - (i + 1) + 1) : b[j] = s[(i + 1) + j - 1]
    BY <1>1, <2>1, SubSeqProperties
  <2> QED BY <1>1, <2>2
<1> HIDE DEF a, b
<1>4. /\ a \o b \in Seq(S) /\ Len(a \o b) = (i - 1) + (Len(s) - i)
      /\ \A j \in 1..((i - 1) + (Len(s) - i)) :
           (a \o b)[j] = IF j <= i - 1 THEN a[j] ELSE b[j - (i - 1)]
  <2>1. /\ a \o b \in Seq(S) /\ Len(a \o b) = Len(a) + Len(b)
        /\ \A j \in 1..(Len(a) + Len(b)) :
             (a \o b)[j] = IF j <= Len(a) THEN a[j] ELSE b[j - Len(a)]
    BY <1>2, <1>3, ConcatProperties
  <2>2. Len(a) = i - 1 /\ Len(b) = Len(s) - i
    BY <1>2, <1>3
  <2> QED BY ONLY <2>1, <2>2
<1>5. Removed(s, i) = a \o b
  BY DEF Removed, a, b
<1>6. (i - 1) + (Len(s) - i) = Len(s) - 1
  BY <1>1
<1>7. ASSUME NEW j \in 1..(Len(s) - 1), ~(j < i)
      PROVE  b[j - (i - 1)] = s[j + 1]
  <2>1. j - (i - 1) \in 1..(Len(s) - i) /\ i + (j - (i - 1)) = j + 1
    BY <1>1, <1>7
  <2> QED BY <1>3, <2>1
<1> QED BY <1>1, <1>2, <1>4, <1>5, <1>6, <1>7

LEMMA InsertedElements ==
  ASSUME NEW S, NEW s \in Seq(S), NEW x \in S, NEW i \in 1..(Len(s) + 1)
  PROVE  LET q == Inserted(s, i, x) IN
         /\ Elements(q) = Elements(s) \cup {x}
         /\ Distinct(s) /\ x \notin Elements(s) => Distinct(q)
<1> DEFINE q == Inserted(s, i, x)
<1>1. /\ q \in Seq(S) /\ Len(q) = Len(s) + 1 /\ Len(s) \in Nat
      /\ \A j \in 1..(Len(s) + 1) :
           q[j] = IF j < i THEN s[j] ELSE IF j = i THEN x ELSE s[j - 1]
  BY InsertedFacts
<1> HIDE DEF q
<1>2. Elements(q) = Elements(s) \cup {x}
  <2>1. ASSUME NEW y \in Elements(q) PROVE y \in Elements(s) \cup {x}
    BY <1>1 DEF Elements
  <2>2. ASSUME NEW j \in 1..Len(s) PROVE s[j] \in Elements(q)
    <3>1. CASE j < i
      BY <1>1, <3>1 DEF Elements
    <3>2. CASE ~(j < i)
      <4>1. j + 1 \in 1..Len(q) /\ q[j + 1] = s[j]
        BY <1>1, <3>2
      <4> QED BY <4>1 DEF Elements
    <3> QED BY <3>1, <3>2
  <2>3. x \in Elements(q)
    BY <1>1 DEF Elements
  <2> QED BY <2>1, <2>2, <2>3 DEF Elements
<1>3. ASSUME Distinct(s), x \notin Elements(s) PROVE Distinct(q)
  <2> SUFFICES ASSUME NEW j \in 1..Len(q), NEW k \in 1..Len(q), q[j] = q[k]
               PROVE  j = k
    BY DEF Distinct
  <2>1. \A l \in 1..Len(s) : s[l] # x
    BY <1>3 DEF Elements
  <2>2. j \in 1..(Len(s) + 1) /\ k \in 1..(Len(s) + 1)
    BY <1>1
  <2>3. /\ j < i => j \in 1..Len(s)
        /\ k < i => k \in 1..Len(s)
        /\ j > i => j - 1 \in 1..Len(s)
        /\ k > i => k - 1 \in 1..Len(s)
    BY <1>1, <2>2
  <2> DEFINE J == IF j < i THEN j ELSE j - 1
             K == IF k < i THEN k ELSE k - 1
  <2>4. /\ j # i => J \in 1..Len(s) /\ q[j] = s[J]
        /\ k # i => K \in 1..Len(s) /\ q[k] = s[K]
    BY <1>1, <2>2, <2>3
  <2>5. CASE j = i \/ k = i
    BY <1>1, <2>1, <2>2, <2>4, <2>5
  <2>6. CASE j # i /\ k # i
    <3>1. J = K
      BY <1>3, <2>4, <2>6 DEF Distinct
    <3> QED BY <1>1, <2>2, <2>6, <3>1
  <2> QED BY <2>5, <2>6
<1> QED BY <1>2, <1>3 DEF q

LEMMA RemovedElements ==
  ASSUME NEW S, NEW s \in Seq(S), NEW i \in 1..Len(s), Distinct(s)
  PROVE  LET q == Removed(s, i) IN
         /\ Elements(q) = Elements(s) \ {s[i]}
         /\ Distinct(q)
<1> DEFINE q == Removed(s, i)
<1>1. /\ q \in Seq(S) /\ Len(q) = Len(s) - 1 /\ Len(s) \in Nat
      /\ \A j \in 1..(Len(s) - 1) : q[j] = IF j < i THEN s[j] ELSE s[j + 1]
  BY RemovedFacts
<1> HIDE DEF q
<1>2. \A j \in 1..Len(q) : /\ j < i => q[j] = s[j] /\ j \in 1..Len(s)
                           /\ ~(j < i) => q[j] = s[j + 1] /\ j + 1 \in 1..Len(s)
  BY <1>1
<1>3. ASSUME NEW y \in Elements(q) PROVE y \in Elements(s) \ {s[i]}
  <2>1. PICK j \in 1..Len(q) : y = q[j]
    BY DEF Elements
  <2> QED BY <1>2, <2>1 DEF Elements, Distinct
<1>4. ASSUME NEW j \in 1..Len(s), s[j] # s[i] PROVE s[j] \in Elements(q)
  <2>1. CASE j < i
    <3>1. j \in 1..Len(q) /\ q[j] = s[j]
      BY <1>1, <2>1
    <3> QED BY <3>1 DEF Elements
  <2>2. CASE j > i
    <3>1. j - 1 \in 1..Len(q) /\ q[j - 1] = s[j]
      BY <1>1, <2>2
    <3> QED BY <3>1 DEF Elements
  <2> QED BY <1>1, <1>4, <2>1, <2>2
<1>5. Distinct(q)
  BY <1>1, <1>2 DEF Distinct
<1>6. \A y \in Elements(s) \ {s[i]} : y \in Elements(q)
  BY <1>4 DEF Elements
<1> QED BY <1>3, <1>5, <1>6 DEF q

\* As many elements as positions.
LEMMA ElementsCount ==
  ASSUME NEW S, NEW s \in Seq(S), Distinct(s)
  PROVE  IsFiniteSet(Elements(s)) /\ Cardinality(Elements(s)) = Len(s)
<1>1. Len(s) \in Nat /\ DOMAIN s = 1..Len(s)
  OBVIOUS
<1>2. IsFiniteSet(1..Len(s)) /\ Cardinality(1..Len(s)) = Len(s)
  BY <1>1, FS_Interval
<1>3. s \in [1..Len(s) -> Elements(s)]
  BY <1>1 DEF Elements
<1>4. s \in Injection(1..Len(s), Elements(s))
  BY <1>1, <1>3 DEF Distinct, Injection, IsInjective
<1>5. s \in Surjection(1..Len(s), Elements(s))
  BY <1>3 DEF Elements, Surjection
<1>6. ExistsBijection(1..Len(s), Elements(s))
  BY <1>4, <1>5 DEF ExistsBijection, Bijection
<1> QED BY <1>2, <1>6, FS_Bijection
-----------------------------------------------------------------------------
\* The list of pending tasks.  At(q, i) is the location or the content after
\* i links from task_head.
At(q, i) == IF i = 0 THEN task_head ELSE IF i <= Len(q) THEN q[i] ELSE Null

Links == [Locations -> Tasks \cup {Null}]

\* Content nx of the locations represents the list q.
ListIs(q, nx) ==
  /\ q \in Seq(Tasks) /\ Distinct(q)
  /\ \A i \in 0..Len(q) : nx[At(q, i)] = At(q, i + 1)

LEMMA LocationFacts ==
  /\ task_head \notin Tasks /\ Null \notin Tasks /\ Null # task_head
  /\ Tasks \cap Recurring = {}
BY ExecutorAssumption DEF AllTasks

LEMMA AtFacts ==
  ASSUME NEW q \in Seq(Tasks)
  PROVE  /\ Len(q) \in Nat
         /\ \A i \in 1..Len(q) : At(q, i) = q[i] /\ q[i] \in Tasks
         /\ \A i \in 0..Len(q) : At(q, i) \in Locations
         /\ At(q, 0) = task_head
         /\ At(q, Len(q) + 1) = Null
         /\ Distinct(q) => \A i, j \in 0..Len(q) : At(q, i) = At(q, j) => i = j
<1>1. /\ Len(q) \in Nat
      /\ \A i \in 1..Len(q) : At(q, i) = q[i] /\ q[i] \in Tasks
      /\ At(q, 0) = task_head /\ At(q, Len(q) + 1) = Null
  BY DEF At
<1>2. \A i \in 0..Len(q) : i = 0 \/ i \in 1..Len(q)
  BY <1>1
<1>3. \A i \in 0..Len(q) : At(q, i) \in Locations
  BY <1>1, <1>2 DEF Locations
<1>4. ASSUME Distinct(q), NEW i \in 0..Len(q), NEW j \in 0..Len(q), At(q, i) = At(q, j)
      PROVE  i = j
  BY <1>1, <1>2, <1>4, LocationFacts DEF Distinct
<1> QED BY <1>1, <1>3, <1>4

LEMMA PendingIs ==
  ASSUME NEW q, ListIs(q, next)
  PROVE  Pending = Elements(q)
<1> USE DEF ListIs
<1>1. Elements(q) \in SUBSET Tasks
  BY AtFacts DEF Elements
<1>2. Linked(Elements(q))
  <2> SUFFICES ASSUME NEW l \in Elements(q) \cup {task_head}
               PROVE  next[l] \in Elements(q) \cup {Null}
    BY DEF Linked
  <2>1. PICK i \in 0..Len(q) : l = At(q, i)
    BY AtFacts DEF Elements
  <2>2. next[l] = At(q, i + 1)
    BY <2>1
  <2>3. i + 1 \in 1..Len(q) \/ i + 1 = Len(q) + 1
    BY AtFacts
  <2> QED BY <2>2, <2>3, AtFacts DEF Elements
<1>3. ASSUME NEW S \in SUBSET Tasks, Linked(S), NEW k \in 1..Len(q), q[k] \notin S
      PROVE  FALSE
  <2> DEFINE Out == {i \in 1..Len(q) : q[i] \notin S}
  <2>1. Out \in SUBSET Nat /\ Out # {}
    BY <1>3, AtFacts
  <2> HIDE DEF Out
  <2>2. PICK i \in Out : \A j \in Out : i <= j
    BY <2>1, SmallestNumber
  <2>3. i \in 1..Len(q) /\ q[i] \notin S /\ Len(q) \in Nat
    BY AtFacts DEF Out
  <2>4. i - 1 \in 0..Len(q) /\ (i - 1) + 1 = i
    BY <2>3
  <2>5. i - 1 \notin Out
    BY <2>2, <2>3, <2>4
  <2>6. At(q, i - 1) \in S \cup {task_head}
    BY <2>3, <2>4, <2>5, AtFacts DEF Out
  <2>7. next[At(q, i - 1)] = q[i]
    BY <2>3, <2>4, AtFacts
  <2> QED BY <1>3, <2>3, <2>6, <2>7, AtFacts, LocationFacts DEF Linked
<1> QED BY <1>1, <1>2, <1>3 DEF Pending, Elements

LEMMA ListAppended ==
  ASSUME NEW q, NEW nx \in Links, ListIs(q, nx), NEW tail, tail = At(q, Len(q)),
         NEW t \in Tasks, t \notin Elements(q), nx[t] = Null
  PROVE  /\ ListIs(Append(q, t), [nx EXCEPT ![tail] = t])
         /\ Elements(Append(q, t)) = Elements(q) \cup {t}
<1> DEFINE p == Append(q, t)
           my == [nx EXCEPT ![tail] = t]
<1>1. /\ p \in Seq(Tasks) /\ Len(p) = Len(q) + 1 /\ Len(q) \in Nat
      /\ \A i \in 1..Len(q) : p[i] = q[i]
      /\ p[Len(q) + 1] = t
  BY DEF ListIs
<1> HIDE DEF p
<1>2. \A i \in 1..Len(p) : i \in 1..Len(q) \/ i = Len(q) + 1
  BY <1>1
<1>3. Distinct(p)
  BY <1>1, <1>2 DEF Distinct, Elements, ListIs
<1>4. Elements(p) = Elements(q) \cup {t}
  BY <1>1, <1>2 DEF Elements
<1>5. /\ \A i \in 0..Len(q) : At(p, i) = At(q, i)
      /\ At(p, Len(q) + 1) = t /\ At(p, Len(q) + 2) = Null
  BY <1>1 DEF At
<1>6. tail \in Locations /\ tail = At(q, Len(q)) /\ t \in Locations /\ t # tail
  BY <1>1, AtFacts, LocationFacts DEF ListIs, Locations, Elements
<1>7. \A l \in Locations : my[l] = IF l = tail THEN t ELSE nx[l]
  BY <1>6 DEF Links
<1> HIDE DEF my
<1>8. ASSUME NEW i \in 0..Len(p) PROVE my[At(p, i)] = At(p, i + 1)
  <2>1. CASE i = Len(q) + 1
    BY <1>5, <1>6, <1>7, <2>1, <1>1
  <2>2. CASE i = Len(q)
    BY <1>1, <1>5, <1>6, <1>7, <2>2
  <2>3. CASE i \in 0..(Len(q) - 1)
    <3>1. /\ i \in 0..Len(q) /\ Len(q) \in 0..Len(q) /\ i # Len(q)
          /\ i + 1 \in 0..Len(q)
      BY <1>1, <2>3
    <3>2. At(q, i) \in Locations /\ At(q, i) # tail
      BY <1>6, <3>1, AtFacts DEF ListIs
    <3> QED BY <1>5, <1>7, <3>1, <3>2 DEF ListIs
  <2> QED BY <1>1, <2>1, <2>2, <2>3
<1> QED BY <1>1, <1>3, <1>4, <1>8 DEF ListIs, p, my

\* A write outside the list does not change it.
LEMMA ListAside ==
  ASSUME NEW q, NEW nx \in Links, ListIs(q, nx),
         NEW l \in Locations, l \notin Elements(q) \cup {task_head}, NEW x
  PROVE  ListIs(q, [nx EXCEPT ![l] = x])
<1>1. q \in Seq(Tasks) /\ Distinct(q) /\ Len(q) \in Nat
  BY DEF ListIs
<1>2. ASSUME NEW i \in 0..Len(q) PROVE [nx EXCEPT ![l] = x][At(q, i)] = At(q, i + 1)
  <2>1. i = 0 \/ i \in 1..Len(q)
    BY <1>1
  <2>2. At(q, i) \in Locations /\ At(q, i) # l
    BY <1>1, <2>1, AtFacts DEF Elements
  <2> QED BY <2>2 DEF Links, ListIs
<1> QED BY <1>1, <1>2 DEF ListIs

\* Only the end of the list holds the null pointer.
LEMMA EndIs ==
  ASSUME NEW q, NEW nx, ListIs(q, nx), NEW l \in Elements(q) \cup {task_head}, nx[l] = Null
  PROVE  l = At(q, Len(q))
<1>1. q \in Seq(Tasks) /\ Len(q) \in Nat
  BY DEF ListIs
<1>2. PICK i \in 0..Len(q) : l = At(q, i)
  BY <1>1, AtFacts DEF Elements
<1>3. At(q, i + 1) = Null
  BY <1>2 DEF ListIs
<1>4. i + 1 \notin 1..Len(q)
  BY <1>1, <1>3, AtFacts, LocationFacts
<1>5. i = Len(q)
  BY <1>1, <1>4
<1> QED BY <1>2, <1>5

LEMMA ListRemoved ==
  ASSUME NEW q, NEW nx \in Links, ListIs(q, nx), NEW i \in 1..Len(q)
  PROVE  /\ ListIs(Removed(q, i), [nx EXCEPT ![At(q, i - 1)] = nx[q[i]]])
         /\ Elements(Removed(q, i)) = Elements(q) \ {q[i]}
         /\ Len(Removed(q, i)) = Len(q) - 1
<1> DEFINE p == Removed(q, i)
           my == [nx EXCEPT ![At(q, i - 1)] = nx[q[i]]]
<1>0. q \in Seq(Tasks) /\ Distinct(q) /\ Len(q) \in Nat
  BY DEF ListIs
<1>1. /\ p \in Seq(Tasks) /\ Len(p) = Len(q) - 1
      /\ \A j \in 1..(Len(q) - 1) : p[j] = IF j < i THEN q[j] ELSE q[j + 1]
  BY <1>0, RemovedFacts
<1>2. Elements(p) = Elements(q) \ {q[i]} /\ Distinct(p)
  BY <1>0, RemovedElements
<1> HIDE DEF p
<1>3. \A j \in 0..Len(q) : At(p, j) = IF j < i THEN At(q, j) ELSE At(q, j + 1)
  BY <1>0, <1>1 DEF At
<1>4. /\ i - 1 \in 0..Len(q) /\ i \in 0..Len(q) /\ (i - 1) + 1 = i
      /\ At(q, i) = q[i]
  BY <1>0, AtFacts
<1>5. At(q, i - 1) \in Locations /\ nx[q[i]] = At(q, i + 1)
  BY <1>0, <1>4, AtFacts DEF ListIs
<1>6. \A l \in Locations : my[l] = IF l = At(q, i - 1) THEN At(q, i + 1) ELSE nx[l]
  BY <1>5 DEF Links
<1> HIDE DEF my
<1>7. ASSUME NEW j \in 0..Len(p) PROVE my[At(p, j)] = At(p, j + 1)
  <2>0. j \in 0..Len(q) /\ j + 1 \in 0..Len(q)
    BY <1>0, <1>1
  <2>1. CASE j < i - 1
    <3>1. At(q, j) \in Locations /\ At(q, j) # At(q, i - 1)
      BY <1>0, <1>4, <2>0, <2>1, AtFacts
    <3>2. At(p, j) = At(q, j) /\ At(p, j + 1) = At(q, j + 1)
      BY <1>3, <2>0, <2>1
    <3> QED BY <1>6, <2>0, <3>1, <3>2 DEF ListIs
  <2>2. CASE j = i - 1
    <3>1. At(p, j) = At(q, i - 1) /\ At(p, j + 1) = At(q, i + 1)
      BY <1>3, <2>0, <2>2
    <3> QED BY <1>5, <1>6, <3>1
  <2>3. CASE j >= i
    <3>1. At(p, j) = At(q, j + 1) /\ At(p, j + 1) = At(q, (j + 1) + 1)
      BY <1>3, <2>0, <2>3
    <3>2. At(q, j + 1) \in Locations /\ At(q, j + 1) # At(q, i - 1)
      BY <1>0, <1>4, <2>0, <2>3, AtFacts
    <3> QED BY <1>6, <2>0, <3>1, <3>2 DEF ListIs
  <2> QED BY <1>0, <2>0, <2>1, <2>2, <2>3
<1> QED BY <1>1, <1>2, <1>7 DEF ListIs, p, my
-----------------------------------------------------------------------------
\* The inductive invariant.
ListPart == \E q : ListIs(q, next)

\* Where the tail is, and what is counted.
TailPart ==
  /\ next[task_tail] = Null
  /\ Pending = {} => task_tail = task_head
  /\ \/ task_tail \in Pending \cup {task_head} \cup lost
     \/ task_tail \in Tasks /\ life[task_tail] = "deleted"
  /\ Pending \cap lost = {}
  /\ ~destroyed => task_count = Cardinality(Pending \cup lost)

RecurringPart ==
  /\ Distinct(recurring)
  /\ \A i, j \in 1..Len(recurring) :
       i < j => wait[recurring[i]] <= wait[recurring[j]]

PlacePart ==
  /\ \A t \in AllTasks :
       life[t] = "live" <=> t \in Pending \cup PendingRecurring \cup lost \/ Running(t)
  /\ \A t \in Pending \cup PendingRecurring \cup lost : ~Running(t)
  /\ \A e, f \in Threads : executing[e] = executing[f] /\ e # f => executing[e] = Null
  /\ \A t \in Tasks : life[t] = "unborn" => next[t] = Null
  /\ \A t \in AllTasks : canceled[t] => Running(t)

ThreadPart ==
  /\ \A e \in Threads : executing[e] # Null <=> pc[e] = "callback"
  /\ \A e \in Threads : mutex = e <=> pc[e] = "loop"

Counted == {r \in Recurring : life[r] = "live" /\ ~canceled[r]}
CountPart == ~destroyed => task_recurring_count = Cardinality(Counted)

DestroyedPart ==
  destroyed => /\ shutdown /\ Pending = {} /\ recurring = <<>>
               /\ \A e \in Threads : executing[e] \in Recurring => canceled[executing[e]]

TaskInvariant == /\ TypeOK /\ ListPart /\ RecurringPart /\ PlacePart /\ ThreadPart
                 /\ TailPart /\ CountPart /\ DestroyedPart

\* What the next state's list says about its pending tasks.
LEMMA PendingIsNext ==
  \A q : ListIs(q, next') => Pending' = Elements(q)
<1> DEFINE F == \A q : ListIs(q, next) => Pending = Elements(q)
<1>1. F
  BY PendingIs
<1> HIDE DEF F
<1>2. F'
  BY <1>1, PTL
<1> QED BY <1>2 DEF F

LEMMA ListKept ==
  ASSUME ListPart, UNCHANGED listVars
  PROVE  ListPart' /\ Pending' = Pending /\ lost' = lost
BY DEF ListPart, listVars, Pending, Linked

LEMMA PendingTasks == Pending \in SUBSET Tasks
BY DEF Pending

\* What is counted: pending and lost tasks.
LEMMA PlacesFinite ==
  ASSUME TypeOK
  PROVE  IsFiniteSet(Pending \cup lost) /\ Cardinality(Pending \cup lost) \in Nat
<1>1. IsFiniteSet(Tasks)
  BY ExecutorAssumption, FS_Subset DEF AllTasks
<1>2. Pending \cup lost \in SUBSET Tasks
  BY PendingTasks DEF TypeOK
<1> QED BY <1>1, <1>2, FS_Subset, FS_CardinalityType

\* The list ends, and nothing in it follows itself.
LEMMA SuccessorFacts ==
  ASSUME ListPart, NEW t \in Pending
  PROVE  next[t] # t /\ (next[t] # Null => next[t] \in Pending)
<1>1. PICK q : ListIs(q, next)
  BY DEF ListPart
<1>2. Pending = Elements(q) /\ q \in Seq(Tasks) /\ Len(q) \in Nat /\ Distinct(q)
  BY <1>1, PendingIs DEF ListIs
<1>3. PICK i \in 1..Len(q) : t = q[i]
  BY <1>2 DEF Elements
<1>4. next[t] = At(q, i + 1) /\ t \in Tasks
  BY <1>1, <1>2, <1>3, AtFacts DEF ListIs
<1>5. CASE i = Len(q)
  BY <1>2, <1>4, <1>5, AtFacts, LocationFacts
<1>6. CASE i + 1 \in 1..Len(q)
  BY <1>2, <1>3, <1>4, <1>6, AtFacts DEF Elements, Distinct
<1> QED BY <1>2, <1>5, <1>6

\* A step that leaves the list alone and deletes no more than it has to.
LEMMA TailStays ==
  ASSUME TailPart, UNCHANGED <<listVars, destroyed>>, Pending' = Pending,
         \A t \in Tasks : life[t] = "deleted" => life'[t] = "deleted"
  PROVE  TailPart'
BY DEF TailPart, listVars

\* A task is appended to the list, or to nothing if the tail is elsewhere.
LEMMA ScheduleEffect ==
  ASSUME TypeOK, ListPart, TailPart, NEW t \in Tasks, t \notin Pending, next[t] = Null,
         schedule(t)
  PROVE  /\ ListPart'
         /\ \/ Pending' = Pending \cup {t} /\ lost' = lost
            \/ Pending' = Pending /\ lost' = lost \cup {t} /\ Pending # {}
<1>1. PICK q : ListIs(q, next)
  BY DEF ListPart
<1>2. Pending = Elements(q) /\ next \in Links
  BY <1>1, PendingIs DEF TypeOK, Links
<1>3. CASE task_tail \in Pending \cup {task_head}
  <2>1. task_tail = At(q, Len(q))
    BY <1>1, <1>2, <1>3, EndIs DEF TailPart
  <2>2. /\ ListIs(Append(q, t), next')
        /\ Elements(Append(q, t)) = Elements(q) \cup {t}
    BY <1>1, <1>2, <2>1, ListAppended DEF schedule
  <2>3. lost' = lost
    BY <1>3 DEF schedule
  <2> QED BY <1>2, <2>2, <2>3, PendingIsNext DEF ListPart
<1>4. CASE task_tail \notin Pending \cup {task_head}
  <2>1. task_tail \in Locations
    BY DEF TypeOK
  <2>2. ListIs(q, [next EXCEPT ![task_tail] = t])
    BY <1>1, <1>2, <1>4, <2>1, ListAside
  <2>3. ListIs(q, next') /\ lost' = lost \cup {t} /\ Pending # {}
    BY <1>4, <2>2 DEF schedule, TailPart
  <2> QED BY <1>2, <2>3, PendingIsNext DEF ListPart
<1> QED BY <1>3, <1>4

LEMMA TakeTaskEffect ==
  ASSUME TypeOK, ListPart, NEW e \in Threads, TakeTask(e)
  PROVE  /\ ListPart' /\ Pending' = Pending \ {next[task_head]}
         /\ next[task_head] \in Pending
<1>1. PICK q : ListIs(q, next)
  BY DEF ListPart
<1>2. /\ Pending = Elements(q) /\ next \in Links
      /\ q \in Seq(Tasks) /\ Len(q) \in Nat
  BY <1>1, PendingIs DEF TypeOK, Links, ListIs
<1>3. 0 \in 0..Len(q) /\ next[task_head] = At(q, 1)
  <2>1. 0 \in 0..Len(q) /\ 0 + 1 = 1 /\ At(q, 0) = task_head
    BY <1>2 DEF At
  <2> QED BY <1>1, <2>1 DEF ListIs
<1>4. 1 \in 1..Len(q) /\ next[task_head] = q[1]
  BY <1>2, <1>3 DEF At, TakeTask
<1>5. next' = [next EXCEPT ![At(q, 1 - 1)] = next[q[1]]] /\ At(q, 1 - 1) = At(q, 0)
  BY <1>4 DEF TakeTask, At
<1>6. /\ ListIs(Removed(q, 1), next')
      /\ Elements(Removed(q, 1)) = Elements(q) \ {q[1]}
  BY <1>1, <1>2, <1>4, <1>5, ListRemoved
<1> QED BY <1>2, <1>4, <1>6, PendingIsNext DEF ListPart, Elements

\* The location that points to a pending task is the one before it.
LEMMA PreviousIs ==
  ASSUME next \in Links, NEW q, ListIs(q, next), NEW i \in 1..Len(q)
  PROVE  Previous(q[i]) = At(q, i - 1)
<1>1. q \in Seq(Tasks) /\ Len(q) \in Nat /\ Pending = Elements(q)
  BY PendingIs DEF ListIs
<1>2. i - 1 \in 0..Len(q) /\ (i - 1) + 1 = i /\ At(q, i) = q[i]
  BY <1>1 DEF At
<1>3. At(q, i - 1) \in Pending \cup {task_head} /\ next[At(q, i - 1)] = q[i]
  BY <1>1, <1>2 DEF At, Elements, ListIs
<1>4. ASSUME NEW l \in Pending \cup {task_head}, next[l] = q[i]
      PROVE  l = At(q, i - 1)
  <2>1. PICK j \in 0..Len(q) : l = At(q, j)
    BY <1>1, AtFacts DEF Elements
  <2>2. At(q, j + 1) = q[i]
    BY <1>4, <2>1 DEF ListIs
  <2>3. j + 1 \in 1..Len(q)
    BY <1>1, <2>2, AtFacts, LocationFacts DEF At
  <2>4. j + 1 = i
    BY <1>1, <2>2, <2>3, AtFacts DEF ListIs, Distinct
  <2> QED BY <1>1, <2>1, <2>4
<1> QED BY <1>3, <1>4 DEF Previous

LEMMA PreviousFacts ==
  ASSUME TypeOK, ListPart, NEW t \in Pending
  PROVE  Previous(t) \in Pending \cup {task_head} /\ next[Previous(t)] = t
<1>1. PICK q : ListIs(q, next)
  BY DEF ListPart
<1>2. Pending = Elements(q) /\ q \in Seq(Tasks) /\ Len(q) \in Nat /\ next \in Links
  BY <1>1, PendingIs DEF ListIs, TypeOK, Links
<1>3. PICK i \in 1..Len(q) : t = q[i]
  BY <1>2 DEF Elements
<1>4. Previous(t) = At(q, i - 1)
  BY <1>1, <1>2, <1>3, PreviousIs
<1>5. /\ i - 1 = 0 \/ i - 1 \in 1..Len(q)
      /\ i - 1 \in 0..Len(q) /\ (i - 1) + 1 = i
  BY <1>2
<1>6. next[Previous(t)] = t
  BY <1>1, <1>2, <1>3, <1>4, <1>5, AtFacts DEF ListIs
<1> QED BY <1>2, <1>4, <1>5, <1>6, AtFacts DEF Elements

LEMMA CancelPendingEffect ==
  ASSUME TypeOK, ListPart, NEW t \in Tasks, CancelPending(t)
  PROVE  ListPart' /\ Pending' = Pending \ {t} /\ t \in Pending
<1>1. PICK q : ListIs(q, next)
  BY DEF ListPart
<1>2. /\ Pending = Elements(q) /\ next \in Links
      /\ q \in Seq(Tasks) /\ Len(q) \in Nat
  BY <1>1, PendingIs DEF TypeOK, Links, ListIs
<1>3. PICK i \in 1..Len(q) : t = q[i]
  BY <1>2 DEF CancelPending, Elements
<1>4. Previous(t) = At(q, i - 1)
  BY <1>1, <1>2, <1>3, PreviousIs
<1>5. next' = [next EXCEPT ![At(q, i - 1)] = next[q[i]]]
  BY <1>3, <1>4 DEF CancelPending
<1>6. /\ ListIs(Removed(q, i), next')
      /\ Elements(Removed(q, i)) = Elements(q) \ {q[i]}
  BY <1>1, <1>2, <1>5, ListRemoved
<1> QED BY <1>2, <1>3, <1>6, PendingIsNext DEF ListPart, Elements

\* The tail after a pending task was taken out.
LEMMA TailWithout ==
  ASSUME TypeOK, ListPart, TailPart, NEW t \in Pending, Pending' = Pending \ {t},
         NEW l \in Pending \cup {task_head}, next[l] = t,
         next' = [next EXCEPT ![l] = next[t]], lost' = lost,
         task_tail' = IF l = task_head THEN TailWithoutFront(t) ELSE task_tail,
         \A u \in Tasks : life[u] = "deleted" => life'[u] = "deleted",
         l = task_head \/ life'[t] = "deleted",
         ~destroyed, task_count' = task_count - 1
  PROVE  TailPart' /\ task_count' \in Nat
<1>0. t \in Tasks /\ t # Null /\ t # task_head /\ l \in Locations
  BY PendingTasks, LocationFacts DEF Locations
<1>1. \A k \in Locations : next'[k] = IF k = l THEN next[t] ELSE next[k]
  BY <1>0 DEF TypeOK
<1>2. task_tail # l /\ task_tail \in Locations
  BY <1>0 DEF TailPart, TypeOK
<1>3. next[t] # t /\ (next[t] # Null => next[t] \in Pending)
  BY SuccessorFacts
<1>4. l # t
  BY <1>3
<1>5. next'[task_tail'] = Null
  <2>1. CASE l = task_head /\ next[t] = Null
    BY <1>0, <1>1, <2>1 DEF TailWithoutFront
  <2>2. CASE ~(l = task_head /\ next[t] = Null)
    <3>1. task_tail' = task_tail
      BY <2>2 DEF TailWithoutFront
    <3> QED BY <1>1, <1>2, <3>1 DEF TailPart
  <2> QED BY <2>1, <2>2
<1>6. ASSUME Pending' = {} PROVE task_tail' = task_head
  <2>1. l = task_head
    BY <1>4, <1>6
  <2>2. next[t] = Null
    BY <1>3, <1>6
  <2> QED BY <2>1, <2>2 DEF TailWithoutFront
<1>7. \/ task_tail' \in Pending' \cup {task_head} \cup lost'
      \/ task_tail' \in Tasks /\ life'[task_tail'] = "deleted"
  <2>1. CASE task_tail' = task_head
    BY <2>1
  <2>2. CASE task_tail' = task_tail /\ task_tail # t
    BY <2>2 DEF TailPart
  <2>3. CASE task_tail' = task_tail /\ task_tail = t
    <3>1. next[t] = Null
      BY <2>3 DEF TailPart
    <3>2. l # task_head \/ task_tail' = task_head
      BY <3>1 DEF TailWithoutFront
    <3> QED BY <1>0, <2>3, <3>2
  <2> QED BY <2>1, <2>2, <2>3 DEF TailWithoutFront
<1>8. Pending' \cap lost' = {} /\ Pending' \cup lost' = (Pending \cup lost) \ {t}
  BY DEF TailPart
<1>9. Cardinality((Pending \cup lost) \ {t}) = Cardinality(Pending \cup lost) - 1
  BY PlacesFinite, FS_RemoveElement
<1>10. task_count' = Cardinality(Pending' \cup lost')
  BY <1>8, <1>9 DEF TailPart
<1>11. Cardinality((Pending \cup lost) \ {t}) \in Nat
  BY PlacesFinite, FS_RemoveElement, FS_CardinalityType
<1> QED BY <1>5, <1>6, <1>7, <1>8, <1>10, <1>11 DEF TailPart

LEMMA EmptyListEffect ==
  ASSUME TypeOK, next' = [next EXCEPT ![task_head] = Null]
  PROVE  ListPart' /\ Pending' = {}
<1>1. <<>> \in Seq(Tasks) /\ Len(<<>>) = 0 /\ Distinct(<<>>) /\ Elements(<<>>) = {}
  BY DEF Distinct, Elements
<1>2. next'[task_head] = Null
  BY DEF TypeOK, Locations
<1>3. ListIs(<<>>, next')
  BY <1>1, <1>2 DEF ListIs, At
<1> QED BY <1>1, <1>3, PendingIsNext DEF ListPart
-----------------------------------------------------------------------------
\* The list of pending recurring tasks.
LEMMA PositionExists ==
  ASSUME TypeOK, NEW r \in Recurring
  PROVE  /\ InsertPosition(r) \in 1..(Len(recurring) + 1)
         /\ \A j \in 1..(InsertPosition(r) - 1) : ~Later(recurring[j], r)
         /\ InsertPosition(r) <= Len(recurring) => Later(recurring[InsertPosition(r)], r)
<1> DEFINE L == Len(recurring)
           T == {i \in 1..(L + 1) : i = L + 1 \/ Later(recurring[i], r)}
<1>1. L \in Nat
  BY DEF TypeOK
<1> HIDE DEF L
<1>2. T \in SUBSET Nat /\ L + 1 \in T
  BY <1>1
<1>3. PICK i \in T : \A j \in T : i <= j
  <2> HIDE DEF T
  <2> QED BY <1>2, SmallestNumber
<1>4. i \in 1..(L + 1) /\ (i <= L => Later(recurring[i], r))
  BY <1>1
<1>5. ASSUME NEW j \in 1..(i - 1) PROVE ~Later(recurring[j], r)
  <2>1. j \in 1..(L + 1) /\ ~(i <= j)
    BY <1>1, <1>4
  <2> QED BY <1>3, <2>1
<1>6. \E k \in 1..(L + 1) : /\ \A j \in 1..(k - 1) : ~Later(recurring[j], r)
                            /\ k <= L => Later(recurring[k], r)
  BY <1>4, <1>5
<1> QED BY <1>6 DEF InsertPosition, L

LEMMA EnqueueEffect ==
  ASSUME TypeOK, RecurringPart, NEW r \in Recurring, r \notin PendingRecurring,
         enqueue_recurring_task(r), UNCHANGED wait
  PROVE  /\ recurring' \in Seq(Recurring) /\ RecurringPart'
         /\ PendingRecurring' = PendingRecurring \cup {r}
<1> DEFINE s == recurring
           q == recurring'
           i == InsertPosition(r)
<1>1. /\ i \in 1..(Len(s) + 1)
      /\ \A j \in 1..(i - 1) : ~Later(s[j], r)
      /\ i <= Len(s) => Later(s[i], r)
  BY PositionExists
<1>2. s \in Seq(Recurring) /\ Len(s) \in Nat /\ q = Inserted(s, i, r)
  BY DEF TypeOK, enqueue_recurring_task, Inserted
<1> HIDE DEF i
<1>3. /\ q \in Seq(Recurring) /\ Len(q) = Len(s) + 1
      /\ \A j \in 1..(Len(s) + 1) :
           q[j] = IF j < i THEN s[j] ELSE IF j = i THEN r ELSE s[j - 1]
  BY <1>1, <1>2, InsertedFacts
<1>4. Elements(q) = Elements(s) \cup {r} /\ Distinct(q)
  <2>1. Distinct(s) /\ r \notin Elements(s)
    BY DEF RecurringPart, PendingRecurring, Elements
  <2>2. /\ Elements(Inserted(s, i, r)) = Elements(s) \cup {r}
        /\ Distinct(s) /\ r \notin Elements(s) => Distinct(Inserted(s, i, r))
    BY <1>1, <1>2, InsertedElements
  <2> QED BY <1>2, <2>1, <2>2
<1>5. /\ wait \in [Recurring -> Nat]
      /\ \A j \in 1..Len(s) : s[j] \in Recurring /\ wait[s[j]] \in Nat
      /\ \A j, k \in 1..Len(s) : j < k => wait[s[j]] <= wait[s[k]]
  BY <1>2 DEF TypeOK, RecurringPart
<1>6. ASSUME NEW j \in 1..Len(q), NEW k \in 1..Len(q), j < k
      PROVE  wait[q[j]] <= wait[q[k]]
  <2>0. j \in 1..(Len(s) + 1) /\ k \in 1..(Len(s) + 1) /\ i \in Int /\ wait[r] \in Nat
    BY <1>1, <1>3, <1>5
  <2>1. CASE k < i
    <3>1. j \in 1..Len(s) /\ k \in 1..Len(s) /\ j < i
      BY <1>1, <1>2, <1>6, <2>0, <2>1
    <3>2. q[j] = s[j] /\ q[k] = s[k]
      BY <1>3, <2>0, <2>1, <3>1
    <3> QED BY <1>5, <1>6, <3>1, <3>2
  <2>2. CASE k = i
    <3>1. j \in 1..(i - 1) /\ j \in 1..Len(s) /\ q[j] = s[j] /\ q[k] = r
      BY <1>2, <1>3, <1>6, <2>0, <2>2
    <3>2. ~(wait[s[j]] > wait[r])
      BY <1>1, <3>1 DEF Later
    <3> QED BY <1>5, <2>0, <3>1, <3>2
  <2>3. CASE j = i
    <3>0. i \in 1..Len(s) /\ k - 1 \in 1..Len(s) /\ i <= k - 1 /\ ~(k < i) /\ k # i
      BY <1>1, <1>2, <1>6, <2>0, <2>3
    <3>1. /\ i \in 1..Len(s) /\ k - 1 \in 1..Len(s) /\ i <= k - 1
          /\ q[j] = r /\ q[k] = s[k - 1]
      BY <1>3, <2>0, <2>3, <3>0
    <3>2. wait[s[i]] > wait[r]
      BY <1>1, <3>1 DEF Later
    <3>3. wait[s[i]] <= wait[s[k - 1]]
      <4>1. i < k - 1 \/ i = k - 1
        BY <2>0, <3>1
      <4>2. wait[s[i]] \in Nat /\ (i < k - 1 => wait[s[i]] <= wait[s[k - 1]])
        BY <1>5, <3>1
      <4>3. i = k - 1 => wait[s[i]] <= wait[s[k - 1]]
        BY <4>2
      <4> QED BY <4>1, <4>2, <4>3
    <3> QED BY <1>5, <2>0, <3>1, <3>2, <3>3
  <2>4. CASE j < i /\ i < k
    <3>1. /\ j \in 1..Len(s) /\ k - 1 \in 1..Len(s) /\ (j < k - 1)
          /\ ~(k < i) /\ k # i
      BY <1>1, <1>2, <1>6, <2>0, <2>4
    <3>2. q[j] = s[j] /\ q[k] = s[k - 1]
      BY <1>3, <2>0, <2>4, <3>1
    <3> QED BY <1>5, <3>1, <3>2
  <2>5. CASE i < j
    <3>1. /\ j - 1 \in 1..Len(s) /\ k - 1 \in 1..Len(s) /\ j - 1 < k - 1
          /\ ~(j < i) /\ j # i /\ ~(k < i) /\ k # i
      BY <1>1, <1>2, <1>6, <2>0, <2>5
    <3>2. q[j] = s[j - 1] /\ q[k] = s[k - 1]
      BY <1>3, <2>0, <3>1
    <3> QED BY <1>5, <3>1, <3>2
  <2> QED BY <1>6, <2>0, <2>1, <2>2, <2>3, <2>4, <2>5
<1> QED BY <1>3, <1>4, <1>6 DEF RecurringPart, PendingRecurring, Elements

LEMMA UnlinkRecurringEffect ==
  ASSUME TypeOK, RecurringPart, NEW i \in 1..Len(recurring),
         recurring' = Removed(recurring, i),
         \A r \in Recurring : r # recurring[i] => wait'[r] = wait[r]
  PROVE  /\ recurring' \in Seq(Recurring) /\ RecurringPart'
         /\ PendingRecurring' = PendingRecurring \ {recurring[i]}
         /\ recurring[i] \in PendingRecurring
<1> DEFINE s == recurring
           q == recurring'
<1>1. s \in Seq(Recurring) /\ Len(s) \in Nat /\ Distinct(s)
  BY DEF TypeOK, RecurringPart
<1>2. /\ q \in Seq(Recurring) /\ Len(q) = Len(s) - 1
      /\ \A j \in 1..(Len(s) - 1) : q[j] = IF j < i THEN s[j] ELSE s[j + 1]
  BY <1>1, RemovedFacts
<1>3. Elements(q) = Elements(s) \ {s[i]} /\ Distinct(q)
  BY <1>1, RemovedElements
<1>4. \A j \in 1..Len(q) : q[j] \in Recurring /\ wait'[q[j]] = wait[q[j]]
  <2>1. \A j \in 1..Len(q) : q[j] \in Recurring /\ q[j] # s[i]
    <3>1. \A j \in 1..Len(q) : q[j] \in Recurring
      BY <1>2
    <3>2. \A j \in 1..Len(q) : q[j] \in Elements(q)
      BY DEF Elements
    <3> QED BY <1>3, <3>1, <3>2
  <2> QED BY <2>1
<1>5. ASSUME NEW j \in 1..Len(q), NEW k \in 1..Len(q), j < k
      PROVE  wait[q[j]] <= wait[q[k]]
  <2> DEFINE J == IF j < i THEN j ELSE j + 1
             K == IF k < i THEN k ELSE k + 1
  <2>1. /\ J \in 1..Len(s) /\ K \in 1..Len(s) /\ J < K
        /\ q[j] = s[J] /\ q[k] = s[K]
    BY <1>1, <1>2, <1>5
  <2> HIDE DEF J, K
  <2> QED BY <2>1 DEF RecurringPart
<1> QED BY <1>2, <1>3, <1>4, <1>5 DEF RecurringPart, PendingRecurring, Elements

LEMMA TailIsRemoved ==
  ASSUME NEW S, NEW s \in Seq(S), s # <<>>
  PROVE  1 \in 1..Len(s) /\ Head(s) = s[1] /\ Tail(s) = Removed(s, 1)
<1>1. /\ Len(s) \in Nat /\ 1 \in 1..Len(s) /\ Head(s) = s[1]
      /\ Tail(s) \in Seq(S) /\ Len(Tail(s)) = Len(s) - 1
      /\ \A j \in 1..(Len(s) - 1) : Tail(s)[j] = s[j + 1]
  <2>1. Len(s) \in Nat /\ Len(s) # 0
    BY EmptySeq
  <2> QED BY <2>1
<1> DEFINE q == Removed(s, 1)
<1>2. /\ q \in Seq(S) /\ Len(q) = Len(s) - 1
      /\ \A j \in 1..(Len(s) - 1) : q[j] = IF j < 1 THEN s[j] ELSE s[j + 1]
  BY <1>1, RemovedFacts
<1> HIDE DEF q
<1>3. \A j \in 1..Len(q) : Tail(s)[j] = q[j]
  BY <1>1, <1>2
<1>4. Tail(s) = q
  BY <1>1, <1>2, <1>3, SeqEqual
<1> QED BY <1>1, <1>4 DEF q

LEMMA RecurringKept ==
  ASSUME RecurringPart, UNCHANGED <<recurring, wait>>
  PROVE  RecurringPart' /\ PendingRecurring' = PendingRecurring
BY DEF RecurringPart, PendingRecurring, Distinct
-----------------------------------------------------------------------------
\* Which tasks are executed after a step.
LEMMA RunningKept ==
  ASSUME UNCHANGED executing
  PROVE  \A t : Running(t)' <=> Running(t)
BY DEF Running

LEMMA RunningStarts ==
  ASSUME TypeOK, NEW e \in Threads, executing[e] = Null, NEW t \in AllTasks,
         executing' = [executing EXCEPT ![e] = t]
  PROVE  \A u \in AllTasks : Running(u)' <=> Running(u) \/ u = t
<1>1. \A f \in Threads : executing'[f] = IF f = e THEN t ELSE executing[f]
  BY DEF TypeOK
<1>2. Null \notin AllTasks
  BY ExecutorAssumption
<1> QED BY <1>1, <1>2 DEF Running

LEMMA RunningEnds ==
  ASSUME TypeOK, PlacePart, NEW e \in Threads, executing[e] # Null,
         executing' = [executing EXCEPT ![e] = Null]
  PROVE  \A u \in AllTasks : Running(u)' <=> Running(u) /\ u # executing[e]
<1>1. \A f \in Threads : executing'[f] = IF f = e THEN Null ELSE executing[f]
  BY DEF TypeOK
<1>2. Null \notin AllTasks
  BY ExecutorAssumption
<1>3. \A f \in Threads : executing[f] = executing[e] => f = e
  BY DEF PlacePart
<1> QED BY <1>1, <1>2, <1>3 DEF Running

\* The tasks that task_recurring_count counts.
LEMMA CountedFinite ==
  /\ IsFiniteSet(Counted) /\ Cardinality(Counted) \in Nat
  /\ IsFiniteSet(Counted') /\ Cardinality(Counted') \in Nat
<1>1. IsFiniteSet(Recurring)
  BY ExecutorAssumption, FS_Subset DEF AllTasks
<1>2. Counted \in SUBSET Recurring /\ Counted' \in SUBSET Recurring
  BY DEF Counted
<1> QED BY <1>1, <1>2, FS_Subset, FS_CardinalityType

\* Steps that leave the tasks and the lists alone.
LEMMA QuietStep ==
  ASSUME TaskInvariant, TypeOK', ThreadPart', RecurringPart',
         UNCHANGED <<destroyed, listVars, recurring, task_recurring_count,
                     taskVars, executing>>,
         shutdown => shutdown'
  PROVE  TaskInvariant'
<1> USE DEF TaskInvariant
<1>1. ListPart' /\ Pending' = Pending /\ lost' = lost
  BY ListKept
<1>2. PendingRecurring' = PendingRecurring
  BY DEF PendingRecurring
<1>3. PlacePart'
  BY <1>1, <1>2, RunningKept DEF PlacePart, taskVars, listVars
<1>4. CountPart'
  BY DEF CountPart, Counted, taskVars
<1>5. DestroyedPart'
  BY <1>1 DEF DestroyedPart, taskVars
<1>6. TailPart'
  BY <1>1, TailStays DEF taskVars
<1> QED BY <1>1, <1>3, <1>4, <1>5, <1>6

LEMMA StutterStep ==
  ASSUME TaskInvariant, UNCHANGED vars
  PROVE  TaskInvariant'
<1> USE DEF TaskInvariant, vars, threadVars, recurringVars, taskVars, listVars
<1>1. TypeOK'
  BY DEF TypeOK
<1>2. ThreadPart'
  BY DEF ThreadPart
<1>3. RecurringPart'
  BY RecurringKept
<1> QED BY <1>1, <1>2, <1>3, QuietStep

LEMMA LockStep ==
  ASSUME TaskInvariant, NEW e \in Threads, Lock(e)
  PROVE  TaskInvariant'
<1> USE DEF TaskInvariant, Lock, Goto, recurringVars, taskVars, listVars
<1>1. TypeOK'
  BY DEF TypeOK
<1>2. ThreadPart'
  BY ExecutorAssumption DEF ThreadPart, TypeOK
<1>3. RecurringPart'
  BY RecurringKept
<1> QED BY <1>1, <1>2, <1>3, QuietStep

LEMMA StopStep ==
  ASSUME TaskInvariant, NEW e \in Threads, Stop(e)
  PROVE  TaskInvariant'
<1> USE DEF TaskInvariant, Stop, Goto, recurringVars, taskVars, listVars
<1>1. TypeOK'
  BY DEF TypeOK
<1>2. ThreadPart'
  BY ExecutorAssumption DEF ThreadPart, TypeOK
<1>3. RecurringPart'
  BY RecurringKept
<1> QED BY <1>1, <1>2, <1>3, QuietStep

LEMMA WaitStep ==
  ASSUME TaskInvariant, NEW e \in Threads, WaitForWork(e)
  PROVE  TaskInvariant'
<1> USE DEF TaskInvariant, WaitForWork, Goto, recurringVars, taskVars, listVars
<1>0. recurring # <<>> => wait[Head(recurring)] \in Nat
  BY DEF TypeOK
<1>1. TypeOK'
  BY <1>0 DEF TypeOK
<1>2. ThreadPart'
  BY ExecutorAssumption DEF ThreadPart, TypeOK
<1>3. RecurringPart'
  BY RecurringKept
<1> QED BY <1>1, <1>2, <1>3, QuietStep

LEMMA WakeStep ==
  ASSUME TaskInvariant, NEW e \in Threads, TimeOut(e) \/ SpuriousWake(e)
  PROVE  TaskInvariant'
<1> USE DEF TaskInvariant, TimeOut, SpuriousWake, Sleeping, Goto, recurringVars, taskVars,
            listVars
<1>1. TypeOK'
  <2>1. CASE TimeOut(e)
    BY <2>1 DEF TypeOK
  <2>2. CASE SpuriousWake(e)
    BY <2>2 DEF TypeOK
  <2> QED BY <2>1, <2>2
<1>2. ThreadPart'
  BY DEF ThreadPart, TypeOK
<1>3. RecurringPart'
  BY RecurringKept
<1> QED BY <1>1, <1>2, <1>3, QuietStep

LEMMA ShutdownStep ==
  ASSUME TaskInvariant, Shutdown
  PROVE  TaskInvariant'
<1> USE DEF TaskInvariant, Shutdown, Sleeping, recurringVars, taskVars, listVars
<1>1. TypeOK'
  BY DEF TypeOK
<1>2. ThreadPart'
  BY DEF ThreadPart, TypeOK
<1>3. RecurringPart'
  BY RecurringKept
<1> QED BY <1>1, <1>2, <1>3, QuietStep

LEMMA TickStep ==
  ASSUME TaskInvariant, Tick
  PROVE  TaskInvariant'
<1> USE DEF TaskInvariant
<1>1. TypeOK'
  BY DEF TypeOK, Tick, taskVars, listVars
<1>2. ThreadPart'
  BY DEF ThreadPart, Tick
<1>3. RecurringPart'
  <2>1. \A i \in 1..Len(recurring) : recurring[i] \in Recurring
    BY DEF TypeOK
  <2>2. wait \in [Recurring -> Nat]
    BY DEF TypeOK
  <2>3. \A r \in Recurring : wait'[r] = IF wait[r] > 0 THEN wait[r] - 1 ELSE 0
    BY DEF Tick
  <2>4. \A r, s \in Recurring : wait[r] <= wait[s] => wait'[r] <= wait'[s]
    BY <2>2, <2>3
  <2>5. recurring' = recurring
    BY DEF Tick
  <2> QED BY <2>1, <2>4, <2>5 DEF RecurringPart, Distinct
<1> QED BY <1>1, <1>2, <1>3, QuietStep DEF Tick, recurringVars, taskVars

-----------------------------------------------------------------------------
\* Notifications move sleeping threads only.
LEMMA NotifyFacts ==
  ASSUME TypeOK, ThreadPart, NotifyOne, UNCHANGED mutex
  PROVE  /\ pc' \in [Threads -> {"lock", "loop", "callback", "wait", "wait_until", "stopped"}]
         /\ until' \in [Threads -> Nat] /\ executing' = executing /\ ThreadPart'
<1>1. CASE Sleeping = {} /\ UNCHANGED threadVars
  BY <1>1 DEF threadVars, TypeOK, ThreadPart
<1>2. ASSUME NEW e \in Sleeping, pc' = [pc EXCEPT ![e] = "lock"],
             until' = [until EXCEPT ![e] = 0], UNCHANGED executing
      PROVE  /\ pc' \in [Threads -> {"lock", "loop", "callback", "wait", "wait_until",
                                     "stopped"}]
             /\ until' \in [Threads -> Nat] /\ executing' = executing /\ ThreadPart'
  BY <1>2 DEF Sleeping, TypeOK, ThreadPart
<1> QED BY <1>1, <1>2 DEF NotifyOne

LEMMA ScheduleStep ==
  ASSUME TaskInvariant, NEW t \in Tasks, schedule(t)
  PROVE  TaskInvariant'
<1> USE DEF TaskInvariant
<1>0. t \in AllTasks /\ life[t] = "unborn" /\ t \notin Recurring
  BY LocationFacts DEF schedule, AllTasks
<1>1. /\ t \notin Pending /\ t \notin PendingRecurring /\ t \notin lost /\ ~Running(t)
      /\ next[t] = Null /\ ~canceled[t]
  BY <1>0 DEF PlacePart
<1>2. /\ ListPart'
      /\ \/ Pending' = Pending \cup {t} /\ lost' = lost
         \/ Pending' = Pending /\ lost' = lost \cup {t} /\ Pending # {}
  BY <1>1, ScheduleEffect
<1>3. RecurringPart' /\ PendingRecurring' = PendingRecurring
  BY RecurringKept DEF schedule, recurringVars
<1>4. /\ pc' \in [Threads -> {"lock", "loop", "callback", "wait", "wait_until", "stopped"}]
      /\ until' \in [Threads -> Nat] /\ executing' = executing /\ ThreadPart'
  BY NotifyFacts DEF schedule
<1>5. \A u : Running(u)' <=> Running(u)
  BY <1>4, RunningKept
<1>6. \A u \in AllTasks : life'[u] = IF u = t THEN "live" ELSE life[u]
  BY DEF schedule, TypeOK
<1>7. task_tail \in Locations /\ task_tail # t /\ next'[t] = Null
      /\ \A l \in Tasks : l # task_tail => next'[l] = next[l]
  <2>2. task_tail \in Locations /\ t \in Locations
    BY DEF TypeOK, Locations
  <2>3. \A l \in Locations : next'[l] = IF l = task_tail THEN t ELSE next[l]
    BY <2>2 DEF schedule, TypeOK
  <2>4. task_tail # t
    BY <1>0, <1>1, LocationFacts DEF TailPart
  <2> QED BY <1>1, <2>2, <2>3, <2>4 DEF Locations
<1>8. TypeOK'
  <2>1. next' \in [Locations -> Tasks \cup {Null}] /\ task_tail' \in Locations
    BY DEF schedule, TypeOK, Locations
  <2>2. life' \in [AllTasks -> {"unborn", "live", "deleted"}]
    BY DEF schedule, TypeOK
  <2>3. task_count' \in Nat
    BY DEF schedule, TypeOK
  <2>4. lost' \in SUBSET Tasks
    BY <1>2 DEF TypeOK
  <2> QED BY <1>4, <2>1, <2>2, <2>3, <2>4 DEF schedule, TypeOK, recurringVars
<1>9. PlacePart'
  <2>1. \A u \in Tasks : life'[u] = "unborn" => next'[u] = Null
    <3> SUFFICES ASSUME NEW u \in Tasks, life'[u] = "unborn" PROVE next'[u] = Null
      OBVIOUS
    <3>1. u \in AllTasks /\ u # t /\ life[u] = "unborn"
      BY <1>6 DEF AllTasks
    <3>2. u # task_tail
      <4>1. u \notin Pending /\ u \notin lost
        BY <3>1 DEF PlacePart
      <4> QED BY <3>1, <4>1, LocationFacts DEF TailPart
    <3> QED BY <1>7, <3>1, <3>2 DEF PlacePart
  <2>2. \A u \in AllTasks : canceled'[u] => Running(u)'
    BY <1>5 DEF PlacePart, schedule
  <2>3. \A u \in AllTasks :
          life'[u] = "live" <=> u \in Pending' \cup PendingRecurring' \cup lost' \/ Running(u)'
    BY <1>1, <1>2, <1>3, <1>5, <1>6 DEF PlacePart
  <2>4. \A u \in Pending' \cup PendingRecurring' \cup lost' : ~Running(u)'
    BY <1>1, <1>2, <1>3, <1>5 DEF PlacePart
  <2> QED BY <1>4, <2>1, <2>2, <2>3, <2>4 DEF PlacePart
<1>10. CountPart'
  <2>1. Counted' = Counted
    BY <1>0, <1>6 DEF Counted, AllTasks, schedule
  <2> QED BY <2>1 DEF CountPart, schedule, recurringVars
<1>11. DestroyedPart'
  BY DEF schedule, Callable, DestroyedPart
<1>12. TailPart'
  <2>1. task_tail' = t /\ task_count' = task_count + 1 /\ destroyed' = destroyed
    BY DEF schedule
  <2>2. /\ Pending' \cup lost' = (Pending \cup lost) \cup {t} /\ t \notin Pending \cup lost
        /\ Pending' \cap lost' = {} /\ t \in Pending' \cup lost' /\ Pending' # {}
    BY <1>1, <1>2 DEF TailPart
  <2>3. Cardinality((Pending \cup lost) \cup {t}) = Cardinality(Pending \cup lost) + 1
    BY <2>2, PlacesFinite, FS_AddElement
  <2>4. ~destroyed' => task_count' = Cardinality(Pending' \cup lost')
    BY <2>1, <2>2, <2>3 DEF TailPart
  <2> QED BY <1>7, <2>1, <2>2, <2>4 DEF TailPart
<1> QED BY <1>2, <1>3, <1>4, <1>8, <1>9, <1>10, <1>11, <1>12

LEMMA ScheduleRepeatingStep ==
  ASSUME TaskInvariant, NEW r \in Recurring, schedule_repeating(r)
  PROVE  TaskInvariant'
<1> USE DEF TaskInvariant
<1>0. r \in AllTasks /\ life[r] = "unborn" /\ r \notin Tasks
  BY LocationFacts DEF schedule_repeating, AllTasks
<1>1. /\ r \notin Pending /\ r \notin PendingRecurring /\ ~Running(r) /\ ~canceled[r]
  BY <1>0 DEF PlacePart
<1>2. ListPart' /\ Pending' = Pending /\ lost' = lost
  BY ListKept DEF schedule_repeating
<1>3. /\ recurring' \in Seq(Recurring) /\ RecurringPart'
      /\ PendingRecurring' = PendingRecurring \cup {r}
  BY <1>1, EnqueueEffect DEF schedule_repeating
<1>4. /\ pc' \in [Threads -> {"lock", "loop", "callback", "wait", "wait_until", "stopped"}]
      /\ until' \in [Threads -> Nat] /\ executing' = executing /\ ThreadPart'
  BY NotifyFacts DEF schedule_repeating
<1>5. \A u : Running(u)' <=> Running(u)
  BY <1>4, RunningKept
<1>6. \A u \in AllTasks : life'[u] = IF u = r THEN "live" ELSE life[u]
  BY DEF schedule_repeating, TypeOK
<1>7. PlacePart'
  <2>1. \A u \in Tasks : life'[u] = "unborn" => next'[u] = Null
    BY <1>0, <1>6 DEF PlacePart, schedule_repeating, listVars, AllTasks
  <2>2. \A u \in AllTasks : canceled'[u] => Running(u)'
    BY <1>5 DEF PlacePart, schedule_repeating
  <2>3. \A u \in AllTasks :
          life'[u] = "live" <=> u \in Pending' \cup PendingRecurring' \cup lost' \/ Running(u)'
    BY <1>1, <1>2, <1>3, <1>5, <1>6 DEF PlacePart
  <2>4. \A u \in Pending' \cup PendingRecurring' \cup lost' : ~Running(u)'
    BY <1>1, <1>2, <1>3, <1>5 DEF PlacePart
  <2> QED BY <1>4, <2>1, <2>2, <2>3, <2>4 DEF PlacePart
<1>8. CountPart'
  <2>1. Counted' = Counted \cup {r} /\ r \notin Counted
    BY <1>0, <1>1, <1>6 DEF Counted, AllTasks, schedule_repeating
  <2>2. Cardinality(Counted') = Cardinality(Counted) + 1
    BY <2>1, CountedFinite, FS_AddElement
  <2> QED BY <2>2 DEF CountPart, schedule_repeating, Callable
<1>9. TypeOK'
  <2>1. life' \in [AllTasks -> {"unborn", "live", "deleted"}]
    BY DEF schedule_repeating, TypeOK
  <2>2. task_recurring_count' \in Nat
    BY DEF schedule_repeating, TypeOK
  <2> QED BY <1>3, <1>4, <2>1, <2>2 DEF schedule_repeating, TypeOK, listVars
<1>10. DestroyedPart'
  BY DEF schedule_repeating, Callable, DestroyedPart
<1>11. TailPart'
  BY <1>0, <1>2, <1>6, TailStays DEF schedule_repeating, AllTasks
<1> QED BY <1>2, <1>3, <1>4, <1>7, <1>8, <1>9, <1>10, <1>11

\* Cancelling
LEMMA CancelPendingStep ==
  ASSUME TaskInvariant, NEW t \in Tasks, Callable, CancelPending(t),
         UNCHANGED <<mutex, shutdown, destroyed, threadVars>>
  PROVE  TaskInvariant'
<1> USE DEF TaskInvariant
<1>0. t \in AllTasks /\ t \notin Recurring
  BY LocationFacts DEF AllTasks
<1>1. ListPart' /\ Pending' = Pending \ {t} /\ t \in Pending
  BY CancelPendingEffect
<1>2. /\ ~Running(t) /\ ~canceled[t] /\ life[t] = "live" /\ t \notin PendingRecurring
      /\ t \notin lost /\ lost' = lost
  <2>1. PendingRecurring \in SUBSET Recurring
    BY DEF PendingRecurring, TypeOK
  <2> QED BY <1>0, <1>1, <2>1 DEF PlacePart, TailPart, CancelPending
<1>3. RecurringPart' /\ PendingRecurring' = PendingRecurring
  BY RecurringKept DEF CancelPending, recurringVars
<1>4. \A u : Running(u)' <=> Running(u)
  BY RunningKept DEF threadVars
<1>5. \A u \in AllTasks : /\ life'[u] = IF u = t THEN "deleted" ELSE life[u]
                          /\ canceled'[u] = (u # t /\ canceled[u])
  BY DEF CancelPending, Delete
<1>6. \A l \in Locations : next'[l] = IF l = Previous(t) THEN next[t] ELSE next[l]
  BY DEF CancelPending, TypeOK
<1>7. Previous(t) \in Pending \cup {task_head} /\ next[Previous(t)] = t
  BY <1>1, PreviousFacts
<1>8. PlacePart'
  <2>1. ASSUME NEW u \in Tasks, life'[u] = "unborn" PROVE next'[u] = Null
    <3>1. u \in AllTasks /\ u \in Locations /\ life[u] = "unborn"
      BY <1>5, <2>1 DEF AllTasks, Locations
    <3>2. u # Previous(t)
      BY <1>7, <3>1, LocationFacts DEF PlacePart
    <3> QED BY <1>6, <3>1, <3>2 DEF PlacePart
  <2>2. \A u \in AllTasks : canceled'[u] => Running(u)'
    BY <1>4, <1>5 DEF PlacePart
  <2>3. \A u \in AllTasks :
          life'[u] = "live" <=> u \in Pending' \cup PendingRecurring' \cup lost' \/ Running(u)'
    BY <1>1, <1>2, <1>3, <1>4, <1>5 DEF PlacePart
  <2>4. \A u \in Pending' \cup PendingRecurring' \cup lost' : ~Running(u)'
    BY <1>1, <1>2, <1>3, <1>4 DEF PlacePart
  <2> QED BY <2>1, <2>2, <2>3, <2>4 DEF PlacePart, threadVars
<1>9. ThreadPart'
  BY DEF ThreadPart, threadVars
<1>10. CountPart'
  <2>1. Counted' = Counted
    BY <1>0, <1>5 DEF Counted, AllTasks
  <2> QED BY <2>1 DEF CountPart, CancelPending, recurringVars
<1>11. TailPart' /\ task_count' \in Nat
  <2>1. /\ next' = [next EXCEPT ![Previous(t)] = next[t]]
        /\ task_tail' = IF Previous(t) = task_head THEN TailWithoutFront(t) ELSE task_tail
        /\ task_count' = task_count - 1 /\ ~destroyed
    BY DEF CancelPending, Callable
  <2>2. /\ \A u \in Tasks : life[u] = "deleted" => life'[u] = "deleted"
        /\ life'[t] = "deleted"
    BY <1>0, <1>5 DEF AllTasks
  <2> QED BY <1>1, <1>2, <1>7, <2>1, <2>2, TailWithout
<1>12. TypeOK'
  <2>1. next' \in [Locations -> Tasks \cup {Null}] /\ task_tail' \in Locations
    <3>1. next[t] \in Tasks \cup {Null}
      BY DEF TypeOK, Locations
    <3> QED BY <3>1 DEF CancelPending, TailWithoutFront, TypeOK, Locations
  <2>2. /\ life' \in [AllTasks -> {"unborn", "live", "deleted"}]
        /\ canceled' \in [AllTasks -> BOOLEAN]
    BY DEF CancelPending, Delete, TypeOK
  <2> QED BY <1>2, <1>11, <2>1, <2>2 DEF CancelPending, TypeOK, recurringVars, threadVars
<1>13. DestroyedPart'
  BY DEF Callable, DestroyedPart
<1> QED BY <1>1, <1>3, <1>8, <1>9, <1>10, <1>12, <1>13, <1>11

LEMMA CancelPendingRecurringStep ==
  ASSUME TaskInvariant, NEW r \in Recurring, Callable, CancelPendingRecurring(r),
         UNCHANGED <<mutex, shutdown, destroyed, threadVars>>
  PROVE  TaskInvariant'
<1> USE DEF TaskInvariant
<1>0. r \in AllTasks /\ r \notin Tasks
  BY LocationFacts DEF AllTasks
<1>1. PICK i \in 1..Len(recurring) : recurring[i] = r /\ recurring' = Removed(recurring, i)
  BY DEF CancelPendingRecurring, Removed
<1>2. \A s \in Recurring : s # recurring[i] => wait'[s] = wait[s]
  BY <1>1 DEF CancelPendingRecurring, TypeOK
<1>3. /\ recurring' \in Seq(Recurring) /\ RecurringPart'
      /\ PendingRecurring' = PendingRecurring \ {r} /\ r \in PendingRecurring
  BY <1>1, <1>2, UnlinkRecurringEffect
<1>4. ListPart' /\ Pending' = Pending /\ lost' = lost
  BY ListKept DEF CancelPendingRecurring
<1>5. /\ ~Running(r) /\ ~canceled[r] /\ life[r] = "live" /\ r \notin Pending /\ r \notin lost
  BY <1>0, <1>3, PendingTasks DEF PlacePart, TypeOK
<1>6. \A u : Running(u)' <=> Running(u)
  BY RunningKept DEF threadVars
<1>7. \A u \in AllTasks : /\ life'[u] = IF u = r THEN "deleted" ELSE life[u]
                          /\ canceled'[u] = (u # r /\ canceled[u])
  BY DEF CancelPendingRecurring, Delete
<1>8. PlacePart'
  <2>1. \A u \in Tasks : life'[u] = "unborn" => next'[u] = Null
    BY <1>0, <1>7 DEF PlacePart, CancelPendingRecurring, listVars, AllTasks
  <2>2. \A u \in AllTasks : canceled'[u] => Running(u)'
    BY <1>6, <1>7 DEF PlacePart
  <2>3. \A u \in AllTasks :
          life'[u] = "live" <=> u \in Pending' \cup PendingRecurring' \cup lost' \/ Running(u)'
    BY <1>3, <1>4, <1>5, <1>6, <1>7 DEF PlacePart
  <2>4. \A u \in Pending' \cup PendingRecurring' \cup lost' : ~Running(u)'
    BY <1>3, <1>4, <1>6 DEF PlacePart
  <2> QED BY <2>1, <2>2, <2>3, <2>4 DEF PlacePart, threadVars
<1>9. ThreadPart'
  BY DEF ThreadPart, threadVars
<1>10. CountPart' /\ task_recurring_count' \in Nat
  <2>1. Counted' = Counted \ {r} /\ r \in Counted
    BY <1>0, <1>5, <1>7 DEF Counted, AllTasks
  <2>2. Cardinality(Counted') = Cardinality(Counted) - 1
    BY <2>1, CountedFinite, FS_RemoveElement
  <2>3. task_recurring_count' = Cardinality(Counted')
    BY <2>2 DEF CountPart, CancelPendingRecurring, Callable
  <2> QED BY <2>3, CountedFinite DEF CountPart
<1>11. TypeOK'
  <2>1. /\ life' \in [AllTasks -> {"unborn", "live", "deleted"}]
        /\ canceled' \in [AllTasks -> BOOLEAN] /\ wait' \in [Recurring -> Nat]
    BY DEF CancelPendingRecurring, Delete, TypeOK
  <2> QED BY <1>3, <1>10, <2>1 DEF CancelPendingRecurring, TypeOK, listVars, threadVars
<1>12. DestroyedPart'
  BY DEF Callable, DestroyedPart
<1>13. TailPart'
  BY <1>0, <1>4, <1>7, TailStays DEF CancelPendingRecurring, AllTasks
<1> QED BY <1>3, <1>4, <1>8, <1>9, <1>10, <1>11, <1>12, <1>13

LEMMA CancelRunningStep ==
  ASSUME TaskInvariant, NEW t \in AllTasks, NEW joinable \in BOOLEAN, Callable,
         CancelRunning(t, joinable), UNCHANGED <<mutex, shutdown, destroyed, threadVars>>
  PROVE  TaskInvariant'
<1> USE DEF TaskInvariant
<1>1. ListPart' /\ Pending' = Pending /\ lost' = lost
  BY ListKept DEF CancelRunning
<1>2. RecurringPart' /\ PendingRecurring' = PendingRecurring
  BY RecurringKept DEF CancelRunning
<1>3. \A u : Running(u)' <=> Running(u)
  BY RunningKept DEF threadVars
<1>4. Running(t) /\ ~canceled[t] /\ life[t] = "live" /\ life' = life
  BY DEF PlacePart, CancelRunning
<1>5. \A u \in AllTasks :
        /\ canceled'[u] = IF u = t THEN TRUE ELSE canceled[u]
        /\ finish_callback'[u] = IF u = t THEN PromiseOf(joinable) ELSE finish_callback[u]
  BY DEF CancelRunning, TypeOK
<1>6. PlacePart'
  <2>1. \A u \in Tasks : life'[u] = "unborn" => next'[u] = Null
    BY <1>4 DEF PlacePart, CancelRunning, listVars
  <2>2. \A u \in AllTasks : canceled'[u] => Running(u)'
    BY <1>3, <1>4, <1>5 DEF PlacePart
  <2> QED BY <1>1, <1>2, <1>3, <1>4, <2>1, <2>2 DEF PlacePart, threadVars
<1>7. ThreadPart'
  BY DEF ThreadPart, threadVars
<1>8. CountPart' /\ task_recurring_count' \in Nat
  <2>1. CASE t \in Recurring
    <3>1. Counted' = Counted \ {t} /\ t \in Counted
      BY <1>4, <1>5, <2>1 DEF Counted, AllTasks
    <3>2. Cardinality(Counted') = Cardinality(Counted) - 1
      BY <3>1, CountedFinite, FS_RemoveElement
    <3>3. task_recurring_count' = Cardinality(Counted')
      BY <2>1, <3>2 DEF CountPart, CancelRunning, Callable
    <3> QED BY <3>3, CountedFinite DEF CountPart
  <2>2. CASE t \notin Recurring
    <3>1. Counted' = Counted
      BY <1>4, <1>5, <2>2 DEF Counted, AllTasks
    <3>2. task_recurring_count' = task_recurring_count
      BY <2>2 DEF CancelRunning
    <3> QED BY <3>1, <3>2 DEF CountPart, TypeOK
  <2> QED BY <2>1, <2>2
<1>9. TypeOK'
  <2>1. PromiseOf(joinable) \in {"none", "promised", "kept"}
    BY DEF PromiseOf
  <2>2. /\ finish_callback' \in [AllTasks -> {"none", "promised", "kept"}]
        /\ canceled' \in [AllTasks -> BOOLEAN]
    BY <2>1 DEF CancelRunning, TypeOK
  <2> QED BY <1>8, <2>2 DEF CancelRunning, TypeOK, listVars, threadVars
<1>10. DestroyedPart'
  BY DEF Callable, DestroyedPart
<1>11. TailPart'
  BY <1>1, <1>4, TailStays DEF CancelRunning
<1> QED BY <1>1, <1>2, <1>6, <1>7, <1>8, <1>9, <1>10, <1>11

LEMMA CancelStep ==
  ASSUME TaskInvariant, NEW t \in AllTasks, NEW joinable \in BOOLEAN,
         cancel_task(t, joinable)
  PROVE  TaskInvariant'
<1>1. Callable /\ UNCHANGED <<mutex, shutdown, destroyed, threadVars>>
  BY DEF cancel_task
<1>2. CASE t \in Tasks /\ CancelPending(t)
  BY <1>1, <1>2, CancelPendingStep
<1>3. CASE t \in Recurring /\ CancelPendingRecurring(t)
  BY <1>1, <1>3, CancelPendingRecurringStep
<1>4. CASE CancelRunning(t, joinable)
  BY <1>1, <1>4, CancelRunningStep
<1>5. CASE CancelNotFound(t)
  BY <1>1, <1>5, StutterStep DEF CancelNotFound, vars
<1> QED BY <1>2, <1>3, <1>4, <1>5 DEF cancel_task

LEMMA DestroyStep ==
  ASSUME TaskInvariant, Destroy
  PROVE  TaskInvariant'
<1> USE DEF TaskInvariant
<1>1. ListPart' /\ Pending' = {}
  BY EmptyListEffect DEF Destroy
<1>2. RecurringPart' /\ PendingRecurring' = {} /\ recurring' = <<>>
  BY DEF Destroy, RecurringPart, PendingRecurring, Distinct
<1>3. \A u : Running(u)' <=> Running(u)
  BY RunningKept DEF Destroy, threadVars
<1>4. \A u \in AllTasks :
        /\ life'[u] = IF u \in Pending \cup PendingRecurring THEN "deleted" ELSE life[u]
        /\ canceled'[u] = MarkedByDestructor(u)
  BY DEF Destroy
<1>5. PlacePart'
  <2>1. \A u \in Tasks : life'[u] = "unborn" => next'[u] = Null
    <3>1. \A u \in Tasks : u # task_head /\ next'[u] = next[u] /\ u \in AllTasks
      BY LocationFacts DEF Destroy, TypeOK, Locations, AllTasks
    <3> QED BY <1>4, <3>1 DEF PlacePart
  <2>2. \A u \in AllTasks : canceled'[u] => Running(u)'
    BY <1>3, <1>4 DEF PlacePart, MarkedByDestructor
  <2>3. \A u \in AllTasks :
          life'[u] = "live" <=> u \in Pending' \cup PendingRecurring' \cup lost' \/ Running(u)'
    <3>1. lost \cap (Pending \cup PendingRecurring) = {} /\ lost' = lost
      BY LocationFacts DEF TailPart, TypeOK, PendingRecurring, Destroy
    <3> QED BY <1>1, <1>2, <1>3, <1>4, <3>1 DEF PlacePart
  <2>4. \A u \in Pending' \cup PendingRecurring' \cup lost' : ~Running(u)'
    BY <1>1, <1>2, <1>3 DEF PlacePart, Destroy
  <2> QED BY <2>1, <2>2, <2>3, <2>4 DEF PlacePart, Destroy, threadVars
<1>6. ThreadPart'
  BY DEF ThreadPart, Destroy, threadVars
<1>7. TypeOK'
  <2>1. next' \in [Locations -> Tasks \cup {Null}] /\ task_tail' \in Locations
    BY DEF Destroy, TypeOK, Locations
  <2>2. life' \in [AllTasks -> {"unborn", "live", "deleted"}]
    BY DEF Destroy, TypeOK
  <2>3. canceled' \in [AllTasks -> BOOLEAN]
    BY DEF Destroy, TypeOK, MarkedByDestructor, Running
  <2>4. wait' \in [Recurring -> Nat]
    BY DEF Destroy, TypeOK
  <2>5. recurring' \in Seq(Recurring)
    BY <1>2
  <2> QED BY <2>1, <2>2, <2>3, <2>4, <2>5 DEF Destroy, TypeOK, threadVars
<1>8. CountPart'
  BY DEF CountPart, Destroy
<1>9. DestroyedPart'
  <2>1. ASSUME NEW e \in Threads, executing'[e] \in Recurring
        PROVE  canceled'[executing'[e]]
    <3>1. executing' = executing /\ executing[e] \in AllTasks
      BY <2>1 DEF Destroy, threadVars, AllTasks
    <3> QED BY <1>4, <2>1, <3>1 DEF MarkedByDestructor, Running
  <2> QED BY <1>1, <1>2, <2>1 DEF DestroyedPart, Destroy
<1>10. TailPart'
  <2>1. next'[task_head] = Null
    BY DEF Destroy, TypeOK, Locations
  <2> QED BY <1>1, <2>1 DEF TailPart, Destroy
<1> QED BY <1>1, <1>2, <1>5, <1>6, <1>7, <1>8, <1>9, <1>10
-----------------------------------------------------------------------------
\* A thread takes a task and finishes it.
LEMMA ExecuteThread ==
  ASSUME TypeOK, ThreadPart, NEW e \in Threads, mutex = e, NEW t \in AllTasks, Execute(e, t)
  PROVE  /\ ThreadPart' /\ executing[e] = Null
         /\ mutex' \in Threads \cup {Free}
         /\ pc' \in [Threads -> {"lock", "loop", "callback", "wait", "wait_until", "stopped"}]
         /\ executing' \in [Threads -> AllTasks \cup {Null}]
         /\ \A f \in Threads : executing'[f] = IF f = e THEN t ELSE executing[f]
         /\ \A u \in AllTasks : Running(u)' <=> Running(u) \/ u = t
<1>1. executing[e] = Null /\ pc[e] = "loop"
  BY DEF ThreadPart
<1>2. /\ mutex' = Free /\ pc' = [pc EXCEPT ![e] = "callback"]
      /\ executing' = [executing EXCEPT ![e] = t]
  BY DEF Execute, Goto
<1>3. Free \notin Threads /\ t # Null
  BY ExecutorAssumption
<1>4. ThreadPart'
  BY <1>1, <1>2, <1>3 DEF ThreadPart, TypeOK
<1>5. \A u \in AllTasks : Running(u)' <=> Running(u) \/ u = t
  BY <1>1, <1>2, RunningStarts
<1> QED BY <1>1, <1>2, <1>4, <1>5 DEF TypeOK

LEMMA TakeTaskStep ==
  ASSUME TaskInvariant, NEW e \in Threads, TakeTask(e)
  PROVE  TaskInvariant'
<1> USE DEF TaskInvariant
<1> DEFINE t == next[task_head]
<1>1. ListPart' /\ Pending' = Pending \ {t} /\ t \in Pending
  BY TakeTaskEffect
<1>2. /\ mutex = e /\ ~shutdown /\ Execute(e, t) /\ UNCHANGED recurringVars
      /\ next' = [next EXCEPT ![task_head] = next[t]]
      /\ task_tail' = TailWithoutFront(t)
  BY DEF TakeTask
<1>3. t \in Tasks /\ t \in AllTasks /\ t \notin PendingRecurring
  <2>1. PendingRecurring \in SUBSET Recurring
    BY DEF PendingRecurring, TypeOK
  <2> QED BY <1>1, <2>1, PendingTasks, LocationFacts DEF AllTasks
<1> HIDE DEF t
<1>4. RecurringPart' /\ PendingRecurring' = PendingRecurring
  BY <1>2, RecurringKept DEF recurringVars
<1>5. /\ ThreadPart' /\ executing[e] = Null
      /\ mutex' \in Threads \cup {Free}
      /\ pc' \in [Threads -> {"lock", "loop", "callback", "wait", "wait_until", "stopped"}]
      /\ executing' \in [Threads -> AllTasks \cup {Null}]
      /\ \A f \in Threads : executing'[f] = IF f = e THEN t ELSE executing[f]
      /\ \A u \in AllTasks : Running(u)' <=> Running(u) \/ u = t
  BY <1>2, <1>3, ExecuteThread
<1>6. ~Running(t) /\ life[t] = "live" /\ lost' = lost /\ t \notin lost
  BY <1>1, <1>3 DEF PlacePart, TailPart, TakeTask
<1>7. UNCHANGED <<shutdown, destroyed, taskVars, until>>
  BY <1>2 DEF Execute
<1>8. PlacePart'
  <2>1. \A u \in Tasks : life'[u] = "unborn" => next'[u] = Null
    <3>1. \A u \in Tasks : u # task_head /\ next'[u] = next[u]
      BY <1>2, LocationFacts DEF TypeOK, Locations
    <3> QED BY <1>7, <3>1 DEF PlacePart, taskVars
  <2>2. \A u \in AllTasks : canceled'[u] => Running(u)'
    BY <1>5, <1>7 DEF PlacePart, taskVars
  <2>3. \A u \in AllTasks :
          life'[u] = "live" <=> u \in Pending' \cup PendingRecurring' \cup lost' \/ Running(u)'
    BY <1>1, <1>4, <1>5, <1>6, <1>7 DEF PlacePart, taskVars
  <2>4. \A u \in Pending' \cup PendingRecurring' \cup lost' : ~Running(u)'
    <3>1. Pending \cup PendingRecurring \cup lost \in SUBSET AllTasks
      BY PendingTasks DEF PendingRecurring, TypeOK, AllTasks
    <3> QED BY <1>1, <1>3, <1>4, <1>5, <1>6, <3>1 DEF PlacePart
  <2>5. \A f, g \in Threads : executing'[f] = executing'[g] /\ f # g => executing'[f] = Null
    BY <1>5, <1>6 DEF PlacePart, Running
  <2> QED BY <2>1, <2>2, <2>3, <2>4, <2>5 DEF PlacePart
<1>9. TailPart' /\ task_count' \in Nat
  <2>1. /\ task_count' = task_count - 1 /\ ~destroyed /\ next[task_head] = t
    BY <1>2 DEF TakeTask, DestroyedPart, t
  <2>2. \A u \in Tasks : life[u] = "deleted" => life'[u] = "deleted"
    BY <1>7 DEF taskVars
  <2> QED BY <1>1, <1>2, <1>6, <2>1, <2>2, TailWithout
<1>10. TypeOK'
  <2>1. next' \in [Locations -> Tasks \cup {Null}] /\ task_tail' \in Locations
    BY <1>2, <1>3 DEF TailWithoutFront, TypeOK, Locations
  <2> QED BY <1>2, <1>5, <1>6, <1>7, <1>9, <2>1 DEF TypeOK, recurringVars, taskVars
<1>11. CountPart'
  BY <1>2, <1>7 DEF CountPart, Counted, taskVars, recurringVars
<1>12. DestroyedPart'
  BY <1>2, <1>7 DEF DestroyedPart
<1> QED BY <1>1, <1>4, <1>5, <1>8, <1>10, <1>11, <1>12, <1>9

LEMMA TakeRecurringStep ==
  ASSUME TaskInvariant, NEW e \in Threads, TakeRecurring(e)
  PROVE  TaskInvariant'
<1> USE DEF TaskInvariant
<1> DEFINE r == Head(recurring)
<1>1. /\ mutex = e /\ ~shutdown /\ Execute(e, r) /\ recurring # <<>>
      /\ UNCHANGED <<listVars, task_recurring_count>>
      /\ recurring' = Tail(recurring)
      /\ wait' = [wait EXCEPT ![r] = Interval[r]]
  BY DEF TakeRecurring
<1>2. /\ recurring \in Seq(Recurring)
      /\ 1 \in 1..Len(recurring) /\ r = recurring[1] /\ recurring' = Removed(recurring, 1)
  BY <1>1, TailIsRemoved DEF TypeOK
<1> HIDE DEF r
<1>3. r \in Recurring /\ r \in AllTasks /\ r \notin Tasks
  BY <1>2, LocationFacts DEF AllTasks
<1>4. \A s \in Recurring : s # recurring[1] => wait'[s] = wait[s]
  BY <1>1, <1>2 DEF TypeOK
<1>5. /\ recurring' \in Seq(Recurring) /\ RecurringPart'
      /\ PendingRecurring' = PendingRecurring \ {r} /\ r \in PendingRecurring
  BY <1>2, <1>4, UnlinkRecurringEffect
<1>6. ListPart' /\ Pending' = Pending /\ lost' = lost
  BY <1>1, ListKept
<1>7. /\ ThreadPart' /\ executing[e] = Null
      /\ mutex' \in Threads \cup {Free}
      /\ pc' \in [Threads -> {"lock", "loop", "callback", "wait", "wait_until", "stopped"}]
      /\ executing' \in [Threads -> AllTasks \cup {Null}]
      /\ \A f \in Threads : executing'[f] = IF f = e THEN r ELSE executing[f]
      /\ \A u \in AllTasks : Running(u)' <=> Running(u) \/ u = r
  BY <1>1, <1>3, ExecuteThread
<1>8. ~Running(r) /\ life[r] = "live" /\ r \notin Pending /\ r \notin lost
  BY <1>3, <1>5, PendingTasks DEF PlacePart, TypeOK
<1>9. UNCHANGED <<shutdown, destroyed, taskVars, until>>
  BY <1>1 DEF Execute
<1>10. PlacePart'
  <2>1. \A u \in Tasks : life'[u] = "unborn" => next'[u] = Null
    BY <1>1, <1>9 DEF PlacePart, taskVars, listVars
  <2>2. \A u \in AllTasks : canceled'[u] => Running(u)'
    BY <1>7, <1>9 DEF PlacePart, taskVars
  <2>3. \A u \in AllTasks :
          life'[u] = "live" <=> u \in Pending' \cup PendingRecurring' \cup lost' \/ Running(u)'
    BY <1>5, <1>6, <1>7, <1>8, <1>9 DEF PlacePart, taskVars
  <2>4. \A u \in Pending' \cup PendingRecurring' \cup lost' : ~Running(u)'
    <3>1. Pending \cup PendingRecurring \cup lost \in SUBSET AllTasks
      BY PendingTasks DEF PendingRecurring, TypeOK, AllTasks
    <3> QED BY <1>5, <1>6, <1>7, <1>8, <3>1 DEF PlacePart
  <2>5. \A f, g \in Threads : executing'[f] = executing'[g] /\ f # g => executing'[f] = Null
    BY <1>7, <1>8 DEF PlacePart, Running
  <2> QED BY <2>1, <2>2, <2>3, <2>4, <2>5 DEF PlacePart
<1>11. TypeOK'
  <2>1. wait' \in [Recurring -> Nat]
    BY <1>1, <1>3, ExecutorAssumption DEF TypeOK
  <2> QED BY <1>1, <1>5, <1>7, <1>9, <2>1 DEF TypeOK, listVars, taskVars
<1>12. CountPart'
  BY <1>1, <1>9 DEF CountPart, Counted, taskVars
<1>13. DestroyedPart'
  BY <1>1, <1>9 DEF DestroyedPart
<1>14. TailPart'
  BY <1>1, <1>6, <1>9, TailStays DEF taskVars
<1> QED BY <1>5, <1>6, <1>7, <1>10, <1>11, <1>12, <1>13, <1>14

LEMMA FinishThread ==
  ASSUME TypeOK, PlacePart, ThreadPart, NEW e \in Threads, Finish(e)
  PROVE  /\ ThreadPart' /\ executing[e] \in AllTasks
         /\ mutex' \in Threads \cup {Free}
         /\ pc' \in [Threads -> {"lock", "loop", "callback", "wait", "wait_until", "stopped"}]
         /\ executing' \in [Threads -> AllTasks \cup {Null}]
         /\ \A f \in Threads : executing'[f] = IF f = e THEN Null ELSE executing[f]
         /\ \A u \in AllTasks : Running(u)' <=> Running(u) /\ u # executing[e]
         /\ Running(executing[e])
<1>1. executing[e] # Null /\ pc[e] = "callback" /\ mutex = Free
  BY DEF ThreadPart, Finish
<1>2. /\ mutex' = e /\ pc' = [pc EXCEPT ![e] = "loop"]
      /\ executing' = [executing EXCEPT ![e] = Null]
  BY DEF Finish, Goto
<1>3. Free \notin Threads
  BY ExecutorAssumption
<1>4. ThreadPart'
  BY <1>1, <1>2, <1>3 DEF ThreadPart, TypeOK
<1>5. \A u \in AllTasks : Running(u)' <=> Running(u) /\ u # executing[e]
  BY <1>1, <1>2, RunningEnds
<1> QED BY <1>1, <1>2, <1>4, <1>5 DEF TypeOK, Running

\* The end of an execution after which the task object is deleted.
LEMMA FinishDeletes ==
  ASSUME TaskInvariant, NEW e \in Threads, Finish(e),
         finish_callback' = PromiseKept(executing[e]), Delete({executing[e]}),
         UNCHANGED recurring, wait' \in [Recurring -> Nat],
         \A r \in Recurring : r # executing[e] => wait'[r] = wait[r],
         executing[e] \in Recurring => canceled[executing[e]]
  PROVE  TaskInvariant'
<1> USE DEF TaskInvariant
<1> DEFINE t == executing[e]
<1>1. /\ ThreadPart' /\ t \in AllTasks
      /\ mutex' \in Threads \cup {Free}
      /\ pc' \in [Threads -> {"lock", "loop", "callback", "wait", "wait_until", "stopped"}]
      /\ executing' \in [Threads -> AllTasks \cup {Null}]
      /\ \A f \in Threads : executing'[f] = IF f = e THEN Null ELSE executing[f]
      /\ \A u \in AllTasks : Running(u)' <=> Running(u) /\ u # t
      /\ Running(t)
  BY FinishThread
<1>2. /\ UNCHANGED <<shutdown, destroyed, listVars, task_recurring_count, until>>
      /\ recurring' = recurring
  BY DEF Finish
<1>3. \A u \in AllTasks :
        /\ life'[u] = IF u = t THEN "deleted" ELSE life[u]
        /\ canceled'[u] = (u # t /\ canceled[u])
        /\ finish_callback'[u] = IF u = t /\ finish_callback[u] = "promised"
                                  THEN "kept" ELSE finish_callback[u]
  BY <1>1 DEF Delete, PromiseKept, TypeOK
<1>4. ListPart' /\ Pending' = Pending /\ lost' = lost
  BY <1>2, ListKept
<1>5. t \notin Pending /\ t \notin PendingRecurring /\ life[t] = "live"
  BY <1>1 DEF PlacePart
<1>6. RecurringPart' /\ PendingRecurring' = PendingRecurring
  <2>1. \A i \in 1..Len(recurring) : recurring[i] \in Recurring /\ recurring[i] # t
    BY <1>5 DEF PendingRecurring, TypeOK
  <2>2. \A i \in 1..Len(recurring) : wait'[recurring[i]] = wait[recurring[i]]
    BY <2>1
  <2> QED BY <1>2, <2>2 DEF RecurringPart, PendingRecurring, Distinct
<1>7. PlacePart'
  <2>1. \A u \in Tasks : life'[u] = "unborn" => next'[u] = Null
    BY <1>2, <1>3 DEF PlacePart, listVars, AllTasks
  <2>2. \A u \in AllTasks : canceled'[u] => Running(u)'
    BY <1>1, <1>3 DEF PlacePart
  <2>3. \A u \in AllTasks :
          life'[u] = "live" <=> u \in Pending' \cup PendingRecurring' \cup lost' \/ Running(u)'
    BY <1>1, <1>3, <1>4, <1>5, <1>6 DEF PlacePart
  <2>4. \A u \in Pending' \cup PendingRecurring' \cup lost' : ~Running(u)'
    <3>1. Pending \cup PendingRecurring \cup lost \in SUBSET AllTasks
      BY PendingTasks DEF PendingRecurring, TypeOK, AllTasks
    <3> QED BY <1>1, <1>4, <1>6, <3>1 DEF PlacePart
  <2>5. \A f, g \in Threads : executing'[f] = executing'[g] /\ f # g => executing'[f] = Null
    BY <1>1 DEF PlacePart
  <2> QED BY <2>1, <2>2, <2>3, <2>4, <2>5 DEF PlacePart
<1>8. TypeOK'
  <2>1. /\ life' \in [AllTasks -> {"unborn", "live", "deleted"}]
        /\ canceled' \in [AllTasks -> BOOLEAN]
    BY DEF Delete, TypeOK
  <2>2. finish_callback' \in [AllTasks -> {"none", "promised", "kept"}]
    BY <1>1 DEF PromiseKept, TypeOK
  <2> QED BY <1>1, <1>2, <2>1, <2>2 DEF TypeOK, listVars
<1>9. CountPart'
  <2>1. ASSUME NEW r \in Recurring
        PROVE  life'[r] = "live" /\ ~canceled'[r] <=> life[r] = "live" /\ ~canceled[r]
    <3>1. r \in AllTasks
      BY DEF AllTasks
    <3>2. CASE r = t
      BY <1>3, <3>1, <3>2
    <3>3. CASE r # t
      BY <1>3, <3>1, <3>3
    <3> QED BY <3>2, <3>3
  <2>2. Counted' = Counted
    BY <2>1 DEF Counted
  <2> QED BY <1>2, <2>2 DEF CountPart
<1>10. DestroyedPart'
  <2> SUFFICES ASSUME destroyed
               PROVE  /\ shutdown' /\ Pending' = {} /\ recurring' = <<>>
                      /\ \A f \in Threads :
                           executing'[f] \in Recurring => canceled'[executing'[f]]
    BY <1>2 DEF DestroyedPart
  <2>1. ASSUME NEW f \in Threads, executing'[f] \in Recurring
        PROVE  canceled'[executing'[f]]
    <3>1. f # e /\ executing'[f] = executing[f] /\ executing[f] \in AllTasks
      BY <1>1, <2>1, ExecutorAssumption DEF AllTasks
    <3>2. executing[f] # t /\ canceled[executing[f]]
      BY <2>1, <3>1, ExecutorAssumption DEF DestroyedPart, PlacePart
    <3> QED BY <1>3, <3>1, <3>2
  <2> QED BY <1>2, <1>4, <2>1 DEF DestroyedPart
<1>11. TailPart'
  BY <1>2, <1>3, <1>4, TailStays DEF AllTasks
<1> QED BY <1>1, <1>4, <1>6, <1>7, <1>8, <1>9, <1>10, <1>11

LEMMA FinishTaskStep ==
  ASSUME TaskInvariant, NEW e \in Threads, FinishTask(e)
  PROVE  TaskInvariant'
<1>1. executing[e] \notin Recurring
  BY LocationFacts DEF FinishTask
<1>2. wait' = wait /\ wait \in [Recurring -> Nat]
  BY DEF FinishTask, TaskInvariant, TypeOK
<1> QED BY <1>1, <1>2, FinishDeletes DEF FinishTask

LEMMA FinishRecurringStep ==
  ASSUME TaskInvariant, NEW e \in Threads, FinishRecurring(e)
  PROVE  TaskInvariant'
<1> DEFINE r == executing[e]
<1>0. r \in Recurring /\ r \in AllTasks /\ r \notin Tasks /\ Finish(e)
  BY LocationFacts DEF FinishRecurring, AllTasks
<1>1. ASSUME canceled[r], finish_callback' = PromiseKept(r), Delete({r}),
             wait' = [wait EXCEPT ![r] = 0], UNCHANGED recurring
      PROVE  TaskInvariant'
  <2>1. wait \in [Recurring -> Nat]
    BY DEF TaskInvariant, TypeOK
  <2>2. /\ wait' \in [Recurring -> Nat]
        /\ \A s \in Recurring : s # r => wait'[s] = wait[s]
    BY <1>1, <2>1
  <2> QED BY <1>0, <1>1, <2>2, FinishDeletes
<1>2. ASSUME ~canceled[r], enqueue_recurring_task(r),
             UNCHANGED <<finish_callback, wait, life, canceled>>
      PROVE  TaskInvariant'
  <2> USE DEF TaskInvariant
  <2>1. /\ ThreadPart'
        /\ mutex' \in Threads \cup {Free}
        /\ pc' \in [Threads -> {"lock", "loop", "callback", "wait", "wait_until", "stopped"}]
        /\ executing' \in [Threads -> AllTasks \cup {Null}]
        /\ \A f \in Threads : executing'[f] = IF f = e THEN Null ELSE executing[f]
        /\ \A u \in AllTasks : Running(u)' <=> Running(u) /\ u # r
        /\ Running(r)
    BY <1>0, FinishThread
  <2>2. UNCHANGED <<shutdown, destroyed, listVars, task_recurring_count, until>>
    BY <1>0 DEF Finish
  <2>3. ListPart' /\ Pending' = Pending /\ lost' = lost
    BY <2>2, ListKept
  <2>4. r \notin Pending /\ r \notin PendingRecurring /\ life[r] = "live"
    BY <1>0, <2>1 DEF PlacePart
  <2>5. /\ recurring' \in Seq(Recurring) /\ RecurringPart'
        /\ PendingRecurring' = PendingRecurring \cup {r}
    BY <1>0, <1>2, <2>4, EnqueueEffect
  <2>6. ~destroyed
    BY <1>0, <1>2 DEF DestroyedPart
  <2>7. PlacePart'
    <3>1. \A u \in Tasks : life'[u] = "unborn" => next'[u] = Null
      BY <1>2, <2>2 DEF PlacePart, listVars
    <3>2. \A u \in AllTasks : canceled'[u] => Running(u)'
      BY <1>2, <2>1 DEF PlacePart
    <3>3. \A u \in AllTasks :
            life'[u] = "live" <=> u \in Pending' \cup PendingRecurring' \cup lost' \/ Running(u)'
      BY <1>2, <2>1, <2>3, <2>4, <2>5 DEF PlacePart
    <3>4. \A u \in Pending' \cup PendingRecurring' \cup lost' : ~Running(u)'
      <4>1. Pending \cup PendingRecurring \cup lost \in SUBSET AllTasks
        BY PendingTasks DEF PendingRecurring, TypeOK, AllTasks
      <4> QED BY <1>0, <2>1, <2>3, <2>5, <4>1 DEF PlacePart
    <3>5. \A f, g \in Threads : executing'[f] = executing'[g] /\ f # g => executing'[f] = Null
      BY <2>1 DEF PlacePart
    <3> QED BY <3>1, <3>2, <3>3, <3>4, <3>5 DEF PlacePart
  <2>8. TypeOK'
    BY <1>2, <2>1, <2>2, <2>5 DEF TypeOK, listVars
  <2>9. CountPart'
    BY <1>2, <2>2 DEF CountPart, Counted
  <2>10. DestroyedPart'
    BY <2>2, <2>6 DEF DestroyedPart
  <2>11. TailPart'
    BY <1>2, <2>2, <2>3, TailStays
  <2> QED BY <2>1, <2>3, <2>5, <2>7, <2>8, <2>9, <2>10, <2>11
<1> QED BY <1>1, <1>2 DEF FinishRecurring
-----------------------------------------------------------------------------
LEMMA InitTaskInvariant ==
  ASSUME Init
  PROVE  TaskInvariant
<1>1. <<>> \in Seq(Tasks) /\ <<>> \in Seq(Recurring) /\ Len(<<>>) = 0
  OBVIOUS
<1>2. Distinct(<<>>) /\ Elements(<<>>) = {}
  BY <1>1 DEF Distinct, Elements
<1>3. TypeOK
  BY <1>1 DEF Init, TypeOK, Locations
<1>4. ListIs(<<>>, next)
  BY <1>1, <1>2 DEF Init, ListIs, At, Locations
<1>5. ListPart /\ Pending = {}
  BY <1>1, <1>2, <1>4, PendingIs DEF ListPart, Init
<1>6. RecurringPart /\ PendingRecurring = {}
  BY <1>2 DEF Init, RecurringPart, PendingRecurring
<1>7. \A t \in AllTasks : ~Running(t)
  BY ExecutorAssumption DEF Init, Running
<1>8. PlacePart
  BY <1>5, <1>6, <1>7 DEF Init, PlacePart, AllTasks, Locations
<1>9. ThreadPart
  BY ExecutorAssumption DEF Init, ThreadPart
<1>10. Counted = {}
  BY DEF Init, Counted, AllTasks
<1>11. CountPart
  BY <1>10, FS_EmptySet DEF Init, CountPart
<1>12. TailPart
  BY <1>5, FS_EmptySet DEF Init, TailPart, Locations
<1>13. DestroyedPart
  BY DEF Init, DestroyedPart
<1> QED BY <1>3, <1>5, <1>6, <1>8, <1>9, <1>11, <1>12, <1>13 DEF TaskInvariant

LEMMA TaskInvariantHolds == Spec => []TaskInvariant
<1>1. Init => TaskInvariant
  BY InitTaskInvariant
<1>2. TaskInvariant /\ [Next]_vars => TaskInvariant'
  <2> SUFFICES ASSUME TaskInvariant, [Next]_vars PROVE TaskInvariant'
    OBVIOUS
  <2>1. ASSUME NEW t \in Tasks, schedule(t) PROVE TaskInvariant'
    BY <2>1, ScheduleStep
  <2>2. ASSUME NEW r \in Recurring, schedule_repeating(r) PROVE TaskInvariant'
    BY <2>2, ScheduleRepeatingStep
  <2>3. ASSUME NEW t \in AllTasks, NEW joinable \in BOOLEAN, cancel_task(t, joinable)
        PROVE  TaskInvariant'
    BY <2>3, CancelStep
  <2>4. CASE Shutdown
    BY <2>4, ShutdownStep
  <2>5. CASE Destroy
    BY <2>5, DestroyStep
  <2>6. CASE Tick
    BY <2>6, TickStep
  <2>7. ASSUME NEW e \in Threads, Lock(e) PROVE TaskInvariant'
    BY <2>7, LockStep
  <2>8. ASSUME NEW e \in Threads, Loop(e) PROVE TaskInvariant'
    BY <2>8, StopStep, TakeTaskStep, TakeRecurringStep, WaitStep DEF Loop
  <2>9. ASSUME NEW e \in Threads, FinishTask(e) PROVE TaskInvariant'
    BY <2>9, FinishTaskStep
  <2>10. ASSUME NEW e \in Threads, FinishRecurring(e) PROVE TaskInvariant'
    BY <2>10, FinishRecurringStep
  <2>11. ASSUME NEW e \in Threads, TimeOut(e) \/ SpuriousWake(e) PROVE TaskInvariant'
    BY <2>11, WakeStep
  <2>12. CASE UNCHANGED vars
    BY <2>12, StutterStep
  <2> QED BY <2>1, <2>2, <2>3, <2>4, <2>5, <2>6, <2>7, <2>8, <2>9, <2>10, <2>11, <2>12
             DEF Next
<1> QED BY <1>1, <1>2, PTL DEF Spec

\* The executor's variables keep their types: task_count and
\* task_recurring_count, which schedule and cancel_task add to and subtract
\* from, never go below zero.
THEOREM TasksTypeCorrect == Spec => []TypeOK
<1>1. TaskInvariant => TypeOK
  BY DEF TaskInvariant
<1> QED BY <1>1, TaskInvariantHolds, PTL

\* A task object of misc/task_executor.cpp is pending or executed by one
\* thread or deleted, never two of these, unless schedule has appended it to
\* no list; the counters are exact, and the recurring list is sorted.
THEOREM TaskInOnePlace == Spec => []OnePlace
<1>1. TaskInvariant => OnePlace
  <2> SUFFICES ASSUME TaskInvariant PROVE OnePlace
    OBVIOUS
  <2> USE DEF TaskInvariant
  <2>1. recurring \in Seq(Recurring) /\ Len(recurring) \in Nat
    BY DEF TypeOK
  <2>2. Cardinality(PendingRecurring) = Len(recurring)
    BY <2>1, ElementsCount DEF RecurringPart, PendingRecurring, Elements
  <2>3. \A i \in 1..(Len(recurring) - 1) : wait[recurring[i]] <= wait[recurring[i + 1]]
    BY <2>1 DEF RecurringPart
  <2> QED BY <2>2, <2>3
          DEF OnePlace, PlacePart, TailPart, CountPart, Counted, DestroyedPart
<1> QED BY <1>1, TaskInvariantHolds, PTL

\* The tail of the list is wrong only after a cancel of the last of several
\* pending tasks, and only until the list is empty: then the next schedule
\* appends where executor() looks.
THEOREM TailAlwaysHeals == Spec => []TailHeals
<1>1. TaskInvariant => TailHeals
  BY DEF TaskInvariant, TailPart, TailHeals
<1> QED BY <1>1, TaskInvariantHolds, PTL
=============================================================================
