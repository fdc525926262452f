------------------------- MODULE PacketEncoderProofs -------------------------
(***************************************************************************)
(* Theorems about PacketEncoder for any messages, any number of write      *)
(* events and resends and a socket that may be full.  The types hold       *)
(* always, the rest until a step has disturbed the queues (Ordered).  A    *)
(* list is the least linked set of packets, so what an operation does to   *)
(* the lists follows from set reasoning about the locations it writes.     *)
(***************************************************************************)
EXTENDS PacketEncoder, FiniteSetTheorems, SequenceTheorems,
        WellFoundedInduction, TLAPS

Contents == [Packets \cup Heads -> Packets \cup {Null}]

Acyclic(q) == \A p \in Packets : p \notin ListFrom(q, q[p])

\* The list that begins with x ends in t.
Ends(q, x, t) == /\ t \in ListFrom(q, x)
                 /\ \A p \in ListFrom(q, x) : q[p] = Null <=> p = t

\* The queue with head h ends in the location t.
QueueEnds(q, h, t) == IF q[h] = Null THEN t = h ELSE Ends(q, q[h], t)
-----------------------------------------------------------------------------
\* Packets, heads and Null are different things.
LEMMA Places ==
  /\ Null \notin Packets /\ SendHead \notin Packets /\ EncryptHead \notin Packets
  /\ SendHead # Null /\ EncryptHead # Null /\ SendHead # EncryptHead
BY EncoderAssumption DEF Heads

\* The list of x is linked and holds x.
LEMMA ListFacts ==
  ASSUME NEW q \in Contents, NEW x \in Packets \cup {Null}
  PROVE  /\ ListFrom(q, x) \subseteq Packets
         /\ \A p \in ListFrom(q, x) : q[p] \in ListFrom(q, x) \cup {Null}
         /\ x \in ListFrom(q, x) \cup {Null}
<1>1. ListFrom(q, x) \subseteq Packets
  BY DEF ListFrom
<1>2. ASSUME NEW p \in ListFrom(q, x), q[p] # Null PROVE q[p] \in ListFrom(q, x)
  <2>1. q[p] \in Packets
    BY <1>1, <1>2 DEF Contents
  <2>2. ASSUME NEW S \in SUBSET Packets, Linked(q, S), x \in S \cup {Null}
        PROVE  q[p] \in S
    BY <1>2, <2>2 DEF ListFrom, Linked
  <2> QED BY <2>1, <2>2 DEF ListFrom
<1>3. x \in ListFrom(q, x) \cup {Null}
  BY DEF ListFrom
<1> QED BY <1>1, <1>2, <1>3

\* It is the least such set.
LEMMA ListLeast ==
  ASSUME NEW q \in Contents, NEW x \in Packets \cup {Null},
         NEW S \in SUBSET Packets, x \in S \cup {Null},
         \A p \in S : q[p] \in S \cup {Null}
  PROVE  ListFrom(q, x) \subseteq S
BY DEF ListFrom, Linked

\* The empty list.
LEMMA ListOfNull ==
  ASSUME NEW q \in Contents
  PROVE  ListFrom(q, Null) = {}
<1>1. {} \in SUBSET Packets
  OBVIOUS
<1> QED BY <1>1, ListLeast

\* The list of x is x and the list of the next packet.
LEMMA ListStep ==
  ASSUME NEW q \in Contents, NEW x \in Packets
  PROVE  ListFrom(q, x) = {x} \cup ListFrom(q, q[x])
<1> DEFINE A == ListFrom(q, x)
           B == ListFrom(q, q[x])
<1>0. q[x] \in Packets \cup {Null} /\ x \in Packets \cup {Null} /\ Null \notin Packets
  BY Places DEF Contents
<1>1. A \subseteq Packets /\ (\A p \in A : q[p] \in A \cup {Null}) /\ x \in A
  BY <1>0, ListFacts
<1>2. B \subseteq Packets /\ (\A p \in B : q[p] \in B \cup {Null}) /\ q[x] \in B \cup {Null}
  BY <1>0, ListFacts
<1>3. B \subseteq A
  <2>1. q[x] \in A \cup {Null}
    BY <1>1
  <2> QED BY <1>0, <1>1, <2>1, ListLeast
<1>4. A \subseteq {x} \cup B
  <2> DEFINE S == {x} \cup B
  <2>1. S \in SUBSET Packets /\ x \in S \cup {Null} /\ \A p \in S : q[p] \in S \cup {Null}
    BY <1>2
  <2> HIDE DEF S
  <2>2. A \subseteq S
    BY <1>0, <2>1, ListLeast
  <2> QED BY <2>2 DEF S
<1> QED BY <1>1, <1>3, <1>4

\* A list depends on the next fields of its members only.
LEMMA ListFrame ==
  ASSUME NEW q \in Contents, NEW r \in Contents, NEW x \in Packets \cup {Null},
         \A p \in ListFrom(q, x) : r[p] = q[p]
  PROVE  ListFrom(r, x) = ListFrom(q, x)
<1> DEFINE A == ListFrom(q, x)
           B == ListFrom(r, x)
<1>1. A \subseteq Packets /\ (\A p \in A : q[p] \in A \cup {Null}) /\ x \in A \cup {Null}
  BY ListFacts
<1>2. B \subseteq Packets /\ (\A p \in B : r[p] \in B \cup {Null}) /\ x \in B \cup {Null}
  BY ListFacts
<1>3. B \subseteq A
  BY <1>1, ListLeast
<1>4. A \subseteq B
  <2>1. \A p \in B : q[p] \in B \cup {Null}
    BY <1>2, <1>3
  <2> QED BY <1>2, <2>1, ListLeast
<1> QED BY <1>3, <1>4

\* Heads are not members of lists.
LEMMA SameNexts ==
  ASSUME NEW q \in Contents, NEW r \in Contents, \A p \in Packets : r[p] = q[p]
  PROVE  /\ \A x \in Packets \cup {Null} : ListFrom(r, x) = ListFrom(q, x)
         /\ Acyclic(q) => Acyclic(r)
<1>1. ASSUME NEW x \in Packets \cup {Null} PROVE ListFrom(r, x) = ListFrom(q, x)
  <2>1. \A p \in ListFrom(q, x) : r[p] = q[p]
    BY ListFacts
  <2> QED BY <2>1, ListFrame
<1>2. \A p \in Packets : q[p] \in Packets \cup {Null}
  BY DEF Contents
<1> QED BY <1>1, <1>2 DEF Acyclic

\* The list y is linked behind t, the end of a list.
LEMMA ListJoined ==
  ASSUME NEW q \in Contents, NEW r \in Contents,
         NEW t \in Packets, NEW y \in Packets \cup {Null},
         q[t] = Null, r[t] = y, \A p \in Packets \ {t} : r[p] = q[p],
         t \notin ListFrom(q, y)
  PROVE  /\ \A x \in Packets \cup {Null} :
              ListFrom(r, x) = IF t \in ListFrom(q, x)
                               THEN ListFrom(q, x) \cup ListFrom(q, y)
                               ELSE ListFrom(q, x)
         /\ Acyclic(q) => Acyclic(r)
<1> DEFINE Y == ListFrom(q, y)
<1>0. /\ Null \notin Packets /\ \A p \in Packets : q[p] \in Packets \cup {Null}
      /\ \A p \in Packets : r[p] \in Packets \cup {Null}
  BY Places DEF Contents
<1>1. Y \subseteq Packets /\ (\A p \in Y : q[p] \in Y \cup {Null}) /\ y \in Y \cup {Null}
  BY ListFacts
<1>2. ASSUME NEW x \in Packets \cup {Null}, t \notin ListFrom(q, x)
      PROVE  ListFrom(r, x) = ListFrom(q, x)
  <2>1. \A p \in ListFrom(q, x) : r[p] = q[p]
    BY <1>2, ListFacts
  <2> QED BY <2>1, ListFrame
<1>3. ASSUME NEW x \in Packets \cup {Null}, t \in ListFrom(q, x)
      PROVE  ListFrom(r, x) = ListFrom(q, x) \cup Y
  <2> DEFINE A == ListFrom(q, x)
             B == ListFrom(r, x)
             C == A \cup Y
  <2>1. A \subseteq Packets /\ (\A p \in A : q[p] \in A \cup {Null}) /\ x \in A \cup {Null}
    BY ListFacts
  <2>2. B \subseteq Packets /\ (\A p \in B : r[p] \in B \cup {Null}) /\ x \in B \cup {Null}
    BY ListFacts
  <2>3. B \subseteq C
    <3>1. C \in SUBSET Packets /\ x \in C \cup {Null}
      BY <1>1, <2>1
    <3>2. ASSUME NEW p \in C PROVE r[p] \in C \cup {Null}
      BY <1>1, <2>1, <3>1
    <3> HIDE DEF C
    <3> QED BY <3>1, <3>2, ListLeast
  <2>4. A \subseteq B
    <3>1. \A p \in B : q[p] \in B \cup {Null}
      BY <2>2
    <3> QED BY <2>2, <3>1, ListLeast
  <2>5. Y \subseteq B
    <3>1. y \in B \cup {Null} /\ \A p \in B : q[p] \in B \cup {Null}
      BY <1>3, <2>2, <2>4
    <3> QED BY <2>2, <3>1, ListLeast
  <2> QED BY <2>3, <2>4, <2>5
<1>4. ASSUME Acyclic(q), NEW p \in Packets PROVE p \notin ListFrom(r, r[p])
  <2>1. CASE p = t
    BY <1>2, <2>1
  <2>2. CASE p # t /\ t \notin ListFrom(q, q[p])
    BY <1>0, <1>2, <1>4, <2>2 DEF Acyclic
  <2>3. CASE p # t /\ t \in ListFrom(q, q[p])
    <3>1. ListFrom(r, r[p]) = ListFrom(q, q[p]) \cup Y
      BY <1>0, <1>3, <2>3
    <3>2. ASSUME p \in Y PROVE FALSE
      <4>1. q[p] \in Y \cup {Null}
        BY <1>1, <3>2
      <4>2. ListFrom(q, q[p]) \subseteq Y
        BY <1>0, <1>1, <4>1, ListLeast
      <4> QED BY <2>3, <4>2
    <3> QED BY <1>4, <3>1, <3>2 DEF Acyclic
  <2> QED BY <2>1, <2>2, <2>3
<1> QED BY <1>2, <1>3, <1>4 DEF Acyclic

\* The end of a list of which another one was appended.
LEMMA EndsJoined ==
  ASSUME NEW q \in Contents, NEW r \in Contents,
         NEW t \in Packets, NEW x \in Packets \cup {Null}, NEW y \in Packets, NEW u,
         r[t] = y, \A p \in Packets \ {t} : r[p] = q[p],
         t \notin ListFrom(q, y), Ends(q, x, t), Ends(q, y, u)
  PROVE  /\ ListFrom(r, x) = ListFrom(q, x) \cup ListFrom(q, y)
         /\ Ends(r, x, u)
<1>0. q[t] = Null /\ t \in ListFrom(q, x) /\ y \in Packets \cup {Null}
  BY DEF Ends
<1>1. ListFrom(r, x) = ListFrom(q, x) \cup ListFrom(q, y)
  BY <1>0, ListJoined
<1>2. /\ ListFrom(q, x) \subseteq Packets /\ ListFrom(q, y) \subseteq Packets
      /\ Null \notin Packets
  BY ListFacts, Places
<1>3. u \in ListFrom(r, x)
  BY <1>1 DEF Ends
<1>4. ASSUME NEW p \in ListFrom(r, x) PROVE r[p] = Null <=> p = u
  <2>1. CASE p = t
    BY <1>2, <2>1 DEF Ends
  <2>2. CASE p # t
    <3>1. r[p] = q[p]
      BY <1>1, <1>2, <2>2
    <3>2. CASE p \in ListFrom(q, y)
      BY <3>1, <3>2 DEF Ends
    <3>3. CASE p \in ListFrom(q, x)
      BY <2>2, <3>1, <3>3 DEF Ends
    <3> QED BY <1>1, <3>2, <3>3
  <2> QED BY <2>1, <2>2
<1> QED BY <1>1, <1>3, <1>4 DEF Ends

\* The next field of p is cleared.
LEMMA ListCut ==
  ASSUME NEW q \in Contents, NEW r \in Contents, NEW c \in Packets,
         r[c] = Null, \A p \in Packets \ {c} : r[p] = q[p]
  PROVE  /\ \A x \in Packets \cup {Null} :
              c \notin ListFrom(q, x) => ListFrom(r, x) = ListFrom(q, x)
         /\ Acyclic(q) => Acyclic(r)
<1>0. /\ Null \notin Packets /\ \A p \in Packets : q[p] \in Packets \cup {Null}
      /\ \A p \in Packets : r[p] \in Packets \cup {Null}
  BY Places DEF Contents
<1>1. ASSUME NEW x \in Packets \cup {Null}, c \notin ListFrom(q, x)
      PROVE  ListFrom(r, x) = ListFrom(q, x)
  <2>1. \A p \in ListFrom(q, x) : r[p] = q[p]
    BY <1>1, ListFacts
  <2> QED BY <2>1, ListFrame
<1>2. ASSUME NEW x \in Packets \cup {Null}
      PROVE  ListFrom(r, x) \subseteq ListFrom(q, x)
  <2>1. /\ ListFrom(q, x) \in SUBSET Packets /\ x \in ListFrom(q, x) \cup {Null}
        /\ \A p \in ListFrom(q, x) : r[p] \in ListFrom(q, x) \cup {Null}
    BY ListFacts
  <2> QED BY <2>1, ListLeast
<1>3. ListFrom(r, Null) = {}
  BY ListOfNull
<1>4. ASSUME Acyclic(q), NEW p \in Packets PROVE p \notin ListFrom(r, r[p])
  <2>1. CASE p = c
    BY <1>3, <2>1
  <2>2. CASE p # c
    BY <1>0, <1>2, <1>4, <2>2 DEF Acyclic
  <2> QED BY <2>1, <2>2
<1> QED BY <1>1, <1>4 DEF Acyclic

\* A list and its end depend on the next fields of its members only.
LEMMA EndsFrame ==
  ASSUME NEW q \in Contents, NEW r \in Contents, NEW x \in Packets \cup {Null},
         \A p \in ListFrom(q, x) : r[p] = q[p]
  PROVE  /\ ListFrom(r, x) = ListFrom(q, x)
         /\ \A t : Ends(q, x, t) => Ends(r, x, t)
BY ListFrame DEF Ends

\* A list that begins with y is appended at the tail of the queue h.
LEMMA Appended ==
  ASSUME NEW q \in Contents, NEW r \in Contents, NEW h \in Heads,
         NEW t \in Packets \cup Heads, NEW y \in Packets, NEW u \in Packets,
         QueueEnds(q, h, t), Ends(q, y, u), t \notin ListFrom(q, y), Acyclic(q),
         r[t] = y, \A l \in Packets \cup Heads : l # t => r[l] = q[l]
  PROVE  /\ Acyclic(r)
         /\ ListFrom(r, r[h]) = ListFrom(q, q[h]) \cup ListFrom(q, y)
         /\ QueueEnds(r, h, u)
         /\ \A x \in Packets \cup {Null} : t \notin ListFrom(q, x) =>
              ListFrom(r, x) = ListFrom(q, x)
<1>0. /\ Null \notin Packets /\ h \notin Packets /\ h # Null
      /\ \A l \in Packets \cup Heads : q[l] \in Packets \cup {Null}
  BY EncoderAssumption DEF Contents, Heads
<1>1. CASE q[h] = Null
  <2>1. t = h
    BY <1>1 DEF QueueEnds
  <2>2. \A p \in Packets : r[p] = q[p]
    BY <1>0, <2>1
  <2>3. /\ \A x \in Packets \cup {Null} : ListFrom(r, x) = ListFrom(q, x)
        /\ Acyclic(r)
    BY <2>2, SameNexts
  <2>4. r[h] = y /\ ListFrom(q, q[h]) = {} /\ ListFrom(q, y) \subseteq Packets
    BY <1>0, <1>1, <2>1, ListOfNull, ListFacts
  <2>5. Ends(r, y, u)
    BY <2>2, <2>3, <2>4 DEF Ends
  <2> QED BY <1>0, <2>3, <2>4, <2>5 DEF QueueEnds
<1>2. CASE q[h] # Null
  <2>1. Ends(q, q[h], t) /\ q[h] \in Packets \cup {Null} /\ h \in Packets \cup Heads
    BY <1>0, <1>2 DEF QueueEnds
  <2>2. t \in Packets /\ q[t] = Null /\ y \in Packets \cup {Null}
    BY <2>1, ListFacts DEF Ends
  <2>a. \A p \in Packets \ {t} : r[p] = q[p]
    BY <1>0
  <2>3. /\ \A x \in Packets \cup {Null} : t \notin ListFrom(q, x) =>
              ListFrom(r, x) = ListFrom(q, x)
        /\ Acyclic(r)
    BY <2>2, <2>a, ListJoined
  <2>4. r[h] = q[h]
    BY <1>0, <2>1, <2>2
  <2>5. /\ ListFrom(r, q[h]) = ListFrom(q, q[h]) \cup ListFrom(q, y)
        /\ Ends(r, q[h], u)
    BY <2>1, <2>2, <2>a, EndsJoined
  <2> QED BY <1>0, <1>2, <2>3, <2>4, <2>5 DEF QueueEnds
<1> QED BY <1>1, <1>2

\* The first packet of the queue h is taken out.
LEMMA PoppedList ==
  ASSUME NEW q \in Contents, NEW r \in Contents, NEW h \in Heads,
         NEW t \in Packets \cup Heads, NEW c \in Packets,
         QueueEnds(q, h, t), Acyclic(q), q[h] = c,
         r[h] = q[c], r[c] = Null,
         \A l \in Packets \cup Heads : l \notin {c, h} => r[l] = q[l]
  PROVE  /\ Acyclic(r)
         /\ ListFrom(q, q[h]) = {c} \cup ListFrom(r, r[h])
         /\ c \notin ListFrom(r, r[h])
         /\ QueueEnds(r, h, IF q[c] = Null THEN h ELSE t)
         /\ \A x \in Packets \cup {Null} : c \notin ListFrom(q, x) =>
              ListFrom(r, x) = ListFrom(q, x)
<1>0. /\ Null \notin Packets /\ h \notin Packets /\ h # Null
      /\ \A l \in Packets \cup Heads : q[l] \in Packets \cup {Null}
  BY EncoderAssumption DEF Contents, Heads
<1>1. \A p \in Packets \ {c} : r[p] = q[p]
  BY <1>0
<1>2. /\ \A x \in Packets \cup {Null} : c \notin ListFrom(q, x) =>
              ListFrom(r, x) = ListFrom(q, x)
      /\ Acyclic(r)
  BY <1>1, ListCut
<1>3. c \notin ListFrom(q, q[c]) /\ ListFrom(q, c) = {c} \cup ListFrom(q, q[c])
  BY ListStep DEF Acyclic
<1>4. ListFrom(r, r[h]) = ListFrom(q, q[c]) /\ ListFrom(q, q[c]) \subseteq Packets
  BY <1>0, <1>2, <1>3, ListFacts
<1>5. Ends(q, c, t)
  BY <1>0 DEF QueueEnds
<1>6. CASE q[c] = Null
  BY <1>0, <1>2, <1>3, <1>4, <1>6 DEF QueueEnds
<1>7. CASE q[c] # Null
  <2>1. t # c /\ t \in ListFrom(q, q[c])
    BY <1>3, <1>5, <1>7 DEF Ends
  <2>2. \A p \in ListFrom(q, q[c]) : r[p] = Null <=> p = t
    BY <1>1, <1>3, <1>4, <1>5 DEF Ends
  <2>3. QueueEnds(r, h, t)
    BY <1>0, <1>4, <1>7, <2>1, <2>2 DEF QueueEnds, Ends
  <2> QED BY <1>0, <1>2, <1>3, <1>4, <1>7, <2>3
<1> QED BY <1>6, <1>7

\* A packet outside the lists is put in front of the queue h.
LEMMA PrependedList ==
  ASSUME NEW q \in Contents, NEW r \in Contents, NEW h \in Heads,
         NEW t \in Packets \cup Heads, NEW c \in Packets,
         QueueEnds(q, h, t), Acyclic(q), q[c] = Null, c \notin ListFrom(q, q[h]),
         r[c] = q[h], r[h] = c,
         \A l \in Packets \cup Heads : l \notin {c, h} => r[l] = q[l]
  PROVE  /\ Acyclic(r)
         /\ ListFrom(r, r[h]) = {c} \cup ListFrom(q, q[h])
         /\ QueueEnds(r, h, IF q[h] = Null THEN c ELSE t)
         /\ \A x \in Packets \cup {Null} : c \notin ListFrom(q, x) =>
              ListFrom(r, x) = ListFrom(q, x)
<1>0. /\ Null \notin Packets /\ h \notin Packets /\ h # Null
      /\ \A l \in Packets \cup Heads : q[l] \in Packets \cup {Null}
  BY EncoderAssumption DEF Contents, Heads
<1> DEFINE y == q[h]
<1>1. \A p \in Packets \ {c} : r[p] = q[p]
  BY <1>0
<1>2. y \in Packets \cup {Null}
  BY <1>0
<1>3. /\ \A x \in Packets \cup {Null} :
           ListFrom(r, x) = IF c \in ListFrom(q, x)
                            THEN ListFrom(q, x) \cup ListFrom(q, y)
                            ELSE ListFrom(q, x)
      /\ Acyclic(r)
  <2>1. r[c] = y /\ c \notin ListFrom(q, y)
    BY <1>0
  <2> HIDE DEF y
  <2> QED BY <1>1, <1>2, <2>1, ListJoined
<1>4. ListFrom(q, c) = {c}
  BY ListStep, ListOfNull
<1>5. ListFrom(r, c) = {c} \cup ListFrom(q, y)
  BY <1>3, <1>4
<1>6. CASE y = Null
  <2>1. ListFrom(q, y) = {}
    BY <1>6, ListOfNull
  <2>2. Ends(r, c, c)
    BY <1>0, <1>5, <1>6, <2>1 DEF Ends
  <2> QED BY <1>0, <1>3, <1>5, <1>6, <2>2 DEF QueueEnds
<1>7. CASE y # Null
  <2>1. Ends(q, y, t) /\ ListFrom(q, y) \subseteq Packets
    BY <1>2, <1>7, ListFacts DEF QueueEnds
  <2>2. Ends(r, c, t)
    <3>1. t \in ListFrom(r, c) /\ t # c
      BY <1>5, <2>1 DEF Ends
    <3>2. ASSUME NEW p \in ListFrom(r, c) PROVE r[p] = Null <=> p = t
      BY <1>0, <1>1, <1>5, <1>7, <2>1, <3>1 DEF Ends
    <3> QED BY <3>1, <3>2 DEF Ends
  <2> QED BY <1>0, <1>3, <1>5, <1>7, <2>2 DEF QueueEnds
<1> QED BY <1>6, <1>7
-----------------------------------------------------------------------------
Smaller == {p \in Nat \X Nat : p[1] < p[2]}

\* A set of natural numbers has a least element.
LEMMA LeastNumber ==
  ASSUME NEW T \in SUBSET Nat, T # {}
  PROVE  \E x \in T : \A y \in T : x <= y
<1>1. IsWellFoundedOn(Smaller, Nat)
  BY NatLessThanWellFounded DEF OpToRel, Smaller
<1>2. PICK x \in T : \A y \in T : <<y, x>> \notin Smaller
  BY <1>1, WFMin
<1>3. ASSUME NEW y \in T PROVE x <= y
  <2>1. x \in Nat /\ y \in Nat
    OBVIOUS
  <2>2. ~(y < x)
    BY <1>2, <2>1 DEF Smaller
  <2> QED BY <2>1, <2>2
<1> QED BY <1>3

\* A message is a sequence of different packets.
LEMMA MessageFacts ==
  ASSUME NEW m \in Messages
  PROVE  /\ Len(m) \in Nat /\ Len(m) >= 1
         /\ \A i \in 1..Len(m) : m[i] \in Packets /\ m[i] \in ElementsOf(m)
         /\ ElementsOf(m) \subseteq Packets
         /\ m[1] \in ElementsOf(m) /\ m[Len(m)] \in ElementsOf(m)
         /\ \A i, j \in 1..Len(m) : m[i] = m[j] => i = j
<1>1. m \in Seq(Packets) /\ m # <<>>
  BY EncoderAssumption
<1>2. Len(m) \in Nat /\ Len(m) >= 1
  BY <1>1, EmptySeq
<1>3. \A i \in 1..Len(m) : m[i] \in Packets
  BY <1>1, ElementOfSeq
<1>4. 1 \in 1..Len(m) /\ Len(m) \in 1..Len(m)
  BY <1>2
<1>5. \A i, j \in 1..Len(m) : m[i] = m[j] => i = j
  BY EncoderAssumption
<1> QED BY <1>2, <1>3, <1>4, <1>5 DEF ElementsOf

\* The packets of different messages differ.
LEMMA MessagesApart ==
  ASSUME NEW m \in Messages, NEW n \in Messages, m # n
  PROVE  ElementsOf(m) \cap ElementsOf(n) = {}
BY EncoderAssumption

\* A message whose packets are linked one behind the other is a list.
LEMMA MessageList ==
  ASSUME NEW q \in Contents, NEW r \in Contents, NEW m \in Messages,
         \A i \in 1..(Len(m) - 1) : r[m[i]] = m[i + 1],
         r[m[Len(m)]] = Null,
         \A p \in Packets \ ElementsOf(m) : r[p] = q[p]
  PROVE  /\ ListFrom(r, m[1]) = ElementsOf(m)
         /\ Ends(r, m[1], m[Len(m)])
         /\ Acyclic(q) => Acyclic(r)
<1> DEFINE L == Len(m)
           E == ElementsOf(m)
<1>0. /\ L \in Nat /\ L >= 1 /\ E \subseteq Packets /\ m[1] \in E /\ m[L] \in E
      /\ \A i \in 1..L : m[i] \in Packets /\ m[i] \in E
      /\ \A i, j \in 1..L : m[i] = m[j] => i = j
      /\ Null \notin Packets
  BY MessageFacts, Places
<1>a. \A p \in E : \E i \in 1..L : p = m[i]
  BY DEF ElementsOf
<1>b. \A i \in 1..L : i = L \/ (i \in 1..(L - 1) /\ i + 1 \in 1..L)
  BY <1>0
<1>1. \A p \in E : r[p] \in E \cup {Null}
  BY <1>0, <1>a, <1>b
<1>2. ListFrom(r, m[1]) \subseteq E
  BY <1>0, <1>1, ListLeast
<1>3. \A i \in 1..L : m[i] \in ListFrom(r, m[1])
  <2> DEFINE A == ListFrom(r, m[1])
             Out == {i \in 1..L : m[i] \notin A}
  <2>1. /\ A \subseteq Packets /\ \A p \in A : r[p] \in A \cup {Null}
        /\ m[1] \in A \cup {Null}
    BY <1>0, ListFacts
  <2>2. m[1] \in A
    BY <1>0, <2>1
  <2> HIDE DEF A
  <2>3. SUFFICES ASSUME Out # {} PROVE FALSE
    BY DEF A
  <2>4. Out \in SUBSET Nat
    BY <1>0
  <2>5. PICK k \in Out : \A j \in Out : k <= j
    BY <2>3, <2>4, LeastNumber
  <2>6. k \in 1..L /\ m[k] \notin A /\ k # 1
    BY <2>2, <2>5
  <2>7. k - 1 \in 1..(L - 1) /\ k - 1 \in 1..L /\ (k - 1) + 1 = k /\ ~(k <= k - 1)
    BY <1>0, <2>6
  <2>8. m[k - 1] \in A
    BY <2>5, <2>7
  <2>9. r[m[k - 1]] = m[k]
    BY <2>7
  <2>10. m[k] \in Packets
    BY <1>0, <2>6
  <2> QED BY <1>0, <2>1, <2>6, <2>8, <2>9, <2>10
<1>4. ListFrom(r, m[1]) = E
  BY <1>2, <1>3, <1>a
<1>5. Ends(r, m[1], m[L])
  <2>1. ASSUME NEW p \in E PROVE r[p] = Null <=> p = m[L]
    <3>1. PICK i \in 1..L : p = m[i]
      BY <1>a
    <3>2. CASE i = L
      BY <3>1, <3>2
    <3>3. CASE i \in 1..(L - 1) /\ i + 1 \in 1..L
      <4>1. i # L /\ L \in 1..L
        BY <1>0, <3>3
      <4>2. r[p] = m[i + 1] /\ m[i + 1] \in Packets
        BY <1>0, <3>1, <3>3
      <4> QED BY <1>0, <3>1, <4>1, <4>2
    <3> QED BY <1>b, <3>2, <3>3
  <2> QED BY <1>0, <1>4, <2>1 DEF Ends
<1>6. ASSUME Acyclic(q), NEW p \in Packets PROVE p \notin ListFrom(r, r[p])
  <2>0. r[p] \in Packets \cup {Null} /\ q[p] \in Packets \cup {Null}
    BY DEF Contents
  <2>1. CASE p \in E
    <3>1. PICK i \in 1..L : p = m[i]
      BY <1>a, <2>1
    <3>2. CASE i = L
      <4>1. ListFrom(r, r[p]) = {}
        BY <3>1, <3>2, ListOfNull
      <4> QED BY <4>1
    <3>3. CASE i \in 1..(L - 1) /\ i + 1 \in 1..L
      <4> DEFINE S == {m[j] : j \in (i + 1)..L}
      <4>1. \A j \in (i + 1)..L : j \in 1..L /\ j # i /\ (j = L \/ (j \in 1..(L - 1) /\ j + 1 \in (i + 1)..L))
        BY <1>0, <3>3
      <4>2. S \in SUBSET Packets /\ p \notin S
        BY <1>0, <3>1, <4>1
      <4>3. i + 1 \in (i + 1)..L
        BY <1>0, <3>3
      <4>4. r[p] \in S \cup {Null}
        BY <3>1, <3>3, <4>3
      <4>5. ASSUME NEW x \in S PROVE r[x] \in S \cup {Null}
        <5>1. PICK j \in (i + 1)..L : x = m[j]
          OBVIOUS
        <5>2. CASE j = L
          BY <5>1, <5>2
        <5>3. CASE j \in 1..(L - 1) /\ j + 1 \in (i + 1)..L
          BY <5>1, <5>3
        <5> QED BY <4>1, <5>2, <5>3
      <4> HIDE DEF S
      <4>6. ListFrom(r, r[p]) \subseteq S
        BY <2>0, <4>2, <4>4, <4>5, ListLeast
      <4> QED BY <4>2, <4>6
    <3> QED BY <1>b, <3>2, <3>3
  <2>2. CASE p \notin E
    <3> DEFINE A == ListFrom(q, q[p])
               S == A \cup E
    <3>1. A \subseteq Packets /\ (\A x \in A : q[x] \in A \cup {Null}) /\ q[p] \in A \cup {Null}
      BY <2>0, ListFacts
    <3>2. S \in SUBSET Packets /\ r[p] \in S \cup {Null} /\ p \notin S
      BY <1>0, <1>6, <2>2, <3>1 DEF Acyclic
    <3>3. \A x \in S : r[x] \in S \cup {Null}
      BY <1>1, <3>1
    <3> HIDE DEF S
    <3>4. ListFrom(r, r[p]) \subseteq S
      BY <2>0, <3>2, <3>3, ListLeast
    <3> QED BY <3>2, <3>4
  <2> QED BY <2>1, <2>2
<1> QED BY <1>4, <1>5, <1>6 DEF Acyclic
-----------------------------------------------------------------------------
SendQ == QueueOf(SendHead)
EncQ == QueueOf(EncryptHead)
TakenQ == ListFrom(ptr, taken.head)
CurrentQ == ListFrom(ptr, taken.current)   \* not encrypted yet

\* Packets of messages that are not built, or not enqueued yet
Fresh == {p \in Packets : \E m \in Messages : p \in ElementsOf(m) /\ progress[m] = 0}
Private == {p \in Packets : \E m \in Messages :
                              p \in ElementsOf(m) /\ progress[m] \in 1..(Len(m) + 1)}

\* encrypt_pending_packets is at work.
Taking == \E m \in Messages : progress[m] = Len(m) + 4

\* The lists and their ends.
ListPart ==
  /\ Acyclic(ptr)
  /\ QueueEnds(ptr, SendHead, send_queue_tail)
  /\ QueueEnds(ptr, EncryptHead, encrypt_queue_tail)
MessageOK(m) ==
  /\ progress[m] \in 1..(Len(m) + 1) =>
       ListFrom(ptr, m[1]) = ElementsOf(m) /\ Ends(ptr, m[1], m[Len(m)])
  /\ progress[m] = 0 => \A p \in ElementsOf(m) : ptr[p] = Null
  /\ progress[m] = Len(m) + 4 => m \in Handshake
MessagePart == \A m \in Messages : MessageOK(m)
TakenPart ==
  IF Taking THEN /\ Ends(ptr, taken.head, taken.tail)
                 /\ taken.current \in TakenQ \cup {Null}
            ELSE taken = NothingTaken

Used == SendQ \cup InHand("write") \cup Written

\* Where a packet can be at once.
PlacePart ==
  /\ \A p \in Fresh \cup Private :
       p \notin EncQ /\ p \notin TakenQ /\ p \notin InHand("encrypt") /\ p \notin Used
  /\ \A p \in EncQ : p \notin TakenQ /\ p \notin InHand("encrypt") /\ p \notin Used
  /\ \A p \in TakenQ : p \notin InHand("encrypt") /\ p \notin Used
  /\ \A p \in InHand("encrypt") : p \notin Used
HandPart ==
  /\ \A v, w \in Writers :
       pc[v] = "encrypt" /\ pc[w] = "encrypt" /\ packet[v] = packet[w] => v = w
  /\ \A w \in Writers : pc[w] \in {"encrypt", "write"} => packet[w] \in Packets
TickPart == \A p \in entries \cup {buffer} : p \notin Fresh

\* How often a packet was encrypted.
CryptPart ==
  /\ \A p \in Fresh \cup Private \cup EncQ \cup InHand("encrypt") \cup CurrentQ :
       crypt[p] = 0
  /\ \A p \in Used \cup (TakenQ \ CurrentQ) : crypt[p] = 1

\* The references to a packet: of a queue, of writers, of the acknowledge
\* manager or the tick thread.
Holders(p) == {w \in Writers : pc[w] \in {"encrypt", "write"} /\ packet[w] = p}
Queued(p) == IF p \in Private \cup EncQ \cup TakenQ \cup SendQ THEN 1 ELSE 0
Listed(p) == IF p \in entries \cup {buffer} THEN 1 ELSE 0
RefPart == \A p \in Packets : refs[p] >= Queued(p) + Cardinality(Holders(p)) + Listed(p)

\* Every datagram was encrypted once.
WirePart == \A d \in wire : d[2] = 1

Inv == /\ TypeOK /\ ListPart /\ MessagePart /\ TakenPart
       /\ PlacePart /\ HandPart /\ TickPart /\ CryptPart /\ RefPart /\ WirePart
-----------------------------------------------------------------------------
\* The types of what the invariant speaks of.
LEMMA Sets ==
  ASSUME TypeOK
  PROVE  /\ ptr \in Contents
         /\ ptr[SendHead] \in Packets \cup {Null} /\ ptr[EncryptHead] \in Packets \cup {Null}
         /\ \A p \in Packets : ptr[p] \in Packets \cup {Null}
         /\ taken.head \in Packets \cup {Null} /\ taken.current \in Packets \cup {Null}
         /\ taken.tail \in Packets \cup Heads
         /\ SendQ \subseteq Packets /\ EncQ \subseteq Packets
         /\ TakenQ \subseteq Packets /\ CurrentQ \subseteq Packets
         /\ Fresh \subseteq Packets /\ Private \subseteq Packets
         /\ Written \subseteq Packets
<1>1. ptr \in Contents
  BY DEF TypeOK, Contents
<1>2. /\ ptr[SendHead] \in Packets \cup {Null} /\ ptr[EncryptHead] \in Packets \cup {Null}
      /\ \A p \in Packets : ptr[p] \in Packets \cup {Null}
  BY DEF TypeOK, Heads
<1>3. /\ taken.head \in Packets \cup {Null} /\ taken.current \in Packets \cup {Null}
      /\ taken.tail \in Packets \cup Heads
  BY DEF TypeOK
<1>4. /\ SendQ \subseteq Packets /\ EncQ \subseteq Packets
      /\ TakenQ \subseteq Packets /\ CurrentQ \subseteq Packets
  BY <1>1, <1>2, <1>3, ListFacts DEF SendQ, EncQ, TakenQ, CurrentQ, QueueOf
<1>5. Written \subseteq Packets
  BY DEF TypeOK, Written
<1> QED BY <1>1, <1>2, <1>3, <1>4, <1>5 DEF Fresh, Private

\* encrypt_pending_packets works on a list of packets; without it there is none.
LEMMA TakenFacts ==
  ASSUME TypeOK, TakenPart
  PROVE  /\ CurrentQ \subseteq TakenQ
         /\ ~Taking => TakenQ = {} /\ CurrentQ = {}
         /\ Taking => /\ taken.head \in Packets /\ taken.tail \in Packets
                      /\ taken.tail \in TakenQ /\ ptr[taken.tail] = Null
<1>0. /\ ptr \in Contents /\ taken.head \in Packets \cup {Null}
      /\ taken.current \in Packets \cup {Null} /\ TakenQ \subseteq Packets
      /\ \A p \in Packets : ptr[p] \in Packets \cup {Null}
  BY Sets
<1>1. ListFrom(ptr, Null) = {}
  BY <1>0, ListOfNull
<1>2. CASE Taking
  <2>1. Ends(ptr, taken.head, taken.tail) /\ taken.current \in TakenQ \cup {Null}
    BY <1>2 DEF TakenPart
  <2>2. taken.tail \in TakenQ /\ ptr[taken.tail] = Null
    BY <2>1 DEF Ends, TakenQ
  <2>3. taken.head # Null
    BY <1>1, <2>2 DEF TakenQ
  <2>4. \A p \in TakenQ : ptr[p] \in TakenQ \cup {Null}
    BY <1>0, ListFacts DEF TakenQ
  <2>5. CurrentQ \subseteq TakenQ
    BY <1>0, <2>1, <2>4, ListLeast DEF CurrentQ
  <2> QED BY <1>0, <1>2, <2>2, <2>3, <2>5
<1>3. CASE ~Taking
  <2>1. taken.head = Null /\ taken.current = Null
    BY <1>3 DEF TakenPart, NothingTaken
  <2> QED BY <1>1, <1>3, <2>1 DEF TakenQ, CurrentQ
<1> QED BY <1>2, <1>3

\* At most one thread is in encrypt_pending_packets.
LEMMA OneTaking ==
  ASSUME MessagePart, NEW m \in Messages, NEW n \in Messages,
         progress[m] = Len(m) + 4, progress[n] = Len(n) + 4
  PROVE  m = n
BY EncoderAssumption DEF MessagePart, MessageOK

\* A message leaves one phase for another.
LEMMA PhaseStep ==
  ASSUME TypeOK, NEW m \in Messages, progress' = [progress EXCEPT ![m] = progress'[m]],
         progress'[m] \in Nat, progress'[m] # 0
  PROVE  /\ Fresh' = Fresh \ ElementsOf(m)
         /\ Private' = IF progress'[m] \in 1..(Len(m) + 1)
                       THEN Private \cup ElementsOf(m) ELSE Private \ ElementsOf(m)
         /\ \A n \in Messages : n # m => progress'[n] = progress[n]
<1>1. \A n \in Messages : n # m => progress'[n] = progress[n]
  BY DEF TypeOK
<1>2. ElementsOf(m) \subseteq Packets
  BY MessageFacts
<1>3. \A n \in Messages : n # m => \A p \in ElementsOf(m) : p \notin ElementsOf(n)
  BY MessagesApart
<1>4. ASSUME NEW p \in Packets
      PROVE  p \in Fresh' <=> p \in Fresh /\ p \notin ElementsOf(m)
  BY <1>1, <1>3 DEF Fresh
<1>5. ASSUME NEW p \in Packets
      PROVE  p \in Private' <=> IF p \in ElementsOf(m) THEN progress'[m] \in 1..(Len(m) + 1)
                                ELSE p \in Private
  BY <1>1, <1>3 DEF Private
<1> QED BY <1>1, <1>2, <1>4, <1>5 DEF Fresh, Private

\* Finitely many writers hold a packet.
LEMMA HoldersFinite ==
  ASSUME NEW p
  PROVE  IsFiniteSet(Holders(p)) /\ Cardinality(Holders(p)) \in Nat
<1>1. IsFiniteSet(Writers)
  <2>1. 0 \in Int /\ WriteEvents - 1 \in Int
    BY EncoderAssumption
  <2> QED BY <2>1, FS_Interval DEF Writers
<1>2. Holders(p) \in SUBSET Writers
  BY DEF Holders
<1> QED BY <1>1, <1>2, FS_Subset, FS_CardinalityType

\* A packet that is referred to has a reference.
LEMMA Referenced ==
  ASSUME TypeOK, RefPart, NEW p \in Packets
  PROVE  /\ refs[p] \in Int
         /\ p \in Private \cup EncQ \cup TakenQ \cup SendQ => refs[p] >= 1
         /\ Holders(p) # {} => refs[p] >= 1
         /\ p \in entries \cup {buffer} => refs[p] >= 1
<1>1. refs[p] \in Int
  BY DEF TypeOK
<1>2. Cardinality(Holders(p)) \in Nat /\ (Cardinality(Holders(p)) = 0 <=> Holders(p) = {})
  BY HoldersFinite, FS_EmptySet
<1>3. refs[p] >= Queued(p) + Cardinality(Holders(p)) + Listed(p)
  BY DEF RefPart
<1>4. Queued(p) \in {0, 1} /\ Listed(p) \in {0, 1}
  BY DEF Queued, Listed
<1>5. p \in Private \cup EncQ \cup TakenQ \cup SendQ => Queued(p) = 1
  BY DEF Queued
<1>6. p \in entries \cup {buffer} => Listed(p) = 1
  BY DEF Listed
<1> QED BY <1>1, <1>2, <1>3, <1>4, <1>5, <1>6

\* A writer that encrypts or writes has a packet.
Hands == \A w \in Writers : pc[w] \in {"encrypt", "write"} => packet[w] \in Packets

\* Every step keeps the types, in disorder as well, ...
LEMMA TypeStep ==
  ASSUME TypeOK, Hands, Next
  PROVE  TypeOK'
<1>0. /\ WriteEvents \in Nat \ {0} /\ MaxResends \in Nat
      /\ SendHead \in Heads /\ EncryptHead \in Heads /\ Null \notin Packets
  BY EncoderAssumption, Places DEF Heads
<1>t. /\ progress \in [Messages -> Nat] /\ refs \in [Packets -> Int]
      /\ crypt \in [Packets -> Nat]
  BY DEF TypeOK
<1>r. RequestWrite => requests' \in Nat /\ armed' \subseteq Writers /\ write_index' \in Writers
  <2>1. write_index \in 0..(WriteEvents - 1)
    BY DEF TypeOK, Writers
  <2>2. (write_index + 1) % WriteEvents \in 0..(WriteEvents - 1)
    BY <1>0, <2>1
  <2>3. SUFFICES ASSUME RequestWrite
                 PROVE  requests' \in Nat /\ armed' \subseteq Writers /\ write_index' \in Writers
    OBVIOUS
  <2>4. requests' \in Nat
    BY <2>3 DEF RequestWrite, TypeOK
  <2>5. armed' \subseteq Writers
    BY <2>3 DEF RequestWrite, TypeOK
  <2>6. write_index' \in Writers
    BY <2>2, <2>3 DEF RequestWrite, NextEvent, Writers
  <2> QED BY <2>4, <2>5, <2>6
<1>1. ASSUME NEW m \in Messages, BuildMessage(m) PROVE TypeOK'
  <2>0. /\ Len(m) \in Nat /\ \A i \in 1..Len(m) : m[i] \in Packets
    BY MessageFacts
  <2>1. ptr' \in [Packets \cup Heads -> Packets \cup {Null}]
    <3>1. ASSUME NEW l \in Packets \cup Heads, \E i \in 1..(Len(m) - 1) : m[i] = l
          PROVE  m[1 + CHOOSE i \in 1..(Len(m) - 1) : m[i] = l] \in Packets
      <4> DEFINE k == CHOOSE i \in 1..(Len(m) - 1) : m[i] = l
      <4>1. k \in 1..(Len(m) - 1)
        BY <3>1
      <4> HIDE DEF k
      <4>2. 1 + k \in 1..Len(m)
        BY <2>0, <4>1
      <4> QED BY <2>0, <4>2 DEF k
    <3>2. DOMAIN ptr = Packets \cup Heads /\ \A l \in Packets \cup Heads : ptr[l] \in Packets \cup {Null}
      BY DEF TypeOK
    <3> QED BY <1>1, <3>1, <3>2 DEF BuildMessage
  <2>2. refs' \in [Packets -> Int]
    BY <1>1, <1>t DEF BuildMessage
  <2>3. progress' = [progress EXCEPT ![m] = IF m \in Commands THEN 1 ELSE Len(m) + 1]
    BY <1>1 DEF BuildMessage
  <2>4. progress' \in [Messages -> Nat]
    BY <1>t, <2>0, <2>3
  <2>7. UNCHANGED <<send_queue_tail, encrypt_queue_tail, crypt, taken, entries,
                   resends, buffer, request, requests, armed, write_index,
                   pc, packet, data_pending, more_clients, wire, dropped, disorder, unrequested>>
    BY <1>1
       DEF BuildMessage, queueVars, senderVars, tickVars, socketVars, writerVars, history
  <2> QED BY <2>7, <2>1, <2>2, <2>4 DEF TypeOK
<1>2. ASSUME NEW m \in Messages, RegisterPacket(m) PROVE TypeOK'
  <2>1. m[progress[m]] \in Packets
    BY <1>2, MessageFacts DEF RegisterPacket
  <2>2. entries' \subseteq Packets
    BY <1>2, <2>1 DEF RegisterPacket, TypeOK
  <2>a. /\ progress' = [progress EXCEPT ![m] = progress[m] + 1]
        /\ refs' = [refs EXCEPT ![m[progress[m]]] = refs[m[progress[m]]] + 1]
    BY <1>2 DEF RegisterPacket
  <2>3. progress' \in [Messages -> Nat] /\ refs' \in [Packets -> Int]
    BY <1>t, <2>1, <2>a
  <2>7. UNCHANGED <<ptr, send_queue_tail, encrypt_queue_tail, crypt, taken,
                   resends, buffer, request, requests, armed, write_index,
                   pc, packet, data_pending, more_clients, wire, dropped, disorder, unrequested>>
    BY <1>2
       DEF RegisterPacket, queueVars, senderVars, tickVars, socketVars, writerVars,
           history
  <2> QED BY <2>7, <2>2, <2>3 DEF TypeOK
<1>3. ASSUME NEW m \in Messages, EnqueueMessage(m) PROVE TypeOK'
  <2>1. m[1] \in Packets /\ m[Len(m)] \in Packets
    BY MessageFacts
  <2>2. ptr' \in [Packets \cup Heads -> Packets \cup {Null}] /\ encrypt_queue_tail' \in Packets \cup Heads
    BY <1>3, <2>1 DEF EnqueueMessage, TypeOK
  <2>a. progress' = [progress EXCEPT ![m] = progress[m] + 1]
    BY <1>3 DEF EnqueueMessage
  <2>3. progress' \in [Messages -> Nat]
    BY <1>t, <2>a
  <2>7. UNCHANGED <<send_queue_tail, refs, crypt, taken, entries, resends,
                   buffer, request, requests, armed, write_index, pc, packet,
                   data_pending, more_clients, wire, dropped, disorder, unrequested>>
    BY <1>3
       DEF EnqueueMessage, queueVars, senderVars, tickVars, socketVars, writerVars,
           history
  <2> QED BY <2>7, <2>2, <2>3 DEF TypeOK
<1>4. ASSUME NEW m \in Messages, RequestMessageWrite(m) PROVE TypeOK'
  <2>1. requests' \in Nat /\ armed' \subseteq Writers /\ write_index' \in Writers
    BY <1>4, <1>r DEF RequestMessageWrite
  <2>a. progress' = [progress EXCEPT ![m] = progress[m] + 1]
    BY <1>4 DEF RequestMessageWrite
  <2>2. progress' \in [Messages -> Nat]
    BY <1>t, <2>a
  <2>7. UNCHANGED <<ptr, send_queue_tail, encrypt_queue_tail, refs, crypt,
                   taken, entries, resends, buffer, request, pc, packet,
                   data_pending, more_clients, wire, dropped, disorder, unrequested>>
    BY <1>4
       DEF RequestMessageWrite, queueVars, senderVars, tickVars, socketVars, writerVars,
           history
  <2> QED BY <2>7, <2>1, <2>2 DEF TypeOK
<1>5. ASSUME NEW m \in Messages, TakePending(m) PROVE TypeOK'
  <2>1. ptr[EncryptHead] \in Packets \cup {Null}
    BY Sets
  <2>2. taken' \in [head : Packets \cup {Null}, tail : Packets \cup Heads,
                    current : Packets \cup {Null}]
    BY <1>5, <2>1 DEF TakePending, TypeOK
  <2>3. ptr' \in [Packets \cup Heads -> Packets \cup {Null}] /\ encrypt_queue_tail' \in Packets \cup Heads
    BY <1>0, <1>5 DEF TakePending, TypeOK
  <2>a. progress' = [progress EXCEPT ![m] = progress[m] + 1]
    BY <1>5 DEF TakePending
  <2>4. progress' \in [Messages -> Nat]
    BY <1>t, <2>a
  <2>7. UNCHANGED <<send_queue_tail, refs, crypt, entries, resends, buffer,
                   request, requests, armed, write_index, pc, packet,
                   data_pending, more_clients, wire, dropped, unrequested>>
    BY <1>5
       DEF TakePending, queueVars, senderVars, tickVars, socketVars, writerVars, history
  <2>8. disorder' \subseteq {"overtaken", "premature"}
    BY <1>5 DEF TakePending, TypeOK
  <2> QED BY <2>7, <2>2, <2>3, <2>4, <2>8 DEF TypeOK
<1>6. ASSUME NEW m \in Messages, EncryptTaken(m) PROVE TypeOK'
  <2>1. taken.current \in Packets /\ ptr[taken.current] \in Packets \cup {Null}
    BY <1>6, Sets DEF EncryptTaken
  <2>2. taken' \in [head : Packets \cup {Null}, tail : Packets \cup Heads,
                    current : Packets \cup {Null}]
    BY <1>6, <2>1 DEF EncryptTaken, TypeOK
  <2>3. crypt' \in [Packets -> Nat]
    <3>1. crypt' = [crypt EXCEPT ![taken.current] = crypt[taken.current] + 1]
      BY <1>6 DEF EncryptTaken
    <3> QED BY <1>t, <2>1, <3>1
  <2>7. UNCHANGED <<ptr, send_queue_tail, encrypt_queue_tail, refs, progress,
                   entries, resends, buffer, request, requests, armed,
                   write_index, pc, packet, data_pending, more_clients, wire,
                   dropped, disorder, unrequested>>
    BY <1>6
       DEF EncryptTaken, queueVars, senderVars, tickVars, socketVars, writerVars, history
  <2> QED BY <2>7, <2>2, <2>3 DEF TypeOK
<1>7. ASSUME NEW m \in Messages, AppendTaken(m) PROVE TypeOK'
  <2>1. taken.head \in Packets \cup {Null} /\ taken.tail \in Packets \cup Heads
    BY Sets
  <2>2. taken' \in [head : Packets \cup {Null}, tail : Packets \cup Heads,
                    current : Packets \cup {Null}]
    BY <1>0, <1>7 DEF AppendTaken, NothingTaken
  <2>3. ptr' \in [Packets \cup Heads -> Packets \cup {Null}] /\ send_queue_tail' \in Packets \cup Heads
    BY <1>7, <2>1 DEF AppendTaken, TypeOK
  <2>a. progress' = [progress EXCEPT ![m] = progress[m] + 1]
    BY <1>7 DEF AppendTaken
  <2>4. progress' \in [Messages -> Nat]
    BY <1>t, <2>a
  <2>7. UNCHANGED <<encrypt_queue_tail, refs, crypt, entries, resends,
                   buffer, request, requests, armed, write_index, pc, packet,
                   data_pending, more_clients, wire, dropped, disorder>>
    BY <1>7
       DEF AppendTaken, queueVars, senderVars, tickVars, socketVars, writerVars, history
  <2>8. unrequested' \subseteq Packets
    BY <1>7 DEF AppendTaken, TypeOK, ListFrom
  <2> QED BY <2>7, <2>2, <2>3, <2>4, <2>8 DEF TypeOK
<1>8. ASSUME NEW p \in Packets, TakeDue(p) PROVE TypeOK'
  <2>1. resends' \in 0..MaxResends
    BY <1>0, <1>8 DEF TakeDue, TypeOK
  <2> QED BY <1>8, <2>1
             DEF TakeDue, TypeOK, queueVars, senderVars, socketVars, writerVars, history
<1>9. ASSUME NEW p \in Packets, Acknowledge(p) PROVE TypeOK'
  BY <1>9 DEF Acknowledge, TypeOK, queueVars, senderVars, socketVars, writerVars, history
<1>10. CASE QueueResend
  <2>1. buffer \in Packets
    BY <1>10 DEF QueueResend, TypeOK
  <2>2. refs[buffer] - EntryReleased(buffer) \in Int /\ ResendReferenced(buffer) \in Int
    BY <1>t, <2>1 DEF EntryReleased, ResendReferenced
  <2>3. refs' \in [Packets -> Int]
    BY <1>10, <1>t, <2>2 DEF QueueResend
  <2>4. /\ ptr' \in [Packets \cup Heads -> Packets \cup {Null}]
        /\ send_queue_tail' \in Packets \cup Heads
        /\ encrypt_queue_tail' \in Packets \cup Heads
    BY <1>10, <2>1 DEF QueueResend, TypeOK, queueVars
  <2>5. disorder' \subseteq disorder \cup {"premature"}
    BY <1>10 DEF QueueResend
  <2>6. disorder' \subseteq {"overtaken", "premature"}
    BY <2>5 DEF TypeOK
  <2>7. /\ UNCHANGED <<crypt, progress, taken, entries, resends, requests, armed,
                       write_index, pc, packet, data_pending, more_clients, wire,
                       dropped, unrequested>>
        /\ buffer' = Null /\ request' = TRUE
    BY <1>10 DEF QueueResend, senderVars, socketVars, writerVars
  <2> QED BY <2>3, <2>4, <2>6, <2>7 DEF TypeOK
<1>11. CASE RequestResendWrite
  BY <1>11, <1>r
     DEF RequestResendWrite, TypeOK, queueVars, senderVars, writerVars, history
<1>12. ASSUME NEW w \in Writers, Fire(w) PROVE TypeOK'
  BY <1>12 DEF Fire, Goto, TypeOK, queueVars, senderVars, tickVars, history
<1>13. ASSUME NEW w \in Writers, PopClient(w) PROVE TypeOK'
  <2>1. requests' \in Nat
    BY <1>13 DEF PopClient, TypeOK
  <2>2. more_clients' \in [Writers -> BOOLEAN] /\ data_pending' \in [Writers -> BOOLEAN]
    <3>1. MoreClients(requests) \in BOOLEAN
      BY DEF MoreClients
    <3> QED BY <1>13, <3>1 DEF PopClient, TypeOK
  <2>3. pc' \in [Writers -> {"idle", "clients", "pop", "encrypt", "write", "requeue", "end"}]
    BY <1>13 DEF PopClient, Goto, TypeOK
  <2>7. UNCHANGED <<ptr, send_queue_tail, encrypt_queue_tail, refs, crypt,
                   progress, taken, entries, resends, buffer, request,
                   armed, write_index, packet, wire, dropped, disorder, unrequested>>
    BY <1>13
       DEF PopClient, queueVars, senderVars, tickVars, socketVars, writerVars, history
  <2> QED BY <2>7, <2>1, <2>2, <2>3 DEF TypeOK
<1>14. ASSUME NEW w \in Writers, TimeOut(w) PROVE TypeOK'
  BY <1>14 DEF TimeOut, Goto, TypeOK, queueVars, senderVars, tickVars, socketVars, history
<1>15. ASSUME NEW w \in Writers, PopPacket(w) PROVE TypeOK'
  <2> DEFINE h == IF ptr[SendHead] # Null THEN SendHead ELSE EncryptHead
             p == ptr[h]
  <2>1. CASE p = Null
    BY <1>15, <2>1
       DEF PopPacket, Goto, TypeOK, queueVars, senderVars, tickVars, socketVars, history
  <2>2. CASE p # Null
    <3>1. h \in Heads /\ p \in Packets /\ ptr[p] \in Packets \cup {Null}
      BY <1>0, <2>2 DEF TypeOK
    <3>2. /\ Popped(h, p) \in [Packets \cup Heads -> Packets \cup {Null}]
          /\ TailAfterPop(h, p, send_queue_tail) \in Packets \cup Heads
          /\ TailAfterPop(h, p, encrypt_queue_tail) \in Packets \cup Heads
          /\ MorePackets(Popped(h, p)) \in BOOLEAN
      BY <3>1 DEF Popped, TailAfterPop, MorePackets, TypeOK
    <3> HIDE DEF h, p
    <3>3. /\ ptr' = Popped(h, p) /\ packet' = [packet EXCEPT ![w] = p]
          /\ send_queue_tail' \in {send_queue_tail, TailAfterPop(h, p, send_queue_tail)}
          /\ encrypt_queue_tail' \in {encrypt_queue_tail, TailAfterPop(h, p, encrypt_queue_tail)}
          /\ data_pending' = [data_pending EXCEPT ![w] = MorePackets(Popped(h, p))]
          /\ pc' = [pc EXCEPT ![w] = IF NeedEncrypt(h) THEN "encrypt" ELSE "write"]
          /\ UNCHANGED <<refs, crypt, senderVars, tickVars, socketVars, more_clients, history>>
      BY <1>15, <2>2 DEF PopPacket, Goto, h, p
    <3> QED BY <3>1, <3>2, <3>3 DEF TypeOK, senderVars, tickVars, socketVars, history
  <2> QED BY <2>1, <2>2
<1>16. ASSUME NEW w \in Writers, EncryptPacket(w) PROVE TypeOK'
  <2>1. packet[w] \in Packets
    BY <1>16 DEF EncryptPacket, Hands
  <2> QED BY <1>16, <2>1
             DEF EncryptPacket, Goto, TypeOK, queueVars, senderVars, tickVars, socketVars,
                 history
<1>17. ASSUME NEW w \in Writers, pc[w] = "write"
       PROVE  packet[w] \in Packets /\ refs[packet[w]] - 1 \in Int
  <2>1. packet[w] \in Packets
    BY <1>17 DEF Hands
  <2> QED BY <1>t, <2>1
<1>18. ASSUME NEW w \in Writers, WritePacket(w) PROVE TypeOK'
  <2>1. packet[w] \in Packets /\ refs[packet[w]] - 1 \in Int
    BY <1>17, <1>18 DEF WritePacket
  <2>2. wire' \subseteq Packets \X Nat
    BY <1>18, <2>1 DEF WritePacket, TypeOK
  <2>3. pc' \in [Writers -> {"idle", "clients", "pop", "encrypt", "write", "requeue", "end"}]
    BY <1>18 DEF WritePacket, NextPacket, Goto, TypeOK
  <2>4. refs' \in [Packets -> Int] /\ packet' \in [Writers -> Packets \cup {Null}]
    BY <1>18, <2>1 DEF WritePacket, TypeOK
  <2> QED BY <1>18, <2>2, <2>3, <2>4
             DEF WritePacket, TypeOK, queueVars, senderVars, tickVars, socketVars
<1>19. ASSUME NEW w \in Writers, DropPacket(w) PROVE TypeOK'
  <2>1. packet[w] \in Packets /\ refs[packet[w]] - 1 \in Int
    BY <1>17, <1>19 DEF DropPacket
  <2> QED BY <1>19, <2>1
             DEF DropPacket, Goto, TypeOK, queueVars, senderVars, tickVars, socketVars
<1>20. ASSUME NEW w \in Writers, ReenqueueFailed(w) PROVE TypeOK'
  <2>1. packet[w] \in Packets /\ ptr[SendHead] \in Packets \cup {Null}
    BY <1>17, <1>20, Sets DEF ReenqueueFailed
  <2>2. /\ ptr' \in [Packets \cup Heads -> Packets \cup {Null}]
        /\ send_queue_tail' \in Packets \cup Heads
        /\ encrypt_queue_tail' \in Packets \cup Heads
    BY <1>20, <2>1 DEF ReenqueueFailed, TypeOK, queueVars
  <2>3. unrequested' \subseteq Packets
    BY <1>20, <2>1 DEF ReenqueueFailed, TypeOK, QueueOf, ListFrom
  <2>4. /\ UNCHANGED <<refs, crypt, progress, taken, entries, resends, buffer, request,
                       requests, armed, write_index, wire, dropped, disorder>>
        /\ packet' = [packet EXCEPT ![w] = Null]
        /\ pc' = [pc EXCEPT ![w] = "idle"]
        /\ data_pending' = [data_pending EXCEPT ![w] = FALSE]
        /\ more_clients' = [more_clients EXCEPT ![w] = FALSE]
    BY <1>20 DEF ReenqueueFailed, Goto, senderVars, tickVars, socketVars
  <2> QED BY <2>2, <2>3, <2>4 DEF TypeOK
<1>21. ASSUME NEW w \in Writers, Requeue(w) PROVE TypeOK'
  BY <1>21, <1>r DEF Requeue, Goto, TypeOK, queueVars, senderVars, tickVars, history
<1>22. ASSUME NEW w \in Writers, Finish(w) PROVE TypeOK'
  BY <1>22 DEF Finish, Goto, TypeOK, queueVars, senderVars, tickVars, history
<1> QED
  BY <1>1, <1>2, <1>3, <1>4, <1>5, <1>6, <1>7, <1>8, <1>9, <1>10, <1>11, <1>12, <1>13,
     <1>14, <1>15, <1>16, <1>18, <1>19, <1>20, <1>21, <1>22 DEF Next, Sender, Writer

\* ... and gives a packet to every writer that encrypts or writes.
LEMMA HandsStep ==
  ASSUME TypeOK, Hands, Next
  PROVE  Hands'
<1>0. /\ pc \in [Writers -> {"idle", "clients", "pop", "encrypt", "write", "requeue", "end"}]
      /\ packet \in [Writers -> Packets \cup {Null}]
      /\ \A h \in Heads : ptr[h] \in Packets \cup {Null}
  BY DEF TypeOK
<1>1. CASE UNCHANGED <<pc, packet>>
  BY <1>1 DEF Hands
<1>2. ASSUME NEW w \in Writers, NEW l, pc' = [pc EXCEPT ![w] = l],
             \/ l \notin {"encrypt", "write"}
                  /\ \A v \in Writers : v # w => packet'[v] = packet[v]
             \/ pc[w] \in {"encrypt", "write"} /\ packet' = packet
             \/ packet'[w] \in Packets
                  /\ \A v \in Writers : v # w => packet'[v] = packet[v]
      PROVE  Hands'
  BY <1>0, <1>2 DEF Hands
<1>3. ASSUME NEW m \in Messages, Sender(m) PROVE Hands'
  BY <1>1, <1>3 DEF Sender, BuildMessage, RegisterPacket, EnqueueMessage,
     RequestMessageWrite, TakePending, EncryptTaken, AppendTaken, writerVars
<1>4. CASE QueueResend \/ RequestResendWrite \/ \E p \in Packets : TakeDue(p) \/ Acknowledge(p)
  BY <1>1, <1>4 DEF QueueResend, RequestResendWrite, TakeDue, Acknowledge, writerVars
<1>5. ASSUME NEW w \in Writers, Fire(w) \/ PopClient(w) \/ TimeOut(w) \/ Requeue(w)
      PROVE  Hands'
  <2>1. /\ packet' = packet
        /\ \E l \in {"clients", "pop", "end", "requeue"} : pc' = [pc EXCEPT ![w] = l]
    BY <1>5 DEF Fire, PopClient, TimeOut, Requeue, Goto
  <2>2. PICK l \in {"clients", "pop", "end", "requeue"} : pc' = [pc EXCEPT ![w] = l]
    BY <2>1
  <2> QED BY <1>2, <2>1, <2>2
<1>6. ASSUME NEW w \in Writers, PopPacket(w) PROVE Hands'
  <2> DEFINE h == IF ptr[SendHead] # Null THEN SendHead ELSE EncryptHead
             p == ptr[h]
  <2>1. CASE p = Null
    <3>1. /\ pc' = [pc EXCEPT ![w] = "clients"]
          /\ \A v \in Writers : v # w => packet'[v] = packet[v]
      BY <1>0, <1>6, <2>1 DEF PopPacket, Goto
    <3> QED BY <1>2, <3>1
  <2>2. CASE p # Null
    <3>1. p \in Packets
      BY <1>0, <2>2 DEF Heads
    <3> HIDE DEF p, h
    <3>2. /\ pc' = [pc EXCEPT ![w] = IF NeedEncrypt(h) THEN "encrypt" ELSE "write"]
          /\ packet' = [packet EXCEPT ![w] = p]
      BY <1>6, <2>2 DEF PopPacket, Goto, h, p
    <3>3. packet'[w] = p /\ \A v \in Writers : v # w => packet'[v] = packet[v]
      BY <1>0, <3>2
    <3> QED BY <1>2, <3>1, <3>2, <3>3
  <2> QED BY <2>1, <2>2
<1>7. ASSUME NEW w \in Writers, EncryptPacket(w) PROVE Hands'
  BY <1>2, <1>7 DEF EncryptPacket, Goto
<1>8. ASSUME NEW w \in Writers,
             WritePacket(w) \/ DropPacket(w) \/ ReenqueueFailed(w) \/ Finish(w)
      PROVE  Hands'
  <2>1. /\ \A v \in Writers : v # w => packet'[v] = packet[v]
        /\ \E l \in {"idle", "clients", "pop", "requeue"} : pc' = [pc EXCEPT ![w] = l]
    BY <1>0, <1>8 DEF WritePacket, DropPacket, ReenqueueFailed, Finish, NextPacket, Goto
  <2>2. PICK l \in {"idle", "clients", "pop", "requeue"} : pc' = [pc EXCEPT ![w] = l]
    BY <2>1
  <2> QED BY <1>2, <2>1, <2>2
<1> QED BY <1>3, <1>4, <1>5, <1>6, <1>7, <1>8 DEF Next, Writer

\* What was disturbed stays disturbed.
LEMMA DisorderStays ==
  ASSUME Next
  PROVE  disorder \subseteq disorder'
BY DEF Next, Sender, BuildMessage, RegisterPacket, EnqueueMessage, RequestMessageWrite,
   TakePending, EncryptTaken, AppendTaken, TakeDue, Acknowledge, QueueResend,
   RequestResendWrite, Writer, Fire, PopClient, TimeOut, PopPacket, EncryptPacket,
   WritePacket, DropPacket, ReenqueueFailed, Requeue, Finish, history
-----------------------------------------------------------------------------
\* The invariant holds in the beginning.
LEMMA InitStep ==
  ASSUME Init
  PROVE  Inv
<1>0. /\ WriteEvents \in Nat \ {0} /\ MaxResends \in Nat
      /\ SendHead \in Heads /\ EncryptHead \in Heads /\ Null \notin Packets
  BY EncoderAssumption, Places DEF Heads
<1>1. TypeOK
  <2>1. 0 \in Writers /\ 0 \in 0..MaxResends
    BY <1>0 DEF Writers
  <2>2. taken \in [head : Packets \cup {Null}, tail : Packets \cup Heads,
                   current : Packets \cup {Null}]
    BY <1>0 DEF Init, NothingTaken
  <2>3. /\ wire \subseteq Packets \X Nat /\ dropped \subseteq Packets
        /\ disorder \subseteq {"overtaken", "premature"} /\ unrequested \subseteq Packets
        /\ resends \in 0..MaxResends
    BY <2>1 DEF Init
  <2>4. /\ ptr \in [Packets \cup Heads -> Packets \cup {Null}]
        /\ send_queue_tail \in Packets \cup Heads /\ encrypt_queue_tail \in Packets \cup Heads
        /\ refs \in [Packets -> Int] /\ crypt \in [Packets -> Nat]
        /\ progress \in [Messages -> Nat]
    BY <1>0 DEF Init
  <2>5. /\ entries \subseteq Packets /\ buffer \in Packets \cup {Null} /\ request \in BOOLEAN
        /\ requests \in Nat /\ armed \subseteq Writers /\ write_index \in Writers
    BY <2>1 DEF Init
  <2>6. /\ pc \in [Writers -> {"idle", "clients", "pop", "encrypt", "write",
                               "requeue", "end"}]
        /\ packet \in [Writers -> Packets \cup {Null}]
        /\ data_pending \in [Writers -> BOOLEAN]
        /\ more_clients \in [Writers -> BOOLEAN]
    BY DEF Init
  <2> QED BY <2>2, <2>3, <2>4, <2>5, <2>6 DEF TypeOK
<1>2. /\ ptr \in Contents /\ \A l \in Packets \cup Heads : ptr[l] = Null
      /\ taken.head = Null /\ taken.current = Null
  BY <1>1, Sets DEF Init, NothingTaken
<1>3. ListFrom(ptr, Null) = {}
  BY <1>2, ListOfNull
<1>4. /\ SendQ = {} /\ EncQ = {} /\ TakenQ = {} /\ CurrentQ = {}
      /\ Written = {} /\ InHand("encrypt") = {} /\ InHand("write") = {}
  <2>1. SendQ = {} /\ EncQ = {} /\ TakenQ = {} /\ CurrentQ = {}
    BY <1>0, <1>2, <1>3 DEF SendQ, EncQ, TakenQ, CurrentQ, QueueOf
  <2>2. Written = {}
    BY DEF Init, Written
  <2> QED BY <2>1, <2>2 DEF Init, InHand
<1>5. ListPart
  BY <1>0, <1>2, <1>3 DEF Init, ListPart, Acyclic, QueueEnds
<1>6. MessagePart
  <2>1. ASSUME NEW m \in Messages
        PROVE  progress[m] = 0 /\ Len(m) \in Nat /\ \A p \in ElementsOf(m) : p \in Packets
    BY MessageFacts DEF Init
  <2> QED BY <1>2, <2>1 DEF MessagePart, MessageOK
<1>7. TakenPart
  <2>1. \A m \in Messages : progress[m] = 0 /\ Len(m) \in Nat
    BY MessageFacts DEF Init
  <2> QED BY <2>1 DEF TakenPart, Taking, Init
<1>8. PlacePart /\ HandPart /\ TickPart /\ WirePart
  <2>1. Null \notin Fresh
    BY <1>0 DEF Fresh
  <2> QED BY <1>4, <2>1 DEF PlacePart, HandPart, TickPart, WirePart, Used, Init
<1>9. CryptPart
  <2>1. \A p \in Fresh \cup Private : crypt[p] = 0
    BY <1>1, Sets DEF Init
  <2> QED BY <1>4, <2>1 DEF CryptPart, Used
<1>10. RefPart
  <2>1. Private = {}
    <3>1. \A m \in Messages : progress[m] = 0
      BY DEF Init
    <3> QED BY <3>1 DEF Private
  <2>2. ASSUME NEW p \in Packets
        PROVE  Holders(p) = {} /\ Queued(p) = 0 /\ Listed(p) = 0 /\ refs[p] = 0
    BY <1>0, <1>4, <2>1 DEF Init, Holders, Queued, Listed
  <2>3. Cardinality({}) = 0
    BY FS_EmptySet
  <2> QED BY <2>2, <2>3 DEF RefPart
<1> QED BY <1>1, <1>5, <1>6, <1>7, <1>8, <1>9, <1>10 DEF Inv

\* What a writer holds does not change.
SameHands ==
  \A w \in Writers : \/ pc'[w] = pc[w] /\ packet'[w] = packet[w]
                     \/ pc[w] \notin {"encrypt", "write"} /\ pc'[w] \notin {"encrypt", "write"}

\* Nor do the packets in hand and their holders.
LEMMA HandsFrame ==
  ASSUME SameHands
  PROVE  /\ InHand("encrypt")' = InHand("encrypt") /\ InHand("write")' = InHand("write")
         /\ \A p : Holders(p)' = Holders(p)
         /\ HandPart => HandPart'
<1>1. \A w \in Writers : \A l \in {"encrypt", "write"} :
        /\ pc'[w] = l <=> pc[w] = l
        /\ pc[w] = l => packet'[w] = packet[w]
  BY DEF SameHands
<1>2. InHand("encrypt")' = InHand("encrypt") /\ InHand("write")' = InHand("write")
  BY <1>1 DEF InHand
<1>3. ASSUME NEW p PROVE Holders(p)' = Holders(p)
  BY <1>1 DEF Holders
<1>4. HandPart => HandPart'
  BY <1>1 DEF HandPart
<1> QED BY <1>2, <1>3, <1>4

\* Steps that touch neither lists nor packets.
QuietVars == <<ptr, send_queue_tail, encrypt_queue_tail, refs, crypt, taken,
               entries, buffer, wire, dropped>>

\* They keep the invariant.
LEMMA QuietStep ==
  ASSUME Inv, TypeOK', UNCHANGED QuietVars, SameHands,
         \A m \in Messages : \/ progress'[m] = progress[m]
                             \/ progress[m] = Len(m) + 2 /\ progress'[m] = Len(m) + 3
  PROVE  Inv'
<1> USE DEF Inv, QuietVars
<1>1. \A m \in Messages :
        /\ progress'[m] = 0 <=> progress[m] = 0
        /\ progress'[m] \in 1..(Len(m) + 1) <=> progress[m] \in 1..(Len(m) + 1)
        /\ progress'[m] = Len(m) + 4 <=> progress[m] = Len(m) + 4
  <2>1. \A m \in Messages : Len(m) \in Nat /\ progress[m] \in Nat
    BY MessageFacts DEF TypeOK
  <2> QED BY <2>1
<1>2. /\ SendQ' = SendQ /\ EncQ' = EncQ /\ TakenQ' = TakenQ /\ CurrentQ' = CurrentQ
      /\ Written' = Written
  BY DEF SendQ, EncQ, TakenQ, CurrentQ, QueueOf, Written
<1>3. Fresh' = Fresh /\ Private' = Private /\ (Taking' <=> Taking)
  BY <1>1 DEF Fresh, Private, Taking
<1>4. Used' = Used /\ InHand("encrypt")' = InHand("encrypt")
  BY <1>2, HandsFrame DEF Used
<1>5. ListPart'
  BY DEF ListPart
<1>6. MessagePart'
  BY <1>1 DEF MessagePart, MessageOK
<1>7. TakenPart'
  BY <1>2, <1>3 DEF TakenPart
<1>8. PlacePart' /\ HandPart'
  BY <1>2, <1>3, <1>4, HandsFrame DEF PlacePart
<1>9. TickPart' /\ CryptPart' /\ WirePart'
  BY <1>2, <1>3, <1>4 DEF TickPart, CryptPart, WirePart
<1>10. RefPart'
  <2>1. ASSUME NEW p \in Packets
        PROVE  Queued(p)' = Queued(p) /\ Listed(p)' = Listed(p) /\ Holders(p)' = Holders(p)
    BY <1>2, <1>3, HandsFrame DEF Queued, Listed
  <2> QED BY <2>1 DEF RefPart
<1> QED BY <1>5, <1>6, <1>7, <1>8, <1>9, <1>10

\* Write requests, the loops over clients and time-outs are such steps.
LEMMA QuietActions ==
  ASSUME Inv, TypeOK',
         \/ UNCHANGED vars
         \/ \E m \in Messages : RequestMessageWrite(m)
         \/ RequestResendWrite
         \/ \E w \in Writers :
              \/ Fire(w) \/ PopClient(w) \/ TimeOut(w) \/ Requeue(w) \/ Finish(w)
              \/ PopPacket(w) /\ ptr[SendHead] = Null /\ ptr[EncryptHead] = Null
  PROVE  Inv'
<1>0. pc \in [Writers -> {"idle", "clients", "pop", "encrypt", "write", "requeue", "end"}]
  BY DEF Inv, TypeOK
<1> USE DEF QuietVars, queueVars, senderVars, tickVars, socketVars, writerVars, history
<1>1. CASE UNCHANGED vars
  <2>1. UNCHANGED QuietVars /\ UNCHANGED <<pc, packet, progress>>
    BY <1>1 DEF vars
  <2>2. SameHands
    BY <2>1 DEF SameHands
  <2> QED BY <2>1, <2>2, QuietStep
<1>2. ASSUME NEW m \in Messages, RequestMessageWrite(m) PROVE Inv'
  <2>1. UNCHANGED QuietVars /\ UNCHANGED <<pc, packet>>
    BY <1>2 DEF RequestMessageWrite
  <2>2. SameHands
    BY <2>1 DEF SameHands
  <2>3. progress[m] = Len(m) + 2 /\ progress' = [progress EXCEPT ![m] = progress[m] + 1]
    BY <1>2 DEF RequestMessageWrite
  <2>4. progress \in [Messages -> Nat] /\ Len(m) \in Nat
    BY MessageFacts DEF Inv, TypeOK
  <2>5. \A n \in Messages : \/ progress'[n] = progress[n]
                            \/ progress[n] = Len(n) + 2 /\ progress'[n] = Len(n) + 3
    BY <2>3, <2>4
  <2> QED BY <2>1, <2>2, <2>5, QuietStep
<1>3. CASE RequestResendWrite
  <2>1. UNCHANGED QuietVars /\ UNCHANGED <<pc, packet, progress>>
    BY <1>3 DEF RequestResendWrite
  <2>2. SameHands
    BY <2>1 DEF SameHands
  <2> QED BY <2>1, <2>2, QuietStep
<1>4. ASSUME NEW w \in Writers,
             Fire(w) \/ PopClient(w) \/ TimeOut(w) \/ Requeue(w)
      PROVE  Inv'
  <2>1. UNCHANGED QuietVars /\ UNCHANGED progress
    BY <1>4 DEF Fire, PopClient, TimeOut, Requeue
  <2>2. UNCHANGED packet
    BY <1>4 DEF Fire, PopClient, TimeOut, Requeue
  <2>3. SameHands
    BY <1>0, <1>4, <2>2 DEF Fire, PopClient, TimeOut, Requeue, Goto, SameHands
  <2> QED BY <2>1, <2>3, QuietStep
<1>5. ASSUME NEW w \in Writers, Finish(w) PROVE Inv'
  <2>1. UNCHANGED QuietVars /\ UNCHANGED progress
    BY <1>5 DEF Finish
  <2>2. packet \in [Writers -> Packets \cup {Null}]
    BY DEF Inv, TypeOK
  <2>3. SameHands
    BY <1>0, <1>5, <2>2 DEF Finish, Goto, SameHands
  <2> QED BY <2>1, <2>3, QuietStep
<1>6. ASSUME NEW w \in Writers, PopPacket(w), ptr[SendHead] = Null, ptr[EncryptHead] = Null
      PROVE  Inv'
  <2>1. UNCHANGED QuietVars /\ UNCHANGED progress
    BY <1>6 DEF PopPacket
  <2>2. packet \in [Writers -> Packets \cup {Null}]
    BY DEF Inv, TypeOK
  <2>3. /\ pc[w] = "pop" /\ pc' = [pc EXCEPT ![w] = "clients"]
        /\ packet' = [packet EXCEPT ![w] = Null]
    BY <1>6 DEF PopPacket, Goto
  <2>4. SameHands
    BY <1>0, <2>2, <2>3 DEF SameHands
  <2> QED BY <2>1, <2>4, QuietStep
<1> QED BY <1>1, <1>2, <1>3, <1>4, <1>5, <1>6
-----------------------------------------------------------------------------
\* What a step leaves alone.
LEMMA QueueFrame ==
  ASSUME TypeOK, TypeOK', NEW h \in Heads, ptr'[h] = ptr[h],
         \A p \in QueueOf(h) : ptr'[p] = ptr[p]
  PROVE  /\ QueueOf(h)' = QueueOf(h)
         /\ \A t : QueueEnds(ptr, h, t) => QueueEnds(ptr', h, t)
<1>1. ptr \in Contents /\ ptr' \in Contents /\ ptr[h] \in Packets \cup {Null}
  BY DEF TypeOK, Contents, Heads
<1>2. /\ ListFrom(ptr', ptr[h]) = ListFrom(ptr, ptr[h])
      /\ \A t : Ends(ptr, ptr[h], t) => Ends(ptr', ptr[h], t)
  <2> DEFINE r == ptr'
  <2>1. \A p \in ListFrom(ptr, ptr[h]) : r[p] = ptr[p]
    BY DEF QueueOf
  <2>2. r \in Contents
    BY <1>1
  <2> HIDE DEF r
  <2>3. /\ ListFrom(r, ptr[h]) = ListFrom(ptr, ptr[h])
        /\ \A t : Ends(ptr, ptr[h], t) => Ends(r, ptr[h], t)
    BY <1>1, <2>1, <2>2, EndsFrame
  <2> QED BY <2>3 DEF r
<1> QED BY <1>2 DEF QueueOf, QueueEnds

\* The list of encrypt_pending_packets, when its packets are left alone.
LEMMA TakenFrame ==
  ASSUME TypeOK, TypeOK', TakenPart, taken' = taken, Taking' <=> Taking,
         \A p \in TakenQ : ptr'[p] = ptr[p]
  PROVE  TakenQ' = TakenQ /\ CurrentQ' = CurrentQ /\ TakenPart'
<1> DEFINE r == ptr'
<1>1. /\ ptr \in Contents /\ r \in Contents
      /\ taken.head \in Packets \cup {Null} /\ taken.current \in Packets \cup {Null}
  BY Sets DEF TypeOK, Contents
<1>2. \A p \in TakenQ : r[p] = ptr[p]
  OBVIOUS
<1> HIDE DEF r
<1>3. /\ ListFrom(r, taken.head) = ListFrom(ptr, taken.head)
      /\ \A t : Ends(ptr, taken.head, t) => Ends(r, taken.head, t)
  BY <1>1, <1>2, EndsFrame DEF TakenQ
<1>4. ListFrom(r, taken.current) = ListFrom(ptr, taken.current)
  <2>1. \A p \in ListFrom(ptr, taken.current) : r[p] = ptr[p]
    BY <1>2, TakenFacts DEF CurrentQ
  <2> QED BY <1>1, <2>1, EndsFrame
<1>5. TakenQ' = TakenQ /\ CurrentQ' = CurrentQ
  BY <1>3, <1>4 DEF TakenQ, CurrentQ, r
<1>6. TakenPart'
  BY <1>3, <1>5 DEF TakenPart, r
<1> QED BY <1>5, <1>6

\* A message of another sender, when its packets are left alone.
LEMMA MessageFrame ==
  ASSUME TypeOK, TypeOK', NEW m \in Messages, MessageOK(m), progress'[m] = progress[m],
         progress[m] \in 0..(Len(m) + 1) => \A p \in ElementsOf(m) : ptr'[p] = ptr[p]
  PROVE  MessageOK(m)'
<1> DEFINE r == ptr'
<1>1. ptr \in Contents /\ r \in Contents /\ m[1] \in Packets \cup {Null} /\ Len(m) \in Nat
  BY MessageFacts DEF TypeOK, Contents
<1>2. progress[m] \in 0..(Len(m) + 1) => \A p \in ElementsOf(m) : r[p] = ptr[p]
  OBVIOUS
<1> HIDE DEF r
<1>3. CASE progress[m] \in 1..(Len(m) + 1)
  <2>1. /\ \A p \in ListFrom(ptr, m[1]) : r[p] = ptr[p]
        /\ ListFrom(ptr, m[1]) = ElementsOf(m) /\ Ends(ptr, m[1], m[Len(m)])
    BY <1>1, <1>2, <1>3 DEF MessageOK
  <2>2. ListFrom(r, m[1]) = ElementsOf(m) /\ Ends(r, m[1], m[Len(m)])
    BY <1>1, <2>1, EndsFrame
  <2>3. progress[m] # 0 /\ progress[m] # Len(m) + 4
    BY <1>1, <1>3
  <2> QED BY <2>2, <2>3 DEF MessageOK, r
<1>4. CASE progress[m] = 0
  BY <1>1, <1>2, <1>4 DEF MessageOK, r
<1>5. CASE progress[m] \notin 1..(Len(m) + 1) /\ progress[m] # 0
  BY <1>5 DEF MessageOK
<1> QED BY <1>3, <1>4, <1>5
-----------------------------------------------------------------------------
\* The packets of a message are allocated and linked.
LEMMA BuildStep ==
  ASSUME Inv, TypeOK', NEW m \in Messages, BuildMessage(m)
  PROVE  Inv'
<1> USE DEF Inv
<1> DEFINE L == Len(m)
           E == ElementsOf(m)
<1>0. /\ L \in Nat /\ L >= 1 /\ E \subseteq Packets /\ m[L] \in E
      /\ \A i \in 1..L : m[i] \in Packets /\ m[i] \in E
      /\ \A i, j \in 1..L : m[i] = m[j] => i = j
  BY MessageFacts
<1>1. /\ progress[m] = 0 /\ progress' = [progress EXCEPT ![m] = progress'[m]]
      /\ progress'[m] \in 1..(L + 1)
      /\ UNCHANGED <<send_queue_tail, encrypt_queue_tail, crypt, taken, entries,
                     buffer, pc, packet, wire, dropped>>
  <2>1. /\ progress[m] = 0
        /\ progress' = [progress EXCEPT ![m] = IF m \in Commands THEN 1 ELSE Len(m) + 1]
        /\ UNCHANGED <<send_queue_tail, encrypt_queue_tail, crypt, taken, entries,
                       buffer, pc, packet, wire, dropped>>
    BY DEF BuildMessage, tickVars, writerVars, history
  <2>2. progress \in [Messages -> Nat]
    BY DEF TypeOK
  <2> QED BY <1>0, <2>1, <2>2
<1>2. /\ \A i \in 1..(L - 1) : ptr'[m[i]] = m[i + 1]
      /\ \A l \in Packets \cup Heads : l \notin E \/ l = m[L] => ptr'[l] = ptr[l]
  <2>1. DOMAIN ptr = Packets \cup Heads
    BY DEF TypeOK
  <2>2. ASSUME NEW i \in 1..(L - 1) PROVE ptr'[m[i]] = m[i + 1]
    <3> DEFINE k == CHOOSE j \in 1..(L - 1) : m[j] = m[i]
    <3>1. k \in 1..(L - 1) /\ m[k] = m[i]
      OBVIOUS
    <3>2. k = i
      <4> HIDE DEF k
      <4>1. k \in 1..L /\ i \in 1..L
        BY <1>0, <3>1
      <4> QED BY <1>0, <3>1, <4>1
    <3>3. m[i] \in Packets \cup Heads
      BY <1>0
    <3>4. ptr'[m[i]] = m[1 + k]
      BY <2>1, <3>3 DEF BuildMessage
    <3> QED BY <1>0, <3>2, <3>4
  <2>3. ASSUME NEW l \in Packets \cup Heads, l \notin E \/ l = m[L]
        PROVE  ptr'[l] = ptr[l]
    <3>1. \A i \in 1..(L - 1) : i \in 1..L /\ i # L /\ L \in 1..L
      BY <1>0
    <3>2. ~\E i \in 1..(L - 1) : m[i] = l
      BY <1>0, <2>3, <3>1
    <3> QED BY <2>1, <3>2 DEF BuildMessage
  <2> QED BY <2>2, <2>3
<1>3. /\ Fresh' = Fresh \ E /\ Private' = Private \cup E /\ E \subseteq Fresh
      /\ \A n \in Messages : n # m => progress'[n] = progress[n]
  <2>1. progress'[m] \in Nat /\ progress'[m] # 0
    BY <1>0, <1>1
  <2>2. E \subseteq Fresh
    BY <1>0, <1>1 DEF Fresh
  <2> QED BY <1>1, <2>1, <2>2, PhaseStep
<1>4. /\ \A p \in SendQ \cup EncQ \cup TakenQ : p \notin E
      /\ SendQ \subseteq Packets /\ EncQ \subseteq Packets /\ TakenQ \subseteq Packets
  BY <1>3, Sets DEF PlacePart, Used
<1>5. \A p \in SendQ \cup EncQ \cup TakenQ \cup Heads : ptr'[p] = ptr[p]
  BY <1>0, <1>2, <1>4, Places DEF Heads
<1>6. Taking' <=> Taking
  <2>1. progress[m] # L + 4 /\ progress'[m] # L + 4
    BY <1>0, <1>1
  <2> QED BY <1>3, <2>1 DEF Taking
<1>7. /\ SendQ' = SendQ /\ EncQ' = EncQ
      /\ QueueEnds(ptr', SendHead, send_queue_tail)
      /\ QueueEnds(ptr', EncryptHead, encrypt_queue_tail)
  BY <1>5, QueueFrame DEF Heads, SendQ, EncQ, ListPart
<1>8. TakenQ' = TakenQ /\ CurrentQ' = CurrentQ /\ TakenPart'
  BY <1>1, <1>5, <1>6, TakenFrame
<1>9. /\ ListFrom(ptr', m[1]) = E /\ Ends(ptr', m[1], m[L]) /\ Acyclic(ptr')
  <2> DEFINE r == ptr'
  <2>1. ptr \in Contents /\ r \in Contents /\ Acyclic(ptr)
    BY DEF TypeOK, Contents, ListPart
  <2>2. ptr[m[L]] = Null
    BY <1>0, <1>1 DEF MessagePart, MessageOK
  <2>3. /\ \A i \in 1..(Len(m) - 1) : r[m[i]] = m[i + 1]
        /\ r[m[Len(m)]] = Null
        /\ \A p \in Packets \ ElementsOf(m) : r[p] = ptr[p]
    BY <1>0, <1>2, <2>2
  <2> HIDE DEF r
  <2>4. /\ ListFrom(r, m[1]) = ElementsOf(m) /\ Ends(r, m[1], m[Len(m)]) /\ Acyclic(r)
    BY <2>1, <2>3, MessageList
  <2> QED BY <2>4 DEF r
<1>10. ListPart'
  BY <1>1, <1>7, <1>9 DEF ListPart
<1>11. MessagePart'
  <2>1. MessageOK(m)'
    <3>1. progress'[m] # 0 /\ progress'[m] # L + 4
      BY <1>0, <1>1
    <3> QED BY <1>9, <3>1 DEF MessageOK
  <2>2. ASSUME NEW n \in Messages, n # m PROVE MessageOK(n)'
    <3>1. \A p \in ElementsOf(n) : p \in Packets /\ p \notin E
      BY <2>2, MessageFacts, MessagesApart
    <3>2. \A p \in ElementsOf(n) : ptr'[p] = ptr[p]
      BY <1>2, <3>1
    <3> QED BY <1>3, <2>2, <3>2, MessageFrame DEF MessagePart
  <2> QED BY <2>1, <2>2 DEF MessagePart
<1>12. SameHands
  BY <1>1 DEF SameHands
<1>13. Written' = Written
  BY <1>1 DEF Written
<1>14. Used' = Used /\ InHand("encrypt")' = InHand("encrypt") /\ HandPart'
  BY <1>7, <1>12, <1>13, HandsFrame DEF Used
<1>15. PlacePart'
  BY <1>3, <1>7, <1>8, <1>14 DEF PlacePart
<1>16. TickPart' /\ WirePart'
  BY <1>1, <1>3, <1>13 DEF TickPart, WirePart
<1>17. CryptPart'
  BY <1>1, <1>3, <1>7, <1>8, <1>14 DEF CryptPart
<1>18. RefPart'
  <2>1. ASSUME NEW p \in E
        PROVE  refs'[p] >= Queued(p)' + Cardinality(Holders(p))' + Listed(p)'
    <3>1. p \in Fresh /\ p \notin InHand("encrypt") /\ p \notin InHand("write") /\ p \notin Written
      BY <1>3 DEF PlacePart, Used
    <3>2. Holders(p) = {}
      BY <3>1 DEF Holders, InHand
    <3>3. Holders(p)' = {}
      BY <1>12, <3>2, HandsFrame
    <3>4. Listed(p)' = 0
      BY <1>0, <1>1, <3>1, Places DEF Listed, TickPart
    <3>5. Queued(p)' \in {0, 1} /\ refs'[p] = 1
      BY <1>0 DEF Queued, BuildMessage
    <3>6. Cardinality(Holders(p)') = 0
      BY <3>3, FS_EmptySet
    <3> QED BY <3>4, <3>5, <3>6
  <2>2. ASSUME NEW p \in Packets, p \notin E
        PROVE  refs'[p] >= Queued(p)' + Cardinality(Holders(p))' + Listed(p)'
    <3>1. refs'[p] = refs[p]
      BY <2>2 DEF BuildMessage
    <3>2. Queued(p)' = Queued(p) /\ Listed(p)' = Listed(p)
      BY <1>1, <1>3, <1>7, <1>8, <2>2 DEF Queued, Listed
    <3>3. Holders(p)' = Holders(p)
      BY <1>12, HandsFrame
    <3> QED BY <3>1, <3>2, <3>3 DEF RefPart
  <2> QED BY <2>1, <2>2 DEF RefPart
<1> QED BY <1>8, <1>10, <1>11, <1>14, <1>15, <1>16, <1>17, <1>18

\* A packet gets its entry in the acknowledge manager.
LEMMA RegisterStep ==
  ASSUME Inv, TypeOK', NEW m \in Messages, RegisterPacket(m)
  PROVE  Inv'
<1> USE DEF Inv
<1> DEFINE L == Len(m)
           E == ElementsOf(m)
           c == m[progress[m]]
<1>0. L \in Nat /\ E \subseteq Packets /\ c \in E
  BY MessageFacts DEF RegisterPacket
<1>1. /\ progress[m] \in 1..L /\ progress' = [progress EXCEPT ![m] = progress'[m]]
      /\ progress'[m] \in 2..(L + 1)
      /\ UNCHANGED <<ptr, send_queue_tail, encrypt_queue_tail, crypt, taken,
                     buffer, pc, packet, wire, dropped>>
  <2>1. /\ progress[m] \in 1..L /\ progress' = [progress EXCEPT ![m] = progress[m] + 1]
        /\ UNCHANGED <<ptr, send_queue_tail, encrypt_queue_tail, crypt, taken,
                       buffer, pc, packet, wire, dropped>>
    BY DEF RegisterPacket, queueVars, writerVars, history
  <2>2. progress \in [Messages -> Nat]
    BY DEF TypeOK
  <2> QED BY <1>0, <2>1, <2>2
<1>2. /\ Fresh' = Fresh \ E /\ Private' = Private
      /\ \A n \in Messages : n # m => progress'[n] = progress[n]
  <2>1. progress'[m] \in Nat /\ progress'[m] # 0 /\ progress'[m] \in 1..(L + 1)
    BY <1>0, <1>1
  <2>2. progress[m] \in 1..(L + 1)
    BY <1>0, <1>1
  <2>3. E \subseteq Private
    BY <1>0, <2>2 DEF Private
  <2> QED BY <1>1, <2>1, <2>3, PhaseStep
<1>3. /\ SendQ' = SendQ /\ EncQ' = EncQ /\ TakenQ' = TakenQ /\ CurrentQ' = CurrentQ
      /\ Written' = Written
  BY <1>1 DEF SendQ, EncQ, TakenQ, CurrentQ, QueueOf, Written
<1>4. SameHands
  BY <1>1 DEF SameHands
<1>5. Used' = Used /\ InHand("encrypt")' = InHand("encrypt") /\ HandPart'
  BY <1>3, <1>4, HandsFrame DEF Used
<1>6. ListPart'
  BY <1>1 DEF ListPart
<1>7. MessagePart'
  <2>1. MessageOK(m)'
    <3>1. progress'[m] # 0 /\ progress'[m] # L + 4 /\ progress[m] \in 1..(L + 1)
      BY <1>0, <1>1
    <3> QED BY <1>1, <3>1 DEF MessagePart, MessageOK
  <2>2. ASSUME NEW n \in Messages, n # m PROVE MessageOK(n)'
    BY <1>1, <1>2, <2>2 DEF MessagePart, MessageOK
  <2> QED BY <2>1, <2>2 DEF MessagePart
<1>8. TakenPart'
  <2>1. progress[m] # L + 4 /\ progress'[m] # L + 4
    BY <1>0, <1>1
  <2>2. Taking' <=> Taking
    BY <1>2, <2>1 DEF Taking
  <2> QED BY <1>1, <1>3, <2>2 DEF TakenPart
<1>9. PlacePart'
  BY <1>2, <1>3, <1>5 DEF PlacePart
<1>10. TickPart' /\ WirePart'
  <2>1. entries' = entries \cup {c}
    BY DEF RegisterPacket
  <2> QED BY <1>0, <1>1, <1>2, <1>3, <2>1 DEF TickPart, WirePart
<1>11. CryptPart'
  BY <1>1, <1>2, <1>3, <1>5 DEF CryptPart
<1>12. RefPart'
  <2>0. refs \in [Packets -> Int] /\ refs' = [refs EXCEPT ![c] = refs[c] + 1]
        /\ entries' = entries \cup {c} /\ c \in Packets
    BY <1>0 DEF RegisterPacket, TypeOK
  <2> HIDE DEF c
  <2>1. ASSUME NEW p \in Packets
        PROVE  refs'[p] >= Queued(p)' + Cardinality(Holders(p))' + Listed(p)'
    <3>1. Queued(p)' = Queued(p) /\ Queued(p) \in {0, 1}
      BY <1>2, <1>3 DEF Queued
    <3>2. Holders(p)' = Holders(p) /\ Cardinality(Holders(p)) \in Nat
      BY <1>4, HandsFrame, HoldersFinite
    <3>3. refs[p] >= Queued(p) + Cardinality(Holders(p)) + Listed(p) /\ refs[p] \in Int
      BY <2>0 DEF RefPart
    <3>4. CASE p = c
      <4>1. refs'[p] = refs[p] + 1 /\ Listed(p)' \in {0, 1} /\ Listed(p) \in {0, 1}
        BY <2>0, <3>4 DEF Listed
      <4> QED BY <3>1, <3>2, <3>3, <4>1
    <3>5. CASE p # c
      <4>1. refs'[p] = refs[p] /\ Listed(p)' = Listed(p)
        BY <1>1, <2>0, <3>5 DEF Listed
      <4> QED BY <3>1, <3>2, <3>3, <4>1
    <3> QED BY <3>4, <3>5
  <2> QED BY <2>1 DEF RefPart
<1> QED BY <1>5, <1>6, <1>7, <1>8, <1>9, <1>10, <1>11, <1>12

\* The tail of a queue is its head or its last packet.
LEMMA TailPlace ==
  ASSUME TypeOK, NEW h \in Heads, NEW t, QueueEnds(ptr, h, t)
  PROVE  /\ ptr[h] = Null => t = h /\ QueueOf(h) = {}
         /\ ptr[h] # Null => t \in QueueOf(h) /\ t \in Packets
         /\ t \in Packets \cup Heads /\ ptr[t] = Null
         /\ QueueOf(h) \subseteq Packets
<1>1. ptr \in Contents /\ ptr[h] \in Packets \cup {Null} /\ QueueOf(h) \subseteq Packets
  BY Sets, ListFacts DEF Heads, QueueOf
<1>2. ListFrom(ptr, Null) = {}
  BY <1>1, ListOfNull
<1> QED BY <1>1, <1>2 DEF QueueEnds, Ends, QueueOf

\* A message is appended to the encrypt queue.
LEMMA EnqueueStep ==
  ASSUME Inv, TypeOK', NEW m \in Messages, EnqueueMessage(m)
  PROVE  Inv'
<1> USE DEF Inv
<1> DEFINE L == Len(m)
           E == ElementsOf(m)
           t == encrypt_queue_tail
<1>0. /\ L \in Nat /\ L >= 1 /\ E \subseteq Packets
      /\ m[1] \in Packets /\ m[L] \in Packets
  BY MessageFacts
<1>1. /\ progress[m] = L + 1 /\ progress' = [progress EXCEPT ![m] = progress'[m]]
      /\ progress'[m] = L + 2
      /\ UNCHANGED <<send_queue_tail, refs, crypt, taken, entries,
                     buffer, pc, packet, wire, dropped>>
  <2>1. /\ progress[m] = L + 1 /\ progress' = [progress EXCEPT ![m] = progress[m] + 1]
        /\ UNCHANGED <<send_queue_tail, refs, crypt, taken, entries,
                       buffer, pc, packet, wire, dropped>>
    BY DEF EnqueueMessage, tickVars, writerVars, history
  <2>2. progress \in [Messages -> Nat]
    BY DEF TypeOK
  <2> QED BY <1>0, <2>1, <2>2
<1>2. /\ Fresh' = Fresh \ E /\ Private' = Private \ E /\ E \subseteq Private
      /\ \A n \in Messages : n # m => progress'[n] = progress[n]
  <2>1. progress'[m] \in Nat /\ progress'[m] # 0 /\ progress'[m] \notin 1..(L + 1)
    BY <1>0, <1>1
  <2>2. progress[m] \in 1..(L + 1)
    BY <1>0, <1>1
  <2>3. E \subseteq Private
    BY <1>0, <2>2 DEF Private
  <2> QED BY <1>1, <2>1, <2>3, PhaseStep
<1>3. ListFrom(ptr, m[1]) = E /\ Ends(ptr, m[1], m[L])
  <2>1. progress[m] \in 1..(L + 1)
    BY <1>0, <1>1
  <2> QED BY <2>1 DEF MessagePart, MessageOK
<1>4. /\ t = EncryptHead \/ t \in EncQ
      /\ t \in Packets \cup Heads /\ EncQ \subseteq Packets /\ SendQ \subseteq Packets
      /\ TakenQ \subseteq Packets /\ ptr \in Contents /\ ptr' \in Contents
  BY TailPlace, Sets DEF Heads, ListPart, EncQ, TypeOK, Contents
<1>5. t \notin E /\ t \notin SendQ /\ t \notin TakenQ /\ t # SendHead
  BY <1>0, <1>2, <1>4, Places DEF PlacePart, Used
<1>6. \A l \in Packets \cup Heads : ptr'[l] = IF l = t THEN m[1] ELSE ptr[l]
  BY <1>4 DEF EnqueueMessage, TypeOK
<1>7. Acyclic(ptr') /\ EncQ' = EncQ \cup E /\ QueueEnds(ptr', EncryptHead, m[L])
  <2> DEFINE r == ptr'
  <2>1. /\ r[t] = m[1] /\ \A l \in Packets \cup Heads : l # t => r[l] = ptr[l]
        /\ r \in Contents /\ EncryptHead \in Heads
    BY <1>4, <1>6 DEF Heads
  <2>2. QueueEnds(ptr, EncryptHead, t) /\ Acyclic(ptr) /\ t \notin ListFrom(ptr, m[1])
    BY <1>3, <1>5 DEF ListPart
  <2> HIDE DEF r, t
  <2>3. /\ Acyclic(r) /\ QueueEnds(r, EncryptHead, m[L])
        /\ ListFrom(r, r[EncryptHead]) = ListFrom(ptr, ptr[EncryptHead]) \cup ListFrom(ptr, m[1])
    BY <1>0, <1>3, <1>4, <2>1, <2>2, Appended
  <2> QED BY <1>3, <2>3 DEF r, EncQ, QueueOf
<1>8. SendQ' = SendQ /\ QueueEnds(ptr', SendHead, send_queue_tail)
  <2>1. SendHead \in Heads /\ ptr'[SendHead] = ptr[SendHead]
    BY <1>5, <1>6 DEF Heads
  <2>2. \A p \in QueueOf(SendHead) : ptr'[p] = ptr[p]
    BY <1>4, <1>5, <1>6 DEF SendQ
  <2> QED BY <2>1, <2>2, QueueFrame DEF SendQ, ListPart
<1>9. TakenQ' = TakenQ /\ CurrentQ' = CurrentQ /\ TakenPart'
  <2>1. progress[m] # L + 4 /\ progress'[m] # L + 4
    BY <1>0, <1>1
  <2>2. Taking' <=> Taking
    BY <1>2, <2>1 DEF Taking
  <2>3. \A p \in TakenQ : ptr'[p] = ptr[p]
    BY <1>4, <1>5, <1>6
  <2> QED BY <1>1, <2>2, <2>3, TakenFrame
<1>10. ListPart'
  BY <1>1, <1>7, <1>8 DEF ListPart, EnqueueMessage
<1>11. MessagePart'
  <2>1. MessageOK(m)'
    <3>1. progress'[m] # 0 /\ progress'[m] # L + 4 /\ progress'[m] \notin 1..(L + 1)
      BY <1>0, <1>1
    <3> QED BY <3>1 DEF MessageOK
  <2>2. ASSUME NEW n \in Messages, n # m PROVE MessageOK(n)'
    <3>1. ASSUME progress[n] \in 0..(Len(n) + 1), NEW p \in ElementsOf(n)
          PROVE  ptr'[p] = ptr[p]
      <4>1. p \in Packets /\ Len(n) \in Nat
        BY MessageFacts
      <4>2. p \in Fresh \cup Private
        BY <3>1, <4>1 DEF Fresh, Private
      <4>3. p # t
        BY <1>4, <4>1, <4>2, Places DEF PlacePart
      <4> QED BY <1>6, <4>1, <4>3
    <3> QED BY <1>2, <2>2, <3>1, MessageFrame DEF MessagePart
  <2> QED BY <2>1, <2>2 DEF MessagePart
<1>12. SameHands
  BY <1>1 DEF SameHands
<1>13. Written' = Written
  BY <1>1 DEF Written
<1>14. Used' = Used /\ InHand("encrypt")' = InHand("encrypt") /\ HandPart'
  BY <1>8, <1>12, <1>13, HandsFrame DEF Used
<1>15. PlacePart'
  <2>1. \A p \in E : p \notin TakenQ /\ p \notin InHand("encrypt") /\ p \notin Used
    BY <1>2 DEF PlacePart
  <2> QED BY <1>2, <1>7, <1>8, <1>9, <1>14, <2>1 DEF PlacePart
<1>16. TickPart' /\ WirePart'
  BY <1>1, <1>2, <1>13 DEF TickPart, WirePart
<1>17. CryptPart'
  BY <1>1, <1>2, <1>7, <1>9, <1>14 DEF CryptPart
<1>18. RefPart'
  <2>1. ASSUME NEW p \in Packets
        PROVE  Queued(p)' = Queued(p) /\ Listed(p)' = Listed(p) /\ Holders(p)' = Holders(p)
    <3>1. p \in (Private \cup EncQ \cup TakenQ \cup SendQ)' <=> p \in Private \cup EncQ \cup TakenQ \cup SendQ
      BY <1>2, <1>7, <1>8, <1>9
    <3> QED BY <1>1, <1>12, <3>1, HandsFrame DEF Queued, Listed
  <2> QED BY <1>1, <2>1 DEF RefPart
<1> QED BY <1>9, <1>10, <1>11, <1>14, <1>15, <1>16, <1>17, <1>18

\* encrypt_pending_packets takes the encrypt queue, ...
LEMMA TakePendingStep ==
  ASSUME Inv, TypeOK', Ordered', NEW m \in Messages, TakePending(m)
  PROVE  Inv'
<1> USE DEF Inv
<1> DEFINE L == Len(m)
           E == ElementsOf(m)
           x == ptr[EncryptHead]
           t == encrypt_queue_tail
<1>0. L \in Nat /\ L >= 1 /\ E \subseteq Packets
  BY MessageFacts
<1>1. /\ m \in Handshake /\ progress[m] = L + 3
      /\ progress' = [progress EXCEPT ![m] = progress'[m]] /\ progress'[m] = L + 4
      /\ UNCHANGED <<send_queue_tail, refs, crypt, entries,
                     buffer, pc, packet, wire, dropped>>
  <2>1. /\ m \in Handshake /\ progress[m] = L + 3
        /\ progress' = [progress EXCEPT ![m] = progress[m] + 1]
        /\ UNCHANGED <<send_queue_tail, refs, crypt, entries,
                       buffer, pc, packet, wire, dropped>>
    BY DEF TakePending, tickVars, writerVars, history
  <2>2. progress \in [Messages -> Nat]
    BY DEF TypeOK
  <2> QED BY <1>0, <2>1, <2>2
<1>2. /\ x \in Packets /\ taken'.head = x /\ taken'.tail = t /\ taken'.current = x
      /\ encrypt_queue_tail' = EncryptHead
      /\ \A l \in Packets \cup Heads : ptr'[l] = IF l = EncryptHead THEN Null ELSE ptr[l]
  <2>1. x # Null
    BY <1>1 DEF TakePending, Ordered
  <2>2. x \in Packets
    BY <2>1, Sets
  <2> QED BY <2>2 DEF TakePending, TypeOK
<1>3. /\ Fresh' = Fresh \ E /\ Private' = Private \ E
      /\ \A n \in Messages : n # m => progress'[n] = progress[n]
  <2>1. progress'[m] \in Nat /\ progress'[m] # 0 /\ progress'[m] \notin 1..(L + 1)
    BY <1>0, <1>1
  <2> QED BY <1>1, <2>1, PhaseStep
<1>4. ~Taking /\ Taking'
  <2>1. progress[m] # L + 4
    BY <1>0, <1>1
  <2>2. \A n \in Messages : progress[n] = Len(n) + 4 => n = m
    BY <1>1, EncoderAssumption DEF MessagePart, MessageOK
  <2> QED BY <1>1, <2>1, <2>2 DEF Taking
<1>5. TakenQ = {} /\ CurrentQ = {} /\ EncQ \subseteq Packets /\ SendQ \subseteq Packets
  BY <1>4, TakenFacts, Sets
<1>6. \A p \in Packets : ptr'[p] = ptr[p]
  BY <1>2, Places
<1>7. /\ Acyclic(ptr') /\ EncQ' = {} /\ TakenQ' = EncQ /\ CurrentQ' = EncQ
      /\ Ends(ptr', x, t) /\ x \in EncQ
  <2> DEFINE r == ptr'
  <2>1. /\ r \in Contents /\ ptr \in Contents /\ Acyclic(ptr) /\ r[EncryptHead] = Null
        /\ \A p \in Packets : r[p] = ptr[p]
    BY <1>2, <1>6 DEF TypeOK, Contents, ListPart, Heads
  <2>2. Ends(ptr, x, t)
    BY <1>2, Places DEF ListPart, QueueEnds
  <2> HIDE DEF r, t
  <2>3. Acyclic(r) /\ ListFrom(r, x) = ListFrom(ptr, x) /\ ListFrom(r, Null) = {}
    BY <1>2, <2>1, SameNexts, ListOfNull
  <2>4. Ends(r, x, t)
    BY <1>5, <2>1, <2>2, <2>3 DEF Ends, EncQ, QueueOf
  <2>5. x \in ListFrom(ptr, x)
    BY <1>2, <2>1, ListFacts, Places
  <2> QED BY <1>2, <2>1, <2>3, <2>4, <2>5 DEF r, EncQ, TakenQ, CurrentQ, QueueOf
<1>8. SendQ' = SendQ /\ QueueEnds(ptr', SendHead, send_queue_tail)
  <2>1. SendHead \in Heads /\ ptr'[SendHead] = ptr[SendHead]
    BY <1>2, Places DEF Heads
  <2>2. \A p \in QueueOf(SendHead) : ptr'[p] = ptr[p]
    BY <1>5, <1>6 DEF SendQ
  <2> QED BY <2>1, <2>2, QueueFrame DEF SendQ, ListPart
<1>9. TakenPart'
  BY <1>2, <1>4, <1>7 DEF TakenPart
<1>10. ListPart'
  <2>1. QueueEnds(ptr', EncryptHead, EncryptHead)
    BY <1>2 DEF QueueEnds, Heads
  <2> QED BY <1>1, <1>2, <1>7, <1>8, <2>1 DEF ListPart
<1>11. MessagePart'
  <2>1. MessageOK(m)'
    <3>1. progress'[m] # 0 /\ progress'[m] \notin 1..(L + 1)
      BY <1>0, <1>1
    <3> QED BY <1>1, <3>1 DEF MessageOK
  <2>2. ASSUME NEW n \in Messages, n # m PROVE MessageOK(n)'
    <3>1. \A p \in ElementsOf(n) : ptr'[p] = ptr[p]
      BY <1>6, MessageFacts
    <3> QED BY <1>3, <2>2, <3>1, MessageFrame DEF MessagePart
  <2> QED BY <2>1, <2>2 DEF MessagePart
<1>12. SameHands
  BY <1>1 DEF SameHands
<1>13. Written' = Written
  BY <1>1 DEF Written
<1>14. Used' = Used /\ InHand("encrypt")' = InHand("encrypt") /\ HandPart'
  BY <1>8, <1>12, <1>13, HandsFrame DEF Used
<1>15. PlacePart'
  BY <1>3, <1>7, <1>8, <1>14 DEF PlacePart
<1>16. TickPart' /\ WirePart'
  BY <1>1, <1>3, <1>13 DEF TickPart, WirePart
<1>17. CryptPart'
  BY <1>1, <1>3, <1>7, <1>14 DEF CryptPart
<1>18. RefPart'
  <2>1. ASSUME NEW p \in Packets
        PROVE  refs[p] >= Queued(p)' + Cardinality(Holders(p))' + Listed(p)'
    <3>1. Listed(p)' = Listed(p) /\ Holders(p)' = Holders(p) /\ Listed(p) \in {0, 1}
      BY <1>1, <1>12, HandsFrame DEF Listed
    <3>2. Queued(p)' \in {0, 1} /\ Queued(p) \in {0, 1} /\ (Queued(p)' = 1 => Queued(p) = 1)
      BY <1>3, <1>5, <1>7, <1>8 DEF Queued
    <3>3. /\ refs[p] \in Int /\ Cardinality(Holders(p)) \in Nat
          /\ refs[p] >= Queued(p) + Cardinality(Holders(p)) + Listed(p)
      BY HoldersFinite DEF RefPart, TypeOK
    <3> QED BY <3>1, <3>2, <3>3
  <2> QED BY <1>1, <2>1 DEF RefPart
<1> QED BY <1>9, <1>10, <1>11, <1>14, <1>15, <1>16, <1>17, <1>18

\* ... encrypts the next packet ...
LEMMA EncryptTakenStep ==
  ASSUME Inv, TypeOK', NEW m \in Messages, EncryptTaken(m)
  PROVE  Inv'
<1> USE DEF Inv
<1> DEFINE c == taken.current
<1>1. /\ progress[m] = Len(m) + 4 /\ c # Null
      /\ crypt' = [crypt EXCEPT ![c] = crypt[c] + 1]
      /\ taken'.head = taken.head /\ taken'.tail = taken.tail /\ taken'.current = ptr[c]
      /\ UNCHANGED <<ptr, send_queue_tail, encrypt_queue_tail, refs, progress, entries,
                     buffer, pc, packet, wire, dropped>>
  BY DEF EncryptTaken, TypeOK, queueVars, tickVars, writerVars, history
<1>2. Taking /\ Taking'
  BY <1>1 DEF Taking
<1>3. /\ c \in TakenQ /\ c \in Packets /\ ptr \in Contents /\ TakenQ \subseteq Packets
      /\ ptr[c] \in TakenQ \cup {Null} /\ taken.head \in Packets \cup {Null}
  <2>1. c \in TakenQ /\ c \in Packets /\ ptr \in Contents /\ TakenQ \subseteq Packets
    BY <1>1, <1>2, Sets DEF TakenPart
  <2>2. ptr[c] \in TakenQ \cup {Null}
    BY <2>1, Sets, ListFacts DEF TakenQ
  <2> QED BY <2>1, <2>2, Sets
<1>4. /\ SendQ' = SendQ /\ EncQ' = EncQ /\ TakenQ' = TakenQ
      /\ Fresh' = Fresh /\ Private' = Private /\ Written' = Written
  BY <1>1 DEF SendQ, EncQ, TakenQ, QueueOf, Written, Fresh, Private
<1>5. CurrentQ = {c} \cup CurrentQ' /\ c \notin CurrentQ' /\ CurrentQ \subseteq TakenQ
  <2>1. ListFrom(ptr, c) = {c} \cup ListFrom(ptr, ptr[c]) /\ c \notin ListFrom(ptr, ptr[c])
    BY <1>3, ListStep DEF ListPart, Acyclic
  <2>2. CurrentQ' = ListFrom(ptr, ptr[c])
    BY <1>1 DEF CurrentQ
  <2> QED BY <2>1, <2>2, TakenFacts DEF CurrentQ
<1>6. SameHands
  BY <1>1 DEF SameHands
<1>7. Used' = Used /\ InHand("encrypt")' = InHand("encrypt") /\ HandPart'
  BY <1>4, <1>6, HandsFrame DEF Used
<1>8. ListPart' /\ MessagePart'
  BY <1>1 DEF ListPart, MessagePart, MessageOK
<1>9. TakenPart'
  BY <1>1, <1>2, <1>3, <1>4 DEF TakenPart
<1>10. PlacePart' /\ TickPart' /\ WirePart'
  BY <1>1, <1>4, <1>7 DEF PlacePart, TickPart, WirePart
<1>11. CryptPart'
  <2>1. crypt[c] = 0 /\ crypt \in [Packets -> Nat]
    BY <1>5 DEF CryptPart, TypeOK
  <2>2. crypt'[c] = 1 /\ \A p \in Packets : p # c => crypt'[p] = crypt[p]
    BY <1>1, <1>3, <2>1
  <2>3. /\ Fresh \subseteq Packets /\ Private \subseteq Packets /\ EncQ \subseteq Packets
        /\ Used \subseteq Packets /\ InHand("encrypt") \subseteq Packets
    BY Sets DEF HandPart, InHand, Used
  <2>4. c \notin Fresh \cup Private \cup EncQ \cup InHand("encrypt") \cup Used
    BY <1>3 DEF PlacePart
  <2>5. \A p \in (Fresh \cup Private \cup EncQ \cup InHand("encrypt") \cup CurrentQ)' : crypt'[p] = 0
    <3>1. ASSUME NEW p \in Fresh \cup Private \cup EncQ \cup InHand("encrypt")
          PROVE  crypt'[p] = 0
      BY <2>2, <2>3, <2>4 DEF CryptPart
    <3>2. ASSUME NEW p \in CurrentQ' PROVE crypt'[p] = 0
      BY <1>3, <1>5, <2>2 DEF CryptPart
    <3> QED BY <1>4, <1>7, <3>1, <3>2
  <2>6. \A p \in Used' \cup (TakenQ' \ CurrentQ') : crypt'[p] = 1
    <3>1. ASSUME NEW p \in Used PROVE crypt'[p] = 1
      BY <2>2, <2>3, <2>4 DEF CryptPart
    <3>2. ASSUME NEW p \in TakenQ, p \notin CurrentQ' PROVE crypt'[p] = 1
      BY <1>3, <1>5, <2>2, <3>2 DEF CryptPart
    <3> QED BY <1>4, <1>7, <3>1, <3>2
  <2> QED BY <2>5, <2>6 DEF CryptPart
<1>12. RefPart'
  <2>1. ASSUME NEW p \in Packets
        PROVE  Queued(p)' = Queued(p) /\ Listed(p)' = Listed(p) /\ Holders(p)' = Holders(p)
    BY <1>1, <1>4, <1>6, HandsFrame DEF Queued, Listed
  <2> QED BY <1>1, <2>1 DEF RefPart
<1> QED BY <1>7, <1>8, <1>9, <1>10, <1>11, <1>12

\* ... and appends them all to the send queue.
LEMMA AppendTakenStep ==
  ASSUME Inv, TypeOK', NEW m \in Messages, AppendTaken(m)
  PROVE  Inv'
<1> USE DEF Inv
<1> DEFINE L == Len(m)
           E == ElementsOf(m)
           y == taken.head
           u == taken.tail
           t == send_queue_tail
<1>0. L \in Nat /\ L >= 1 /\ E \subseteq Packets
  BY MessageFacts
<1>1. /\ progress[m] = L + 4 /\ taken.current = Null
      /\ progress' = [progress EXCEPT ![m] = progress'[m]] /\ progress'[m] = L + 5
      /\ send_queue_tail' = u /\ taken' = NothingTaken
      /\ UNCHANGED <<encrypt_queue_tail, refs, crypt, entries,
                     buffer, pc, packet, wire, dropped>>
  <2>1. /\ progress[m] = L + 4 /\ taken.current = Null
        /\ progress' = [progress EXCEPT ![m] = progress[m] + 1]
        /\ send_queue_tail' = u /\ taken' = NothingTaken
        /\ UNCHANGED <<encrypt_queue_tail, refs, crypt, entries,
                       buffer, pc, packet, wire, dropped>>
    BY DEF AppendTaken, tickVars, writerVars, history
  <2>2. progress \in [Messages -> Nat]
    BY DEF TypeOK
  <2> QED BY <1>0, <2>1, <2>2
<1>2. Taking /\ ~Taking'
  <2>1. Taking
    BY <1>1 DEF Taking
  <2>2. \A n \in Messages : n # m => progress[n] # Len(n) + 4
    BY <1>1, OneTaking
  <2>3. progress'[m] # L + 4
    BY <1>0, <1>1
  <2>a. progress \in [Messages -> Nat]
    BY DEF TypeOK
  <2>4. \A n \in Messages : n # m => progress'[n] = progress[n]
    BY <1>1, <2>a
  <2> QED BY <2>1, <2>2, <2>3, <2>4 DEF Taking
<1>3. /\ Fresh' = Fresh \ E /\ Private' = Private \ E
      /\ \A n \in Messages : n # m => progress'[n] = progress[n]
  <2>1. progress'[m] \in Nat /\ progress'[m] # 0 /\ progress'[m] \notin 1..(L + 1)
    BY <1>0, <1>1
  <2> QED BY <1>1, <2>1, PhaseStep
<1>4. /\ y \in Packets /\ u \in Packets /\ u \in TakenQ /\ Ends(ptr, y, u)
      /\ TakenQ \subseteq Packets /\ SendQ \subseteq Packets /\ EncQ \subseteq Packets
      /\ ptr \in Contents /\ ptr' \in Contents /\ CurrentQ = {}
  <2>1. ListFrom(ptr, Null) = {}
    BY Sets, ListOfNull
  <2> QED BY <1>1, <1>2, <2>1, TakenFacts, Sets DEF TakenPart, CurrentQ, TypeOK, Contents
<1>5. t \in Packets \cup Heads /\ (t = SendHead \/ t \in SendQ)
  BY TailPlace DEF ListPart, SendQ, Heads
<1>6. t \notin TakenQ /\ t \notin EncQ /\ t # EncryptHead
  BY <1>4, <1>5, Places DEF PlacePart, Used
<1>7. \A l \in Packets \cup Heads : ptr'[l] = IF l = t THEN y ELSE ptr[l]
  BY <1>5 DEF AppendTaken, TypeOK
<1>8. Acyclic(ptr') /\ SendQ' = SendQ \cup TakenQ /\ QueueEnds(ptr', SendHead, u)
  <2> DEFINE r == ptr'
  <2>1. /\ r[t] = y /\ \A l \in Packets \cup Heads : l # t => r[l] = ptr[l]
        /\ r \in Contents /\ SendHead \in Heads
    BY <1>4, <1>5, <1>7 DEF Heads
  <2>2. QueueEnds(ptr, SendHead, t) /\ Acyclic(ptr) /\ t \notin ListFrom(ptr, y)
    BY <1>6 DEF ListPart, TakenQ
  <2>a. /\ y \in Packets /\ u \in Packets /\ Ends(ptr, y, u)
        /\ t \in Packets \cup Heads /\ ptr \in Contents
    BY <1>4, <1>5
  <2> HIDE DEF r, t, y, u, Inv
  <2>3. /\ Acyclic(r) /\ QueueEnds(r, SendHead, u)
        /\ ListFrom(r, r[SendHead]) = ListFrom(ptr, ptr[SendHead]) \cup ListFrom(ptr, y)
    BY <2>1, <2>2, <2>a, Appended
  <2> QED BY <2>3 DEF r, y, SendQ, TakenQ, QueueOf
<1>9. EncQ' = EncQ /\ QueueEnds(ptr', EncryptHead, encrypt_queue_tail)
  <2>1. EncryptHead \in Heads /\ ptr'[EncryptHead] = ptr[EncryptHead]
    BY <1>6, <1>7 DEF Heads
  <2>2. \A p \in QueueOf(EncryptHead) : ptr'[p] = ptr[p]
    BY <1>4, <1>6, <1>7 DEF EncQ
  <2> QED BY <2>1, <2>2, QueueFrame DEF EncQ, ListPart
<1>10. TakenQ' = {} /\ CurrentQ' = {} /\ TakenPart'
  <2> DEFINE r == ptr'
  <2>1. ListFrom(r, Null) = {}
    <3>1. r \in Contents
      BY <1>4
    <3> HIDE DEF r
    <3> QED BY <3>1, ListOfNull
  <2>2. taken'.head = Null /\ taken'.current = Null
    BY <1>1 DEF NothingTaken
  <2> QED BY <1>1, <1>2, <2>1, <2>2 DEF TakenQ, CurrentQ, TakenPart
<1>11. ListPart'
  BY <1>1, <1>8, <1>9 DEF ListPart
<1>12. MessagePart'
  <2>1. MessageOK(m)'
    <3>1. progress'[m] # 0 /\ progress'[m] \notin 1..(L + 1) /\ progress'[m] # L + 4
      BY <1>0, <1>1
    <3> QED BY <3>1 DEF MessageOK
  <2>2. ASSUME NEW n \in Messages, n # m PROVE MessageOK(n)'
    <3>1. ASSUME progress[n] \in 0..(Len(n) + 1), NEW p \in ElementsOf(n)
          PROVE  ptr'[p] = ptr[p]
      <4>1. p \in Packets /\ Len(n) \in Nat
        BY MessageFacts
      <4>2. p \in Fresh \cup Private
        BY <3>1, <4>1 DEF Fresh, Private
      <4>3. p # t
        BY <1>5, <4>1, <4>2, Places DEF PlacePart, Used
      <4> QED BY <1>7, <4>1, <4>3
    <3> QED BY <1>3, <2>2, <3>1, MessageFrame DEF MessagePart
  <2> QED BY <2>1, <2>2 DEF MessagePart
<1>13. SameHands
  BY <1>1 DEF SameHands
<1>14. Written' = Written
  BY <1>1 DEF Written
<1>15. Used' = Used \cup TakenQ /\ InHand("encrypt")' = InHand("encrypt") /\ HandPart'
  BY <1>8, <1>13, <1>14, HandsFrame DEF Used
<1>16. PlacePart'
  BY <1>3, <1>9, <1>10, <1>15 DEF PlacePart
<1>17. TickPart' /\ WirePart'
  BY <1>1, <1>3, <1>14 DEF TickPart, WirePart
<1>18. CryptPart'
  BY <1>1, <1>3, <1>4, <1>9, <1>10, <1>15 DEF CryptPart
<1>19. RefPart'
  <2>1. ASSUME NEW p \in Packets
        PROVE  refs[p] >= Queued(p)' + Cardinality(Holders(p))' + Listed(p)'
    <3>1. Listed(p)' = Listed(p) /\ Holders(p)' = Holders(p) /\ Listed(p) \in {0, 1}
      BY <1>1, <1>13, HandsFrame DEF Listed
    <3>2. Queued(p)' \in {0, 1} /\ Queued(p) \in {0, 1} /\ (Queued(p)' = 1 => Queued(p) = 1)
      BY <1>3, <1>8, <1>9, <1>10 DEF Queued
    <3>3. /\ refs[p] \in Int /\ Cardinality(Holders(p)) \in Nat
          /\ refs[p] >= Queued(p) + Cardinality(Holders(p)) + Listed(p)
      BY HoldersFinite DEF RefPart, TypeOK
    <3> QED BY <3>1, <3>2, <3>3
  <2> QED BY <1>1, <2>1 DEF RefPart
<1> QED BY <1>10, <1>11, <1>12, <1>15, <1>16, <1>17, <1>18, <1>19
-----------------------------------------------------------------------------
\* Steps of the tick thread and of acknowledges: the lists stay as they are.
StillVars == <<ptr, send_queue_tail, encrypt_queue_tail, crypt, progress, taken,
               pc, packet, wire, dropped>>

\* What these steps keep.
LEMMA StillStep ==
  ASSUME Inv, UNCHANGED StillVars
  PROVE  /\ ListPart' /\ MessagePart' /\ TakenPart' /\ PlacePart' /\ HandPart'
         /\ CryptPart' /\ WirePart' /\ Written' = Written /\ Fresh' = Fresh
         /\ \A p : Holders(p)' = Holders(p) /\ Queued(p)' = Queued(p)
<1> USE DEF Inv, StillVars
<1>1. /\ SendQ' = SendQ /\ EncQ' = EncQ /\ TakenQ' = TakenQ /\ CurrentQ' = CurrentQ
      /\ Written' = Written /\ Fresh' = Fresh /\ Private' = Private
      /\ (Taking' <=> Taking)
  BY DEF SendQ, EncQ, TakenQ, CurrentQ, QueueOf, Written, Fresh, Private, Taking
<1>2. SameHands
  BY DEF SameHands
<1>3. Used' = Used /\ InHand("encrypt")' = InHand("encrypt") /\ HandPart'
  BY <1>1, <1>2, HandsFrame DEF Used
<1>4. ListPart' /\ MessagePart' /\ TakenPart'
  BY <1>1 DEF ListPart, MessagePart, MessageOK, TakenPart
<1>5. PlacePart' /\ CryptPart' /\ WirePart'
  BY <1>1, <1>3 DEF PlacePart, CryptPart, WirePart
<1>6. \A p : Holders(p)' = Holders(p) /\ Queued(p)' = Queued(p)
  BY <1>1, <1>2, HandsFrame DEF Queued
<1> QED BY <1>1, <1>3, <1>4, <1>5, <1>6

\* The references to one packet, in numbers.
LEMMA Numbers ==
  ASSUME TypeOK, RefPart, NEW p \in Packets
  PROVE  /\ refs[p] \in Int /\ Cardinality(Holders(p)) \in Nat
         /\ Queued(p) \in {0, 1} /\ Listed(p) \in {0, 1}
         /\ refs[p] >= Queued(p) + Cardinality(Holders(p)) + Listed(p)
BY HoldersFinite DEF RefPart, TypeOK, Queued, Listed

\* The tick thread finds an entry due.
LEMMA TakeDueStep ==
  ASSUME Inv, TypeOK', NEW c \in Packets, TakeDue(c)
  PROVE  Inv'
<1> USE DEF Inv
<1>1. /\ buffer = Null /\ buffer' = c /\ c \in entries /\ UNCHANGED <<refs, entries>>
      /\ UNCHANGED StillVars
  BY DEF TakeDue, StillVars, queueVars, senderVars, writerVars, history
<1>2. TickPart'
  BY <1>1, StillStep DEF TickPart
<1>3. RefPart'
  <2>1. ASSUME NEW p \in Packets
        PROVE  Queued(p)' = Queued(p) /\ Listed(p)' = Listed(p) /\ Holders(p)' = Holders(p)
    BY <1>1, StillStep, Places DEF Listed
  <2> QED BY <1>1, <2>1 DEF RefPart
<1> QED BY <1>1, <1>2, <1>3, StillStep

\* The entry of an acknowledged packet is erased.
LEMMA AcknowledgeStep ==
  ASSUME Inv, TypeOK', NEW c \in Packets, Acknowledge(c)
  PROVE  Inv'
<1> USE DEF Inv
<1>1. /\ c \in entries /\ entries' = entries \ {c}
      /\ refs' = IF c = buffer THEN refs ELSE [refs EXCEPT ![c] = refs[c] - 1]
      /\ UNCHANGED <<buffer>> /\ UNCHANGED StillVars
  BY DEF Acknowledge, StillVars, queueVars, senderVars, writerVars, history
<1>2. TickPart'
  BY <1>1, StillStep DEF TickPart
<1>3. RefPart'
  <2>1. ASSUME NEW p \in Packets
        PROVE  refs'[p] >= Queued(p)' + Cardinality(Holders(p))' + Listed(p)'
    <3>1. Queued(p)' = Queued(p) /\ Holders(p)' = Holders(p)
      BY <1>1, StillStep
    <3>2. CASE p = c /\ p # buffer
      <4>1. Listed(p) = 1 /\ Listed(p)' = 0
        BY <1>1, <3>2 DEF Listed
      <4>2. refs'[p] = refs[p] - 1
        BY <1>1, <3>2 DEF TypeOK
      <4> QED BY <3>1, <4>1, <4>2, Numbers
    <3>3. CASE p # c \/ p = buffer
      <4>1. Listed(p)' = Listed(p)
        BY <1>1, <3>3 DEF Listed
      <4>2. refs'[p] = refs[p]
        BY <1>1, <3>3 DEF TypeOK
      <4> QED BY <3>1, <4>1, <4>2, Numbers
    <3> QED BY <3>2, <3>3
  <2> QED BY <2>1 DEF RefPart
<1> QED BY <1>1, <1>2, <1>3, StillStep

\* A packet that was written and is in neither queue's chain is in no list.
LEMMA NotQueued ==
  ASSUME Inv, NEW c \in Packets, ~StillQueued(c), c \in Used
  PROVE  /\ c \notin SendQ /\ c \notin EncQ /\ c \notin TakenQ /\ c \notin Fresh \cup Private
         /\ ptr[c] = Null /\ ListFrom(ptr, c) = {c} /\ Ends(ptr, c, c)
<1> USE DEF Inv
<1>1. ptr[c] = Null /\ c # send_queue_tail /\ c # encrypt_queue_tail
  BY DEF StillQueued
<1>2. c \notin SendQ
  <2>1. SUFFICES ASSUME c \in SendQ PROVE FALSE
    OBVIOUS
  <2>2. ptr[SendHead] # Null
    BY <2>1, TailPlace DEF ListPart, Heads, SendQ
  <2> QED BY <1>1, <2>1, <2>2 DEF ListPart, QueueEnds, Ends, SendQ, QueueOf
<1>3. c \notin EncQ /\ c \notin TakenQ /\ c \notin Fresh \cup Private
  BY DEF PlacePart
<1>4. ListFrom(ptr, c) = {c}
  BY <1>1, Sets, ListStep, ListOfNull
<1> QED BY <1>1, <1>2, <1>3, <1>4 DEF Ends

\* A packet is resent unless it is still in a queue.
LEMMA QueueResendStep ==
  ASSUME Inv, TypeOK', Ordered', QueueResend
  PROVE  Inv'
<1> USE DEF Inv
<1> DEFINE c == buffer
           t == send_queue_tail
<1>0. /\ c \in Packets /\ buffer' = Null
      /\ UNCHANGED <<crypt, progress, taken, entries, pc, packet, wire, dropped>>
  <2>1. /\ c # Null /\ buffer' = Null
        /\ UNCHANGED <<crypt, progress, taken, entries, pc, packet, wire, dropped>>
    BY DEF QueueResend, senderVars, writerVars, history
  <2> QED BY <2>1 DEF TypeOK, TickPart, Used
<1>n. Null \notin Fresh
  BY Places DEF Fresh
<1>1. ASSUME NEW p \in Packets
      PROVE  Listed(p)' = IF p = c THEN 1 - EntryReleased(c) ELSE Listed(p)
  BY <1>0, Places DEF Listed, EntryReleased
<1>2. Listed(c) = 1 /\ EntryReleased(c) \in {0, 1}
  BY DEF Listed, EntryReleased
<1>3. CASE StillQueued(c)
  <2>1. /\ refs' = [refs EXCEPT ![c] = refs[c] - EntryReleased(c)]
        /\ UNCHANGED StillVars
    BY <1>0, <1>3 DEF QueueResend, StillVars, queueVars
  <2>2. TickPart'
    BY <1>0, <1>n, <2>1, StillStep DEF TickPart
  <2>3. RefPart'
    <3>1. ASSUME NEW p \in Packets
          PROVE  refs'[p] >= Queued(p)' + Cardinality(Holders(p))' + Listed(p)'
      <4>1. Queued(p)' = Queued(p) /\ Holders(p)' = Holders(p)
        BY <2>1, StillStep
      <4>2. refs'[p] = IF p = c THEN refs[p] - EntryReleased(c) ELSE refs[p]
        BY <1>0, <2>1 DEF TypeOK
      <4>3. Listed(p)' = IF p = c THEN 1 - EntryReleased(c) ELSE Listed(p)
        BY <1>1
      <4> HIDE DEF c, Inv
      <4> QED BY <1>2, <4>1, <4>2, <4>3, Numbers DEF Inv
    <3> QED BY <3>1 DEF RefPart
  <2> QED BY <2>1, <2>2, <2>3, StillStep
<1>4. CASE ~StillQueued(c)
  <2>0. c \in Used
    BY <1>4 DEF QueueResend, Ordered, Used
  <2>1. /\ refs' = [refs EXCEPT ![c] = refs[c] + 1 - EntryReleased(c)]
        /\ ptr' = [ptr EXCEPT ![t] = c] /\ send_queue_tail' = c
        /\ UNCHANGED encrypt_queue_tail
    BY <1>4 DEF QueueResend, ResendReferenced
  <2>2. /\ c \notin SendQ /\ c \notin EncQ /\ c \notin TakenQ /\ c \notin Fresh \cup Private
        /\ ListFrom(ptr, c) = {c} /\ Ends(ptr, c, c) /\ c # t
    BY <1>0, <1>4, <2>0, NotQueued DEF StillQueued
  <2>3. /\ t \in Packets \cup Heads /\ (t = SendHead \/ t \in SendQ)
        /\ SendQ \subseteq Packets /\ EncQ \subseteq Packets /\ TakenQ \subseteq Packets
    BY TailPlace, Sets DEF ListPart, SendQ, Heads
  <2>4. t \notin TakenQ /\ t \notin EncQ /\ t # EncryptHead
    BY <2>3, Places DEF PlacePart, Used
  <2>5. \A l \in Packets \cup Heads : ptr'[l] = IF l = t THEN c ELSE ptr[l]
    BY <2>1, <2>3 DEF TypeOK
  <2>6. Acyclic(ptr') /\ SendQ' = SendQ \cup {c} /\ QueueEnds(ptr', SendHead, c)
    <3> DEFINE r == ptr'
    <3>1. /\ r[t] = c /\ \A l \in Packets \cup Heads : l # t => r[l] = ptr[l]
          /\ r \in Contents /\ ptr \in Contents /\ SendHead \in Heads
          /\ t \in Packets \cup Heads /\ c \in Packets
      BY <1>0, <2>3, <2>5 DEF Heads, Contents, TypeOK
    <3>2. QueueEnds(ptr, SendHead, t) /\ Acyclic(ptr) /\ t \notin ListFrom(ptr, c) /\ Ends(ptr, c, c)
      BY <2>2 DEF ListPart
    <3> HIDE DEF r, t, c, Inv
    <3>3. /\ Acyclic(r) /\ QueueEnds(r, SendHead, c)
          /\ ListFrom(r, r[SendHead]) = ListFrom(ptr, ptr[SendHead]) \cup ListFrom(ptr, c)
      BY <3>1, <3>2, Appended
    <3> QED BY <2>2, <3>3 DEF r, SendQ, QueueOf
  <2>7. EncQ' = EncQ /\ QueueEnds(ptr', EncryptHead, encrypt_queue_tail)
    <3>1. EncryptHead \in Heads /\ ptr'[EncryptHead] = ptr[EncryptHead]
      BY <2>4, <2>5 DEF Heads
    <3>2. \A p \in QueueOf(EncryptHead) : ptr'[p] = ptr[p]
      BY <2>3, <2>4, <2>5 DEF EncQ
    <3> QED BY <3>1, <3>2, QueueFrame DEF EncQ, ListPart
  <2>8. TakenQ' = TakenQ /\ CurrentQ' = CurrentQ /\ TakenPart'
    <3>1. Taking' <=> Taking
      BY <1>0 DEF Taking
    <3>2. \A p \in TakenQ : ptr'[p] = ptr[p]
      BY <2>3, <2>4, <2>5
    <3> QED BY <1>0, <3>1, <3>2, TakenFrame
  <2>9. ListPart'
    BY <2>1, <2>6, <2>7 DEF ListPart
  <2>10. MessagePart'
    <3>1. ASSUME NEW n \in Messages PROVE MessageOK(n)'
      <4>1. ASSUME progress[n] \in 0..(Len(n) + 1), NEW p \in ElementsOf(n)
            PROVE  ptr'[p] = ptr[p]
        <5>1. p \in Packets /\ Len(n) \in Nat
          BY MessageFacts
        <5>2. p \in Fresh \cup Private
          BY <4>1, <5>1 DEF Fresh, Private
        <5>3. p # t
          BY <2>3, <5>1, <5>2, Places DEF PlacePart, Used
        <5> QED BY <2>5, <5>1, <5>3
      <4> QED BY <1>0, <4>1, MessageFrame DEF MessagePart
    <3> QED BY <3>1 DEF MessagePart
  <2>11. /\ Written' = Written /\ Fresh' = Fresh /\ Private' = Private /\ SameHands
    BY <1>0 DEF Written, Fresh, Private, SameHands
  <2>12. Used' = Used /\ InHand("encrypt")' = InHand("encrypt") /\ HandPart'
    BY <1>0, <2>0, <2>6, <2>11, HandsFrame DEF Used
  <2>13. PlacePart' /\ CryptPart' /\ WirePart'
    BY <1>0, <2>7, <2>8, <2>11, <2>12 DEF PlacePart, CryptPart, WirePart
  <2>14. TickPart'
    BY <1>0, <1>n, <2>11 DEF TickPart
  <2>15. RefPart'
    <3>1. ASSUME NEW p \in Packets
          PROVE  refs'[p] >= Queued(p)' + Cardinality(Holders(p))' + Listed(p)'
      <4>1. /\ p # c => Queued(p)' = Queued(p)
            /\ Queued(p)' \in {0, 1} /\ Holders(p)' = Holders(p)
        BY <2>6, <2>7, <2>8, <2>11, HandsFrame DEF Queued
      <4>2. refs'[p] = IF p = c THEN refs[p] + 1 - EntryReleased(c) ELSE refs[p]
        BY <1>0, <2>1 DEF TypeOK
      <4>3. Listed(p)' = IF p = c THEN 1 - EntryReleased(c) ELSE Listed(p)
        BY <1>1
      <4> HIDE DEF c, Inv
      <4> QED BY <1>2, <4>1, <4>2, <4>3, Numbers DEF Inv
    <3> QED BY <3>1 DEF RefPart
  <2> QED BY <2>8, <2>9, <2>10, <2>12, <2>13, <2>14, <2>15
<1> QED BY <1>3, <1>4
-----------------------------------------------------------------------------
\* A writer takes a packet in hand.
LEMMA HandTaken ==
  ASSUME TypeOK, NEW w \in Writers, NEW c \in Packets, NEW l \in {"encrypt", "write"},
         pc[w] \notin {"encrypt", "write"}, pc' = [pc EXCEPT ![w] = l],
         packet' = [packet EXCEPT ![w] = c]
  PROVE  /\ InHand(l)' = InHand(l) \cup {c}
         /\ \A k \in {"encrypt", "write"} : k # l => InHand(k)' = InHand(k)
         /\ \A p \in Packets : p # c => Holders(p)' = Holders(p)
         /\ Cardinality(Holders(c)') = Cardinality(Holders(c)) + 1
<1>1. /\ pc'[w] = l /\ packet'[w] = c
      /\ \A v \in Writers : v # w => pc'[v] = pc[v] /\ packet'[v] = packet[v]
  BY DEF TypeOK
<1>2. InHand(l)' = InHand(l) \cup {c}
  BY <1>1 DEF InHand
<1>3. ASSUME NEW k \in {"encrypt", "write"}, k # l PROVE InHand(k)' = InHand(k)
  BY <1>1, <1>3 DEF InHand
<1>4. ASSUME NEW p \in Packets, p # c PROVE Holders(p)' = Holders(p)
  BY <1>1, <1>4 DEF Holders
<1>5. Holders(c)' = Holders(c) \cup {w} /\ w \notin Holders(c)
  BY <1>1 DEF Holders
<1>6. Cardinality(Holders(c)') = Cardinality(Holders(c)) + 1
  BY <1>5, HoldersFinite, FS_AddElement
<1> QED BY <1>2, <1>3, <1>4, <1>6

\* A writer is done with the packet it tried to write.
LEMMA HandLeft ==
  ASSUME TypeOK, HandPart, NEW w \in Writers, NEW c, c = packet[w], pc[w] = "write",
         pc'[w] \notin {"encrypt", "write"},
         \A v \in Writers : v # w => pc'[v] = pc[v] /\ packet'[v] = packet[v]
  PROVE  /\ c \in InHand("write") /\ c \in Packets
         /\ InHand("encrypt")' = InHand("encrypt")
         /\ InHand("write")' \subseteq InHand("write")
         /\ InHand("write") \subseteq InHand("write")' \cup {c}
         /\ \A p \in Packets : p # c => Holders(p)' = Holders(p)
         /\ Cardinality(Holders(c)) >= 1
         /\ Cardinality(Holders(c)') = Cardinality(Holders(c)) - 1
         /\ HandPart'
<1>1. c \in InHand("write") /\ c \in Packets
  BY DEF InHand, HandPart
<1>2. /\ InHand("encrypt")' = InHand("encrypt")
      /\ InHand("write")' \subseteq InHand("write")
      /\ InHand("write") \subseteq InHand("write")' \cup {c}
  BY DEF InHand
<1>3. ASSUME NEW p \in Packets, p # c PROVE Holders(p)' = Holders(p)
  BY <1>3 DEF Holders
<1>4. HandPart'
  BY DEF HandPart
<1>5. Holders(c)' = Holders(c) \ {w} /\ w \in Holders(c)
  BY DEF Holders
<1>6. /\ Cardinality(Holders(c)) >= 1
      /\ Cardinality(Holders(c)') = Cardinality(Holders(c)) - 1
  <2>1. IsFiniteSet(Holders(c)) /\ Cardinality(Holders(c)) \in Nat
    BY HoldersFinite
  <2>2. Cardinality(Holders(c)) # 0
    BY <1>5, <2>1, FS_EmptySet
  <2>3. Cardinality(Holders(c) \ {w}) = Cardinality(Holders(c)) - 1
    BY <1>5, <2>1, FS_RemoveElement
  <2> QED BY <1>5, <2>1, <2>2, <2>3
<1> QED BY <1>1, <1>2, <1>3, <1>4, <1>6

\* The lists after the first packet of a queue was taken out.
LEMMA PopLists ==
  ASSUME Inv, TypeOK', NEW h \in Heads, NEW g \in Heads, g # h, NEW c \in Packets,
         ptr[h] = c, ptr' = Popped(h, c), UNCHANGED <<taken, progress>>,
         QueueEnds(ptr, SendHead, send_queue_tail),
         QueueEnds(ptr, EncryptHead, encrypt_queue_tail)
  PROVE  /\ Acyclic(ptr')
         /\ c \in QueueOf(h) /\ QueueOf(h) = {c} \cup QueueOf(h)' /\ c \notin QueueOf(h)'
         /\ \A t \in Packets \cup Heads :
              QueueEnds(ptr, h, t) => QueueEnds(ptr', h, TailAfterPop(h, c, t))
         /\ QueueOf(g)' = QueueOf(g)
         /\ \A t : QueueEnds(ptr, g, t) => QueueEnds(ptr', g, t)
         /\ TakenQ' = TakenQ /\ CurrentQ' = CurrentQ /\ TakenPart'
         /\ Fresh' = Fresh /\ Private' = Private /\ MessagePart'
<1> USE DEF Inv
<1> DEFINE r == ptr'
<1>0. /\ ptr \in Contents /\ r \in Contents /\ Acyclic(ptr)
      /\ Heads = {SendHead, EncryptHead} /\ Heads \cap Packets = {} /\ ptr[c] \in Packets \cup {Null}
  BY Places DEF TypeOK, Contents, ListPart, Heads
<1>1. /\ r[h] = ptr[c] /\ r[c] = Null
      /\ \A l \in Packets \cup Heads : l \notin {c, h} => r[l] = ptr[l]
  BY <1>0 DEF Popped, TypeOK
<1>2. PICK t0 \in Packets \cup Heads : QueueEnds(ptr, h, t0)
  <2>1. send_queue_tail \in Packets \cup Heads /\ encrypt_queue_tail \in Packets \cup Heads
    BY DEF TypeOK
  <2> QED BY <1>0, <2>1
<1> HIDE DEF r
<1>3. ASSUME NEW t \in Packets \cup Heads, QueueEnds(ptr, h, t)
      PROVE  /\ Acyclic(r)
             /\ ListFrom(ptr, ptr[h]) = {c} \cup ListFrom(r, r[h])
             /\ c \notin ListFrom(r, r[h])
             /\ QueueEnds(r, h, IF ptr[c] = Null THEN h ELSE t)
  BY <1>0, <1>1, <1>3, PoppedList
<1>4. /\ Acyclic(ptr')
      /\ c \in QueueOf(h) /\ QueueOf(h) = {c} \cup QueueOf(h)' /\ c \notin QueueOf(h)'
  BY <1>2, <1>3 DEF r, QueueOf
<1>5. ASSUME NEW t \in Packets \cup Heads, QueueEnds(ptr, h, t)
      PROVE  QueueEnds(ptr', h, TailAfterPop(h, c, t))
  BY <1>3, <1>5 DEF r, TailAfterPop
<1>6. /\ c \notin QueueOf(g) /\ c \notin TakenQ /\ c \notin Fresh \cup Private
      /\ QueueOf(g) \subseteq Packets /\ TakenQ \subseteq Packets
  <2>1. SendQ \subseteq Packets /\ EncQ \subseteq Packets /\ TakenQ \subseteq Packets
    BY Sets
  <2>2. CASE h = SendHead
    <3>1. g = EncryptHead /\ c \in SendQ
      BY <1>0, <1>4, <2>2 DEF SendQ
    <3> QED BY <2>1, <3>1 DEF PlacePart, Used, EncQ
  <2>3. CASE h = EncryptHead
    <3>1. g = SendHead /\ c \in EncQ
      BY <1>0, <1>4, <2>3 DEF EncQ
    <3> QED BY <2>1, <3>1 DEF PlacePart, Used, SendQ
  <2> QED BY <1>0, <2>2, <2>3
<1>7. /\ QueueOf(g)' = QueueOf(g)
      /\ \A t : QueueEnds(ptr, g, t) => QueueEnds(ptr', g, t)
  <2>1. ptr'[g] = ptr[g] /\ \A p \in QueueOf(g) : ptr'[p] = ptr[p]
    BY <1>0, <1>1, <1>6 DEF r
  <2> QED BY <2>1, QueueFrame
<1>8. TakenQ' = TakenQ /\ CurrentQ' = CurrentQ /\ TakenPart'
  <2>1. Taking' <=> Taking
    BY DEF Taking
  <2>2. \A p \in TakenQ : ptr'[p] = ptr[p]
    BY <1>0, <1>1, <1>6 DEF r
  <2> QED BY <2>1, <2>2, TakenFrame
<1>9. Fresh' = Fresh /\ Private' = Private
  BY DEF Fresh, Private
<1>10. MessagePart'
  <2>1. ASSUME NEW n \in Messages PROVE MessageOK(n)'
    <3>1. ASSUME progress[n] \in 0..(Len(n) + 1), NEW p \in ElementsOf(n)
          PROVE  ptr'[p] = ptr[p]
      <4>1. p \in Packets /\ Len(n) \in Nat
        BY MessageFacts
      <4>2. p \in Fresh \cup Private
        BY <3>1, <4>1 DEF Fresh, Private
      <4>3. p # c /\ p # h
        BY <1>0, <1>6, <4>1, <4>2
      <4> QED BY <1>1, <4>1, <4>3 DEF r
    <3> QED BY <3>1, MessageFrame DEF MessagePart
  <2> QED BY <2>1 DEF MessagePart
<1> QED BY <1>4, <1>5, <1>7, <1>8, <1>9, <1>10

\* pop_write_buffer takes a packet from the send or the encrypt queue.
LEMMA PopPacketStep ==
  ASSUME Inv, TypeOK', NEW w \in Writers, PopPacket(w),
         ptr[SendHead] # Null \/ ptr[EncryptHead] # Null
  PROVE  Inv'
<1> USE DEF Inv
<1>0. /\ UNCHANGED <<refs, crypt, progress, taken, entries, buffer, wire, dropped>>
      /\ pc[w] = "pop" /\ SendHead \in Heads /\ EncryptHead \in Heads /\ SendHead # EncryptHead
      /\ QueueEnds(ptr, SendHead, send_queue_tail)
      /\ QueueEnds(ptr, EncryptHead, encrypt_queue_tail)
      /\ send_queue_tail \in Packets \cup Heads /\ encrypt_queue_tail \in Packets \cup Heads
  BY Places DEF PopPacket, senderVars, tickVars, history, Heads, ListPart, TypeOK
<1>1. Written' = Written /\ WirePart'
  BY <1>0 DEF Written, WirePart
<1>2. CASE ptr[SendHead] # Null
  <2>a. PICK c \in Packets : c = ptr[SendHead]
    BY <1>2, Sets
  <2>1. /\ c \in Packets /\ ptr' = Popped(SendHead, c)
        /\ packet' = [packet EXCEPT ![w] = c] /\ pc' = [pc EXCEPT ![w] = "write"]
        /\ send_queue_tail' = TailAfterPop(SendHead, c, send_queue_tail)
        /\ UNCHANGED encrypt_queue_tail
    BY <1>0, <1>2, <2>a, Places DEF PopPacket, NeedEncrypt, Goto
  <2>2. /\ Acyclic(ptr') /\ c \in SendQ /\ SendQ = {c} \cup SendQ' /\ c \notin SendQ'
        /\ QueueEnds(ptr', SendHead, TailAfterPop(SendHead, c, send_queue_tail))
        /\ EncQ' = EncQ /\ QueueEnds(ptr', EncryptHead, encrypt_queue_tail)
        /\ TakenQ' = TakenQ /\ CurrentQ' = CurrentQ /\ TakenPart'
        /\ Fresh' = Fresh /\ Private' = Private /\ MessagePart'
    BY <1>0, <2>1, <2>a, PopLists DEF SendQ, EncQ
  <2>3. /\ InHand("write")' = InHand("write") \cup {c} /\ InHand("encrypt")' = InHand("encrypt")
        /\ \A p \in Packets : p # c => Holders(p)' = Holders(p)
        /\ Cardinality(Holders(c)') = Cardinality(Holders(c)) + 1
    BY <1>0, <2>1, HandTaken
  <2>4. Used' = Used
    BY <1>1, <2>2, <2>3 DEF Used
  <2>5. ListPart'
    BY <2>1, <2>2 DEF ListPart
  <2>6. HandPart'
    BY <1>0, <2>1 DEF HandPart, TypeOK
  <2>7. PlacePart' /\ TickPart' /\ CryptPart'
    BY <1>0, <1>1, <2>2, <2>3, <2>4 DEF PlacePart, TickPart, CryptPart
  <2>8. RefPart'
    <3>1. ASSUME NEW p \in Packets
          PROVE  refs'[p] >= Queued(p)' + Cardinality(Holders(p))' + Listed(p)'
      <4>1. refs'[p] = refs[p] /\ Listed(p)' = Listed(p)
        BY <1>0 DEF Listed
      <4>2. CASE p # c
        <5>1. Queued(p)' = Queued(p) /\ Holders(p)' = Holders(p)
          BY <2>2, <2>3, <4>2 DEF Queued
        <5> QED BY <4>1, <5>1, Numbers
      <4>3. CASE p = c
        <5>1. Queued(p) = 1
          BY <2>2, <4>3 DEF Queued
        <5>2. Queued(p)' = 0
          <6>1. c \notin Private /\ c \notin EncQ /\ c \notin TakenQ
            BY <2>2 DEF PlacePart, Used
          <6> QED BY <2>2, <4>3, <6>1 DEF Queued
        <5>3. Cardinality(Holders(p)') = Cardinality(Holders(p)) + 1
          BY <2>3, <4>3
        <5> HIDE DEF Inv
        <5> QED BY <4>1, <5>1, <5>2, <5>3, Numbers DEF Inv
      <4> QED BY <4>2, <4>3
    <3> QED BY <3>1 DEF RefPart
  <2> QED BY <1>1, <2>2, <2>5, <2>6, <2>7, <2>8
<1>3. CASE ptr[SendHead] = Null
  <2>a. PICK c \in Packets : c = ptr[EncryptHead]
    BY <1>3, Sets
  <2>1. /\ c \in Packets /\ ptr' = Popped(EncryptHead, c)
        /\ packet' = [packet EXCEPT ![w] = c] /\ pc' = [pc EXCEPT ![w] = "encrypt"]
        /\ encrypt_queue_tail' = TailAfterPop(EncryptHead, c, encrypt_queue_tail)
        /\ UNCHANGED send_queue_tail
    BY <1>0, <1>3, <2>a, Places DEF PopPacket, NeedEncrypt, Goto
  <2>2. /\ Acyclic(ptr') /\ c \in EncQ /\ EncQ = {c} \cup EncQ' /\ c \notin EncQ'
        /\ QueueEnds(ptr', EncryptHead, TailAfterPop(EncryptHead, c, encrypt_queue_tail))
        /\ SendQ' = SendQ /\ QueueEnds(ptr', SendHead, send_queue_tail)
        /\ TakenQ' = TakenQ /\ CurrentQ' = CurrentQ /\ TakenPart'
        /\ Fresh' = Fresh /\ Private' = Private /\ MessagePart'
    BY <1>0, <2>1, <2>a, PopLists DEF SendQ, EncQ
  <2>3. /\ InHand("encrypt")' = InHand("encrypt") \cup {c} /\ InHand("write")' = InHand("write")
        /\ \A p \in Packets : p # c => Holders(p)' = Holders(p)
        /\ Cardinality(Holders(c)') = Cardinality(Holders(c)) + 1
    BY <1>0, <2>1, HandTaken
  <2>4. Used' = Used
    BY <1>1, <2>2, <2>3 DEF Used
  <2>5. ListPart'
    BY <2>1, <2>2 DEF ListPart
  <2>6. HandPart'
    <3>1. \A v \in Writers : pc[v] = "encrypt" => packet[v] # c
      BY <2>2 DEF PlacePart, InHand
    <3> QED BY <1>0, <2>1, <3>1 DEF HandPart, TypeOK
  <2>7. PlacePart' /\ TickPart' /\ CryptPart'
    <3>1. c \notin TakenQ /\ c \notin Used /\ c \notin Fresh \cup Private /\ crypt[c] = 0
      BY <2>2 DEF PlacePart, CryptPart
    <3> QED BY <1>0, <1>1, <2>2, <2>3, <2>4, <3>1 DEF PlacePart, TickPart, CryptPart
  <2>8. RefPart'
    <3>1. ASSUME NEW p \in Packets
          PROVE  refs'[p] >= Queued(p)' + Cardinality(Holders(p))' + Listed(p)'
      <4>1. refs'[p] = refs[p] /\ Listed(p)' = Listed(p)
        BY <1>0 DEF Listed
      <4>2. CASE p # c
        <5>1. Queued(p)' = Queued(p) /\ Holders(p)' = Holders(p)
          BY <2>2, <2>3, <4>2 DEF Queued
        <5> QED BY <4>1, <5>1, Numbers
      <4>3. CASE p = c
        <5>1. Queued(p) = 1
          BY <2>2, <4>3 DEF Queued
        <5>2. Queued(p)' = 0
          <6>1. c \notin Private /\ c \notin SendQ /\ c \notin TakenQ
            BY <2>2 DEF PlacePart, Used
          <6> QED BY <2>2, <4>3, <6>1 DEF Queued
        <5>3. Cardinality(Holders(p)') = Cardinality(Holders(p)) + 1
          BY <2>3, <4>3
        <5> HIDE DEF Inv
        <5> QED BY <4>1, <5>1, <5>2, <5>3, Numbers DEF Inv
      <4> QED BY <4>2, <4>3
    <3> QED BY <3>1 DEF RefPart
  <2> QED BY <1>1, <2>2, <2>5, <2>6, <2>7, <2>8
<1> QED BY <1>2, <1>3

\* Steps of a writer that leave the queues alone.
LEMMA ListsStill ==
  ASSUME Inv, UNCHANGED <<ptr, send_queue_tail, encrypt_queue_tail, taken, progress>>
  PROVE  /\ ListPart' /\ MessagePart' /\ TakenPart'
         /\ SendQ' = SendQ /\ EncQ' = EncQ /\ TakenQ' = TakenQ /\ CurrentQ' = CurrentQ
         /\ Fresh' = Fresh /\ Private' = Private
         /\ \A p : Queued(p)' = Queued(p)
<1> USE DEF Inv
<1>1. /\ SendQ' = SendQ /\ EncQ' = EncQ /\ TakenQ' = TakenQ /\ CurrentQ' = CurrentQ
      /\ Fresh' = Fresh /\ Private' = Private /\ (Taking' <=> Taking)
  BY DEF SendQ, EncQ, TakenQ, CurrentQ, QueueOf, Fresh, Private, Taking
<1>2. ListPart' /\ MessagePart' /\ TakenPart'
  BY <1>1 DEF ListPart, MessagePart, MessageOK, TakenPart
<1>3. \A p : Queued(p)' = Queued(p)
  BY <1>1 DEF Queued
<1> QED BY <1>1, <1>2, <1>3

\* encrypt_outgoing_packet
LEMMA EncryptPacketStep ==
  ASSUME Inv, TypeOK', NEW w \in Writers, EncryptPacket(w)
  PROVE  Inv'
<1> USE DEF Inv
<1>1. PICK c \in Packets : c = packet[w] /\ c \in InHand("encrypt")
  BY DEF EncryptPacket, HandPart, InHand
<1>2. /\ pc[w] = "encrypt" /\ pc' = [pc EXCEPT ![w] = "write"]
      /\ crypt' = [crypt EXCEPT ![c] = crypt[c] + 1]
      /\ UNCHANGED <<ptr, send_queue_tail, encrypt_queue_tail, taken, progress, refs,
                     entries, buffer, packet, wire, dropped>>
  BY <1>1 DEF EncryptPacket, Goto, queueVars, senderVars, tickVars, history
<1>3. /\ pc'[w] = "write" /\ \A v \in Writers : v # w => pc'[v] = pc[v]
  BY <1>2 DEF TypeOK
<1>4. Written' = Written /\ WirePart'
  BY <1>2 DEF Written, WirePart
<1>5. /\ InHand("encrypt")' = InHand("encrypt") \ {c}
      /\ InHand("write")' = InHand("write") \cup {c}
  BY <1>1, <1>2, <1>3 DEF InHand, HandPart
<1>6. HandPart'
  BY <1>2, <1>3 DEF HandPart
<1>7. Used' = Used \cup {c}
  BY <1>2, <1>4, <1>5, ListsStill DEF Used
<1>8. c \notin Used /\ c \notin TakenQ /\ c \notin EncQ /\ c \notin Fresh \cup Private /\ crypt[c] = 0
  BY <1>1 DEF PlacePart, CryptPart
<1>9. PlacePart' /\ TickPart'
  BY <1>2, <1>4, <1>5, <1>7, <1>8, ListsStill DEF PlacePart, TickPart
<1>10. CryptPart'
  <2>1. crypt'[c] = 1 /\ \A p \in Packets : p # c => crypt'[p] = crypt[p]
    BY <1>2, <1>8 DEF TypeOK
  <2>2. /\ Fresh \subseteq Packets /\ Private \subseteq Packets /\ EncQ \subseteq Packets
        /\ Used \subseteq Packets /\ InHand("encrypt") \subseteq Packets
        /\ TakenQ \subseteq Packets /\ CurrentQ \subseteq TakenQ
    BY Sets, TakenFacts DEF HandPart, InHand, Used
  <2>3. \A p \in (Fresh \cup Private \cup EncQ \cup InHand("encrypt") \cup CurrentQ)' : crypt'[p] = 0
    BY <1>2, <1>5, <1>8, <2>1, <2>2, ListsStill DEF CryptPart
  <2>4. \A p \in Used' \cup (TakenQ' \ CurrentQ') : crypt'[p] = 1
    BY <1>2, <1>7, <1>8, <2>1, <2>2, ListsStill DEF CryptPart
  <2> QED BY <2>3, <2>4 DEF CryptPart
<1>11. RefPart'
  <2>1. ASSUME NEW p \in Packets
        PROVE  Queued(p)' = Queued(p) /\ Listed(p)' = Listed(p) /\ Holders(p)' = Holders(p)
    <3>1. Holders(p)' = Holders(p)
      BY <1>2, <1>3 DEF Holders
    <3> QED BY <1>2, <3>1, ListsStill DEF Listed
  <2> QED BY <1>2, <2>1 DEF RefPart
<1> QED BY <1>2, <1>4, <1>6, <1>9, <1>10, <1>11, ListsStill

\* write_datagram succeeds, or fails for good.
LEMMA SentStep ==
  ASSUME Inv, TypeOK', NEW w \in Writers, WritePacket(w) \/ DropPacket(w)
  PROVE  Inv'
<1> USE DEF Inv
<1>1. PICK c : c = packet[w]
  OBVIOUS
<1>2. /\ pc[w] = "write" /\ pc'[w] \notin {"encrypt", "write"}
      /\ \A v \in Writers : v # w => pc'[v] = pc[v] /\ packet'[v] = packet[v]
  BY DEF WritePacket, DropPacket, NextPacket, Goto, TypeOK
<1>3. /\ refs' = [refs EXCEPT ![c] = refs[c] - 1]
      /\ UNCHANGED <<ptr, send_queue_tail, encrypt_queue_tail, taken, progress, crypt,
                     entries, buffer>>
  BY <1>1 DEF WritePacket, DropPacket, queueVars, senderVars, tickVars
<1>4. /\ c \in InHand("write") /\ c \in Packets
      /\ InHand("encrypt")' = InHand("encrypt")
      /\ InHand("write")' \subseteq InHand("write")
      /\ InHand("write") \subseteq InHand("write")' \cup {c}
      /\ \A p \in Packets : p # c => Holders(p)' = Holders(p)
      /\ Cardinality(Holders(c)) >= 1
      /\ Cardinality(Holders(c)') = Cardinality(Holders(c)) - 1
      /\ HandPart'
  BY <1>1, <1>2, HandLeft
<1>5. Written' = Written \cup {c} /\ WirePart'
  <2>1. crypt[c] = 1
    BY <1>4 DEF CryptPart, Used
  <2>2. CASE WritePacket(w)
    <3>1. wire' = wire \cup {<<c, 1>>} /\ dropped' = dropped
      BY <1>1, <2>1, <2>2 DEF WritePacket
    <3>2. <<c, 1>>[1] = c /\ <<c, 1>>[2] = 1
      OBVIOUS
    <3>3. WirePart'
      BY <3>1, <3>2 DEF WirePart
    <3>4. {d[1] : d \in wire'} = {d[1] : d \in wire} \cup {c}
      BY <3>1, <3>2
    <3> QED BY <3>1, <3>3, <3>4 DEF Written
  <2>3. CASE DropPacket(w)
    <3>1. wire' = wire /\ dropped' = dropped \cup {c}
      BY <1>1, <2>3 DEF DropPacket
    <3> QED BY <3>1 DEF Written, WirePart
  <2> QED BY <2>2, <2>3
<1>6. Used' = Used
  BY <1>3, <1>4, <1>5, ListsStill DEF Used
<1>7. PlacePart' /\ TickPart' /\ CryptPart'
  BY <1>3, <1>4, <1>5, <1>6, ListsStill DEF PlacePart, TickPart, CryptPart
<1>8. RefPart'
  <2>1. ASSUME NEW p \in Packets
        PROVE  refs'[p] >= Queued(p)' + Cardinality(Holders(p))' + Listed(p)'
    <3>1. Queued(p)' = Queued(p) /\ Listed(p)' = Listed(p)
      BY <1>3, ListsStill DEF Listed
    <3>2. CASE p # c
      <4>1. refs'[p] = refs[p] /\ Holders(p)' = Holders(p)
        BY <1>3, <1>4, <3>2 DEF TypeOK
      <4> QED BY <3>1, <4>1, Numbers
    <3>3. CASE p = c
      <4>1. refs'[p] = refs[p] - 1
        BY <1>3, <3>3 DEF TypeOK
      <4>2. Cardinality(Holders(p)') = Cardinality(Holders(p)) - 1
        BY <1>4, <3>3
      <4> HIDE DEF Inv
      <4> QED BY <3>1, <4>1, <4>2, Numbers DEF Inv
    <3> QED BY <3>2, <3>3
  <2> QED BY <2>1 DEF RefPart
<1> QED BY <1>3, <1>4, <1>5, <1>7, <1>8, ListsStill

\* The socket's buffer is full: the packet goes back to the front.
LEMMA ReenqueueStep ==
  ASSUME Inv, TypeOK', NEW w \in Writers, ReenqueueFailed(w)
  PROVE  Inv'
<1> USE DEF Inv
<1>1. PICK c : c = packet[w]
  OBVIOUS
<1>2. /\ pc[w] = "write" /\ pc'[w] \notin {"encrypt", "write"}
      /\ \A v \in Writers : v # w => pc'[v] = pc[v] /\ packet'[v] = packet[v]
  BY DEF ReenqueueFailed, Goto, TypeOK
<1>3. UNCHANGED <<refs, taken, progress, crypt, entries, buffer, wire, dropped>>
  BY DEF ReenqueueFailed, senderVars, tickVars, history
<1>4. /\ c \in InHand("write") /\ c \in Packets
      /\ InHand("encrypt")' = InHand("encrypt")
      /\ InHand("write")' \subseteq InHand("write")
      /\ InHand("write") \subseteq InHand("write")' \cup {c}
      /\ \A p \in Packets : p # c => Holders(p)' = Holders(p)
      /\ Cardinality(Holders(c)) >= 1
      /\ Cardinality(Holders(c)') = Cardinality(Holders(c)) - 1
      /\ HandPart'
  BY <1>1, <1>2, HandLeft
<1>5. Written' = Written /\ WirePart'
  BY <1>3 DEF Written, WirePart
<1>6. c \in Used
  BY <1>4 DEF Used
<1>7. CASE StillQueued(c)
  <2>1. UNCHANGED <<ptr, send_queue_tail, encrypt_queue_tail>>
    BY <1>1, <1>7 DEF ReenqueueFailed, queueVars
  <2>2. Used' \subseteq Used
    BY <1>3, <1>4, <1>5, <2>1, ListsStill DEF Used
  <2>3. PlacePart' /\ TickPart' /\ CryptPart'
    BY <1>3, <1>4, <1>5, <2>1, <2>2, ListsStill DEF PlacePart, TickPart, CryptPart
  <2>4. RefPart'
    <3>1. ASSUME NEW p \in Packets
          PROVE  refs'[p] >= Queued(p)' + Cardinality(Holders(p))' + Listed(p)'
      <4>1. Queued(p)' = Queued(p) /\ Listed(p)' = Listed(p) /\ refs'[p] = refs[p]
        BY <1>3, <2>1, ListsStill DEF Listed
      <4>2. CASE p # c
        BY <1>4, <4>1, <4>2, Numbers
      <4>3. CASE p = c
        <5>1. Cardinality(Holders(p)') = Cardinality(Holders(p)) - 1
          BY <1>4, <4>3
        <5> HIDE DEF Inv
        <5> QED BY <4>1, <5>1, Numbers DEF Inv
      <4> QED BY <4>2, <4>3
    <3> QED BY <3>1 DEF RefPart
  <2> QED BY <1>3, <1>4, <1>5, <2>1, <2>3, <2>4, ListsStill
<1>8. CASE ~StillQueued(c)
  <2>1. /\ ptr' = [ptr EXCEPT ![c] = ptr[SendHead], ![SendHead] = c]
        /\ send_queue_tail' = IF ptr[SendHead] = Null THEN c ELSE send_queue_tail
        /\ UNCHANGED encrypt_queue_tail
    BY <1>1, <1>8 DEF ReenqueueFailed
  <2>2. /\ c \notin SendQ /\ c \notin EncQ /\ c \notin TakenQ /\ c \notin Fresh \cup Private
        /\ ptr[c] = Null
    BY <1>4, <1>6, <1>8, NotQueued
  <2>3. /\ SendHead \in Heads /\ EncryptHead \in Heads /\ SendHead # EncryptHead
        /\ SendHead \notin Packets /\ EncryptHead \notin Packets
        /\ SendQ \subseteq Packets /\ EncQ \subseteq Packets /\ TakenQ \subseteq Packets
    BY Sets, Places DEF Heads
  <2>4. \A l \in Packets \cup Heads :
          ptr'[l] = IF l = SendHead THEN c ELSE IF l = c THEN ptr[SendHead] ELSE ptr[l]
    BY <1>4, <2>1, <2>3 DEF TypeOK
  <2>5. Acyclic(ptr') /\ SendQ' = {c} \cup SendQ /\ QueueEnds(ptr', SendHead, send_queue_tail')
    <3> DEFINE r == ptr'
               t == send_queue_tail
    <3>1. /\ r[c] = ptr[SendHead] /\ r[SendHead] = c
          /\ \A l \in Packets \cup Heads : l \notin {c, SendHead} => r[l] = ptr[l]
          /\ r \in Contents /\ ptr \in Contents /\ t \in Packets \cup Heads
      BY <1>4, <2>3, <2>4 DEF Contents, TypeOK
    <3>2. QueueEnds(ptr, SendHead, t) /\ Acyclic(ptr) /\ c \notin ListFrom(ptr, ptr[SendHead])
      BY <2>2 DEF ListPart, SendQ, QueueOf
    <3> HIDE DEF r, t, Inv
    <3>3. /\ Acyclic(r) /\ QueueEnds(r, SendHead, IF ptr[SendHead] = Null THEN c ELSE t)
          /\ ListFrom(r, r[SendHead]) = {c} \cup ListFrom(ptr, ptr[SendHead])
      BY <1>4, <2>2, <2>3, <3>1, <3>2, PrependedList
    <3> QED BY <2>1, <3>3 DEF r, t, SendQ, QueueOf
  <2>6. EncQ' = EncQ /\ QueueEnds(ptr', EncryptHead, encrypt_queue_tail)
    <3>1. ptr'[EncryptHead] = ptr[EncryptHead]
      BY <1>4, <2>3, <2>4
    <3>2. \A p \in QueueOf(EncryptHead) : ptr'[p] = ptr[p]
      BY <2>2, <2>3, <2>4 DEF EncQ
    <3> QED BY <2>3, <3>1, <3>2, QueueFrame DEF EncQ, ListPart
  <2>7. TakenQ' = TakenQ /\ CurrentQ' = CurrentQ /\ TakenPart'
    <3>1. Taking' <=> Taking
      BY <1>3 DEF Taking
    <3>2. \A p \in TakenQ : ptr'[p] = ptr[p]
      BY <2>2, <2>3, <2>4
    <3> QED BY <1>3, <3>1, <3>2, TakenFrame
  <2>8. ListPart'
    BY <2>1, <2>5, <2>6 DEF ListPart
  <2>9. MessagePart'
    <3>1. ASSUME NEW n \in Messages PROVE MessageOK(n)'
      <4>1. ASSUME progress[n] \in 0..(Len(n) + 1), NEW p \in ElementsOf(n)
            PROVE  ptr'[p] = ptr[p]
        <5>1. p \in Packets /\ Len(n) \in Nat
          BY MessageFacts
        <5>2. p \in Fresh \cup Private
          BY <4>1, <5>1 DEF Fresh, Private
        <5>3. p # c /\ p # SendHead
          BY <2>2, <2>3, <5>1, <5>2
        <5> QED BY <2>4, <5>1, <5>3
      <4> QED BY <1>3, <4>1, MessageFrame DEF MessagePart
    <3> QED BY <3>1 DEF MessagePart
  <2>10. Fresh' = Fresh /\ Private' = Private
    BY <1>3 DEF Fresh, Private
  <2>11. Used' = Used
    BY <1>4, <1>5, <2>5 DEF Used
  <2>12. PlacePart' /\ TickPart' /\ CryptPart'
    BY <1>3, <1>4, <1>5, <2>6, <2>7, <2>10, <2>11 DEF PlacePart, TickPart, CryptPart
  <2>13. RefPart'
    <3>1. ASSUME NEW p \in Packets
          PROVE  refs'[p] >= Queued(p)' + Cardinality(Holders(p))' + Listed(p)'
      <4>1. Listed(p)' = Listed(p) /\ refs'[p] = refs[p]
        BY <1>3 DEF Listed
      <4>2. CASE p # c
        <5>1. Queued(p)' = Queued(p) /\ Holders(p)' = Holders(p)
          BY <1>4, <2>5, <2>6, <2>7, <2>10, <4>2 DEF Queued
        <5> QED BY <4>1, <5>1, Numbers
      <4>3. CASE p = c
        <5>1. Cardinality(Holders(p)') = Cardinality(Holders(p)) - 1
          BY <1>4, <4>3
        <5>2. Queued(p)' \in {0, 1} /\ Queued(p) = 0
          BY <2>2, <4>3 DEF Queued
        <5> HIDE DEF Inv
        <5> QED BY <4>1, <5>1, <5>2, Numbers DEF Inv
      <4> QED BY <4>2, <4>3
    <3> QED BY <3>1 DEF RefPart
  <2> QED BY <1>4, <1>5, <2>7, <2>8, <2>9, <2>12, <2>13
<1> QED BY <1>7, <1>8
-----------------------------------------------------------------------------
(***************************************************************************)
(* The inductive invariant: the types, and until the queues are disturbed  *)
(* the lists with their ends, where a packet can be, how often it was      *)
(* encrypted and the references it needs.                                  *)
(***************************************************************************)
IInv == TypeOK /\ Hands /\ (Ordered => Inv)

\* It holds in every state.
LEMMA EncoderInvariantHolds ==
  Spec => []IInv
<1>1. Init => IInv
  <2>1. Init => Hands
    BY DEF Init, Hands
  <2> QED BY <2>1, InitStep DEF IInv, Inv
<1>2. IInv /\ [Next]_vars => IInv'
  <2>1. SUFFICES ASSUME IInv, [Next]_vars PROVE IInv'
    OBVIOUS
  <2>2. CASE UNCHANGED vars
    <3>1. TypeOK' /\ Hands' /\ (Ordered' <=> Ordered)
      BY <2>1, <2>2 DEF IInv, TypeOK, Hands, Ordered, vars, queueVars, senderVars, tickVars,
                        socketVars, writerVars, history
    <3> QED BY <2>1, <2>2, <3>1, QuietActions DEF IInv
  <2>3. CASE Next
    <3>0. TypeOK' /\ Hands'
      BY <2>1, <2>3, TypeStep, HandsStep DEF IInv
    <3>a. SUFFICES ASSUME Ordered' PROVE Inv'
      BY <3>0 DEF IInv
    <3>b. Inv
      BY <2>1, <2>3, <3>a, DisorderStays DEF IInv, Ordered
    <3>1. ASSUME NEW m \in Messages, Sender(m) PROVE Inv'
      BY <3>b, <3>0, <3>a, <3>1, BuildStep, RegisterStep, EnqueueStep, QuietActions,
         TakePendingStep, EncryptTakenStep, AppendTakenStep DEF Sender
    <3>2. ASSUME NEW p \in Packets, TakeDue(p) \/ Acknowledge(p) PROVE Inv'
      BY <3>b, <3>0, <3>2, TakeDueStep, AcknowledgeStep
    <3>3. CASE QueueResend \/ RequestResendWrite
      BY <3>b, <3>0, <3>a, <3>3, QueueResendStep, QuietActions
    <3>4. ASSUME NEW w \in Writers, Writer(w) \/ TimeOut(w) PROVE Inv'
      <4>1. CASE PopPacket(w)
        BY <3>b, <3>0, <4>1, PopPacketStep, QuietActions
      <4>2. CASE Fire(w) \/ PopClient(w) \/ TimeOut(w) \/ Requeue(w) \/ Finish(w)
        BY <3>b, <3>0, <4>2, QuietActions
      <4>3. CASE EncryptPacket(w)
        BY <3>b, <3>0, <4>3, EncryptPacketStep
      <4>4. CASE WritePacket(w) \/ DropPacket(w)
        BY <3>b, <3>0, <4>4, SentStep
      <4>5. CASE ReenqueueFailed(w)
        BY <3>b, <3>0, <4>5, ReenqueueStep
      <4> QED BY <3>4, <4>1, <4>2, <4>3, <4>4, <4>5 DEF Writer
    <3> QED BY <2>3, <3>1, <3>2, <3>3, <3>4 DEF Next
  <2> QED BY <2>1, <2>2, <2>3
<1> QED BY <1>1, <1>2, PTL DEF Spec

\* The variables keep their types, and the reads of the lists their range, also
\* after the queues were disturbed.
THEOREM EncoderTypeCorrect == Spec => []TypeOK
<1>1. IInv => TypeOK
  BY DEF IInv
<1> QED BY <1>1, EncoderInvariantHolds, PTL

\* The tail pointers of both queues point to the location at which their lists
\* end, and no packet is in both, whatever senders, the tick thread and the
\* writers do at the same time, until an empty encrypt queue is taken by
\* encrypt_pending_packets or an unwritten packet is resent.
THEOREM QueuesStayWellFormed == Spec => []QueuesWellFormed
<1>1. IInv => QueuesWellFormed
  <2>1. SUFFICES ASSUME Inv
                 PROVE  /\ send_queue_tail \in QueueOf(SendHead) \cup {SendHead}
                        /\ ptr[send_queue_tail] = Null
                        /\ encrypt_queue_tail \in QueueOf(EncryptHead) \cup {EncryptHead}
                        /\ ptr[encrypt_queue_tail] = Null
                        /\ QueueOf(SendHead) \cap QueueOf(EncryptHead) = {}
    BY DEF IInv, QueuesWellFormed
  <2>2. /\ send_queue_tail \in QueueOf(SendHead) \cup {SendHead}
        /\ ptr[send_queue_tail] = Null
    BY <2>1, TailPlace DEF Inv, ListPart, Heads
  <2>3. /\ encrypt_queue_tail \in QueueOf(EncryptHead) \cup {EncryptHead}
        /\ ptr[encrypt_queue_tail] = Null
    BY <2>1, TailPlace DEF Inv, ListPart, Heads
  <2>4. QueueOf(SendHead) \cap QueueOf(EncryptHead) = {}
    BY <2>1 DEF Inv, PlacePart, Used, SendQ, EncQ
  <2> QED BY <2>2, <2>3, <2>4
<1> QED BY <1>1, EncoderInvariantHolds, PTL

\* Only these two steps can make an assertion of pop_write_buffer fail.
THEOREM PopAssertionsHold == Spec => [](Ordered => PopAssertions)
<1>1. IInv /\ Ordered => PopAssertions
  <2>1. SUFFICES ASSUME Inv PROVE PopAssertions
    BY DEF IInv
  <2>2. ASSUME NEW h \in Heads, NEW t, QueueEnds(ptr, h, t), ptr[h] # Null
        PROVE  ptr[ptr[h]] = Null <=> t = ptr[h]
    <3>1. Ends(ptr, ptr[h], t) /\ ptr \in Contents /\ ptr[h] \in Packets \cup {Null}
      BY <2>1, <2>2, Sets DEF Inv, QueueEnds, Heads
    <3>2. ptr[h] \in ListFrom(ptr, ptr[h])
      BY <2>2, <3>1, ListFacts
    <3> QED BY <3>1, <3>2 DEF Ends
  <2>3. /\ QueueEnds(ptr, SendHead, send_queue_tail)
        /\ QueueEnds(ptr, EncryptHead, encrypt_queue_tail)
        /\ SendHead \in Heads /\ EncryptHead \in Heads /\ SendHead # EncryptHead
    BY <2>1, Places DEF Inv, ListPart, Heads
  <2> QED BY <2>2, <2>3 DEF PopAssertions
<1>2. IInv => (Ordered => PopAssertions)
  BY <1>1
<1> QED BY <1>2, EncoderInvariantHolds, PTL

\* Every datagram on the wire was encrypted exactly once, resent and re-enqueued
\* ones and those of encrypt_pending_packets included, until the queues are
\* disturbed.
THEOREM PacketsEncryptedOnce == Spec => []EncryptedOnce
<1>1. IInv => EncryptedOnce
  BY DEF IInv, Inv, WirePart, EncryptedOnce
<1> QED BY <1>1, EncoderInvariantHolds, PTL

\* A packet that a queue, a writer, the acknowledge manager or the tick thread
\* refers to still has a reference: nobody has freed it.
THEOREM NoPacketUsedAfterFree == Spec => [](Ordered => NoUseAfterFree)
<1>1. IInv /\ Ordered => NoUseAfterFree
  <2>1. SUFFICES ASSUME Inv PROVE NoUseAfterFree
    BY DEF IInv
  <2>2. ASSUME NEW p \in InUse PROVE refs[p] > 0
    <3>1. p \in Packets
      <4>1. \A w \in Writers : pc[w] \in {"encrypt", "write"} => packet[w] \in Packets
        BY <2>1 DEF Inv, HandPart
      <4>2. SendQ \subseteq Packets /\ EncQ \subseteq Packets
        BY <2>1, Sets DEF Inv
      <4>3. entries \subseteq Packets /\ buffer \in Packets \cup {Null}
        BY <2>1 DEF Inv, TypeOK
      <4> QED BY <4>1, <4>2, <4>3 DEF InUse, SendQ, EncQ, InHand
    <3>2. \/ p \in Private \cup EncQ \cup TakenQ \cup SendQ
          \/ Holders(p) # {} \/ p \in entries \cup {buffer}
      BY DEF InUse, SendQ, EncQ, Holders, InHand
    <3>3. refs[p] \in Int /\ refs[p] >= 1
      BY <2>1, <3>1, <3>2, Referenced DEF Inv
    <3> QED BY <3>3
  <2>3. ASSUME NEW p \in Packets PROVE refs[p] >= 0
    BY <2>1, Numbers DEF Inv
  <2> QED BY <2>2, <2>3 DEF NoUseAfterFree
<1>2. IInv => (Ordered => NoUseAfterFree)
  BY <1>1
<1> QED BY <1>2, EncoderInvariantHolds, PTL
=============================================================================
