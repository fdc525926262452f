------------------------- MODULE PacketDecoderProofs -------------------------
(***************************************************************************)
(* Theorems about PacketDecoder for any stream of commands, any set of IO  *)
(* threads, any capacity of the ring and any sizes of the id spaces.       *)
(***************************************************************************)
EXTENDS PacketDecoder, WellFoundedInduction, TLAPS

\* A set of natural numbers has a least element.
Below == {p \in Nat \X Nat : p[1] < p[2]}

LEMMA LeastElement ==
  ASSUME NEW T \in SUBSET Nat, T # {}
  PROVE  \E x \in T : \A y \in T : x <= y
<1>1. IsWellFoundedOn(Below, Nat)
  BY NatLessThanWellFounded DEF OpToRel, Below
<1>2. \E x \in T : \A y \in T : <<y, x>> \notin Below
  BY <1>1, WFMin
<1>3. PICK x \in T : \A y \in T : <<y, x>> \notin Below
  BY <1>2
<1>4. ASSUME NEW y \in T PROVE x <= y
  <2>1. x \in Nat /\ y \in Nat
    OBVIOUS
  <2>2. ~(y < x)
    BY <1>3, <2>1 DEF Below
  <2> QED BY <2>1, <2>2
<1> QED BY <1>4
-----------------------------------------------------------------------------
\* The stream.  Commands follow each other without a gap: by induction on the
\* later command, as a least counterexample.
LEMMA CommandFields ==
  ASSUME NEW k \in 1..Len(Commands)
  PROVE  /\ Commands[k].first \in Nat /\ Commands[k].last \in Nat
         /\ Commands[k].flaw \in {"none", "decompress", "large"}
         /\ Commands[k].first <= Commands[k].last
         /\ k > 1 => Commands[k].first = Commands[k - 1].last + 1
<1>1. Commands[k] \in CommandRecords
  BY DecoderAssumption
<1> QED BY <1>1, DecoderAssumption DEF CommandRecords

LEMMA CommandsOrdered ==
  ASSUME NEW j \in 1..Len(Commands), NEW k \in 1..Len(Commands), j < k
  PROVE  Commands[j].last < Commands[k].first
<1> DEFINE Wrong == {n \in 1..Len(Commands) :
                       \E i \in 1..(n - 1) : ~(Commands[i].last < Commands[n].first)}
<1>0. Len(Commands) \in Nat
  BY DecoderAssumption
<1>1. ASSUME Wrong # {} PROVE FALSE
  <2>0. Wrong \in SUBSET Nat
    BY <1>0
  <2> HIDE DEF Wrong
  <2>1. PICK n \in Wrong : \A m \in Wrong : n <= m
    BY <1>1, <2>0, LeastElement
  <2> USE DEF Wrong
  <2>2. PICK i \in 1..(n - 1) : ~(Commands[i].last < Commands[n].first)
    OBVIOUS
  <2>3. n - 1 \in 1..Len(Commands) /\ n - 1 \notin Wrong /\ n \in 1..Len(Commands)
    BY <1>0, <2>1, <2>2
  <2>4. i # n - 1
    BY <2>2, <2>3, CommandFields
  <2>5. Commands[i].last < Commands[n - 1].first
    BY <2>2, <2>3, <2>4, <1>0
  <2>6. i \in 1..Len(Commands)
    BY <1>0, <2>2, <2>3
  <2>7. Commands[n].first = Commands[n - 1].last + 1 /\ n > 1
    BY <2>2, <2>3, CommandFields, <1>0
  <2>8. /\ Commands[n - 1].first \in Nat /\ Commands[n - 1].last \in Nat
        /\ Commands[i].last \in Nat
        /\ Commands[n - 1].first <= Commands[n - 1].last
    BY <2>3, <2>6, CommandFields
  <2> QED BY <2>2, <2>5, <2>7, <2>8
<1>2. j \in 1..(k - 1)
  BY <1>0
<1> QED BY <1>1, <1>2

LEMMA PacketFacts ==
  /\ FirstPacket \in Nat /\ LastPacket \in Nat /\ FirstPacket > 0
  /\ FirstPacket <= LastPacket
  /\ \A k \in 1..Len(Commands) : /\ FirstPacket <= Commands[k].first
                                 /\ Commands[k].last <= LastPacket
<1>0. Len(Commands) \in Nat /\ 1 \in 1..Len(Commands)
      /\ Len(Commands) \in 1..Len(Commands)
  BY DecoderAssumption
<1>1. ASSUME NEW k \in 1..Len(Commands)
      PROVE  FirstPacket <= Commands[k].first /\ Commands[k].last <= LastPacket
  <2>1. k = 1 \/ Commands[1].last < Commands[k].first
    BY <1>0, CommandsOrdered
  <2>2. k = Len(Commands) \/ Commands[k].last < Commands[Len(Commands)].first
    BY <1>0, CommandsOrdered
  <2> QED BY <1>0, <2>1, <2>2, CommandFields DEF FirstPacket, LastPacket
<1> QED BY <1>0, <1>1, CommandFields, DecoderAssumption DEF FirstPacket, LastPacket

LEMMA PacketType ==
  ASSUME NEW n \in Packets
  PROVE  /\ n \in Nat /\ FirstPacket <= n /\ n <= LastPacket /\ n > 0
         /\ n < IndexSpace /\ n # Unset
BY PacketFacts, DecoderAssumption DEF Packets
-----------------------------------------------------------------------------
\* The ring.  Positions 0..Capacity-1 relative to the front are the places of
\* the array, each once.
Positions == 0..(Capacity - 1)

LEMMA SlotPlace ==
  ASSUME NEW r \in Rings, NEW i \in 0..Capacity
  PROVE  SlotAt(r, i) \in Positions
BY RingAssumption DEF Rings, SlotAt, Positions

LEMMA SlotOnce ==
  ASSUME NEW r \in Rings, NEW i \in Positions, NEW j \in Positions,
         SlotAt(r, i) = SlotAt(r, j)
  PROVE  i = j
BY RingAssumption DEF Rings, SlotAt, Positions

LEMMA SlotEvery ==
  ASSUME NEW r \in Rings, NEW p \in Positions
  PROVE  \E i \in Positions : SlotAt(r, i) = p
<1> DEFINE b == r.ring_base_index
           i == IF p >= b THEN p - b ELSE p + Capacity - b
<1>1. b \in Positions
  BY DEF Rings, Positions
<1>2. i \in Positions /\ SlotAt(r, i) = p
  BY <1>1, RingAssumption DEF SlotAt, Positions
<1> QED BY <1>2

LEMMA SlotValue ==
  ASSUME NEW r \in Rings, NEW i \in 0..Capacity
  PROVE  slot_value(r, i) \in Packets \cup {Unset}
BY SlotPlace DEF slot_value, Rings, Positions

\* Where the search for the end of a fragmented command stops.
LEMMA SequenceEndFound ==
  ASSUME NEW r \in Rings
  PROVE  LET e == SequenceEnd(r) IN
         /\ e \in 1..Capacity
         /\ e = Capacity \/ ~slot_set(r, e) \/ Fragmented(slot_value(r, e))
         /\ \A i \in 1..(e - 1) : slot_set(r, i) /\ ~Fragmented(slot_value(r, i))
<1> DEFINE Stop(e) == e = Capacity \/ ~slot_set(r, e) \/ Fragmented(slot_value(r, e))
           Stops == {e \in 1..Capacity : Stop(e)}
<1>1. Capacity \in Stops /\ Stops \in SUBSET Nat
  BY RingAssumption
<1> HIDE DEF Stops
<1>2. PICK e \in Stops : \A f \in Stops : e <= f
  BY <1>1, LeastElement
<1>3. e \in 1..Capacity /\ Stop(e)
  BY DEF Stops
<1> HIDE DEF Stop
<1>4. \A i \in 1..(e - 1) : ~Stop(i)
  BY <1>2, <1>3, RingAssumption DEF Stops
<1>5. \A i \in 1..(e - 1) : slot_set(r, i) /\ ~Fragmented(slot_value(r, i))
  BY <1>4 DEF Stop
<1>6. e = Capacity \/ ~slot_set(r, e) \/ Fragmented(slot_value(r, e))
  BY <1>3 DEF Stop
<1> QED BY <1>3, <1>5, <1>6 DEF SequenceEnd

\* FrontLength counts packets that are all there: one that is not fragmented,
\* or two fragmented ones and those between them.
LEMMA FrontLengthFacts ==
  ASSUME NEW r \in Rings
  PROVE  LET len == FrontLength(r) IN
         /\ len \in -1..Capacity
         /\ len > 0 => front_set(r)
         /\ len > 0 => \A i \in 0..(len - 1) : slot_set(r, i)
         /\ len = 1 => ~Fragmented(slot_value(r, 0))
         /\ len > 1 => /\ Fragmented(slot_value(r, 0))
                       /\ Fragmented(slot_value(r, len - 1))
                       /\ \A i \in 1..(len - 2) : ~Fragmented(slot_value(r, i))
<1> DEFINE e == SequenceEnd(r)
<1>1. /\ e \in 1..Capacity
      /\ e = Capacity \/ ~slot_set(r, e) \/ Fragmented(slot_value(r, e))
      /\ \A i \in 1..(e - 1) : slot_set(r, i) /\ ~Fragmented(slot_value(r, i))
  BY SequenceEndFound
<1> HIDE DEF e
<1>2. CASE ~front_set(r)
  <2>1. FrontLength(r) = 0
    BY <1>2 DEF FrontLength
  <2> QED BY <2>1, RingAssumption
<1>3. CASE front_set(r) /\ ~Fragmented(slot_value(r, 0))
  <2>1. FrontLength(r) = 1
    BY <1>3 DEF FrontLength
  <2> QED BY <1>3, <2>1, RingAssumption DEF front_set
<1>4. CASE front_set(r) /\ Fragmented(slot_value(r, 0))
  <2>1. FrontLength(r) = IF e = Capacity THEN -1
                         ELSE IF ~slot_set(r, e) THEN 0 ELSE e + 1
    BY <1>4 DEF FrontLength, e
  <2>2. CASE FrontLength(r) \in {-1, 0}
    BY <2>2, RingAssumption
  <2>3. CASE /\ FrontLength(r) = e + 1 /\ e # Capacity
             /\ slot_set(r, e)
    <3>1. Fragmented(slot_value(r, e))
      BY <1>1, <2>3
    <3>2. \A i \in 0..e : i = 0 \/ i = e \/ i \in 1..(e - 1)
      BY <1>1
    <3>3. \A i \in 0..e : slot_set(r, i)
      BY <1>1, <1>4, <2>3, <3>2 DEF front_set
    <3>4. e + 1 - 1 = e /\ e + 1 - 2 = e - 1 /\ e + 1 > 1 /\ e + 1 \in 2..Capacity
      BY <1>1, <2>3, RingAssumption
    <3> QED BY <1>1, <1>4, <2>3, <3>1, <3>3, <3>4, RingAssumption
  <2> QED BY <2>1, <2>2, <2>3
<1> QED BY <1>2, <1>3, <1>4

\* What `count` pops leave: the later packets, moved to the front.
LEMMA PopFrontFacts ==
  ASSUME NEW r \in Rings, NEW c \in 1..Capacity
  PROVE  /\ PopFront(r, c) \in Rings
         /\ PopFront(r, c).ring_index = (r.ring_index + c) % IndexSpace
         /\ \A i \in Positions : slot_value(PopFront(r, c), i) =
              IF i + c < Capacity THEN slot_value(r, i + c) ELSE Unset
<1> DEFINE q == PopFront(r, c)
<1>1. SlotAt(r, c) \in Positions
  BY SlotPlace, RingAssumption
<1>2. (r.ring_index + c) % IndexSpace \in 0..(IndexSpace - 1)
  BY RingAssumption DEF Rings
<1>3. r.slots \in [Positions -> Packets \cup {Unset}]
  BY DEF Rings, Positions
<1>4. q \in Rings
  BY <1>1, <1>2, <1>3 DEF PopFront, Rings, Positions
<1>5. ASSUME NEW i \in Positions
      PROVE  slot_value(q, i) = IF i + c < Capacity THEN slot_value(r, i + c) ELSE Unset
  <2>1. SlotAt(q, i) \in Positions
    BY <1>4, SlotPlace, RingAssumption DEF Positions
  <2>2. slot_value(q, i) = IF \E j \in 0..(c - 1) : SlotAt(r, j) = SlotAt(q, i)
                           THEN Unset ELSE r.slots[SlotAt(q, i)]
    BY <2>1 DEF slot_value, PopFront, Positions
  <2>3. q.ring_base_index = SlotAt(r, c)
    BY DEF PopFront
  <2>4. r.ring_base_index \in Positions
    BY DEF Rings, Positions
  <2>5. CASE i + c < Capacity
    <3>1. SlotAt(q, i) = SlotAt(r, i + c) /\ i + c \in Positions
      BY <2>3, <2>4, <2>5, RingAssumption DEF SlotAt, Positions
    <3>2. \A j \in 0..(c - 1) : j \in Positions /\ j # i + c
      BY <2>5, RingAssumption DEF Positions
    <3>3. ~\E j \in 0..(c - 1) : SlotAt(r, j) = SlotAt(q, i)
      BY <3>1, <3>2, SlotOnce
    <3> QED BY <2>2, <2>5, <3>1, <3>3 DEF slot_value
  <2>6. CASE ~(i + c < Capacity)
    <3>1. /\ i + c - Capacity \in 0..(c - 1)
          /\ SlotAt(r, i + c - Capacity) = SlotAt(q, i)
      BY <2>3, <2>4, <2>6, RingAssumption DEF SlotAt, Positions
    <3> QED BY <2>2, <2>6, <3>1
  <2> QED BY <2>5, <2>6
<1> QED BY <1>4, <1>5 DEF PopFront

\* insert_index2 fills the slot at the relative index, which was empty.
LEMMA InsertFacts ==
  ASSUME NEW r \in Rings, NEW n \in Packets, InsertResult(r, n) = "success"
  PROVE  LET rel == RelativeIndex(r, n) IN
         /\ InBounds(r, n)
         /\ rel \in Positions
         /\ Insert(r, n, n) \in Rings
         /\ Insert(r, n, n).ring_index = r.ring_index
         /\ \A i \in Positions : slot_value(Insert(r, n, n), i) =
              IF i = rel THEN n ELSE slot_value(r, i)
<1> DEFINE rel == RelativeIndex(r, n)
           q == Insert(r, n, n)
<1>1. InBounds(r, n)
  BY DEF InsertResult
<1>2. r.ring_index \in 0..(IndexSpace - 1) /\ n \in Nat /\ n < IndexSpace
  BY PacketType DEF Rings
<1>3. rel \in Nat
  BY <1>2, RingAssumption DEF RelativeIndex
<1>4. rel \in Positions
  BY <1>1, <1>3, RingAssumption DEF InBounds, Positions
<1> HIDE DEF rel
<1>5. SlotAt(r, rel) \in Positions
  BY <1>4, SlotPlace, RingAssumption DEF Positions
<1>6. q = [r EXCEPT !.slots[SlotAt(r, rel)] = n]
  BY DEF Insert, rel
<1>7. r.slots \in [Positions -> Packets \cup {Unset}]
  BY DEF Rings, Positions
<1>8. /\ q \in Rings /\ q.ring_index = r.ring_index
      /\ q.ring_base_index = r.ring_base_index
      /\ \A p \in Positions : q.slots[p] = IF p = SlotAt(r, rel) THEN n ELSE r.slots[p]
  BY <1>5, <1>6, <1>7 DEF Rings, Positions
<1>9. ASSUME NEW i \in Positions
      PROVE  slot_value(q, i) = IF i = rel THEN n ELSE slot_value(r, i)
  <2>1. SlotAt(q, i) = SlotAt(r, i)
    BY <1>8 DEF SlotAt
  <2>2. SlotAt(r, i) \in Positions
    BY SlotPlace, RingAssumption DEF Positions
  <2>3. SlotAt(r, i) = SlotAt(r, rel) => i = rel
    BY <1>4, SlotOnce
  <2> QED BY <1>8, <2>1, <2>2, <2>3 DEF slot_value
<1> QED BY <1>1, <1>4, <1>8, <1>9 DEF rel
-----------------------------------------------------------------------------
\* Packet numbers and their parts.
LEMMA Parts ==
  ASSUME NEW n \in Nat, n < IndexSpace
  PROVE  /\ n % IdSpace \in 0..(IdSpace - 1)
         /\ n \div IdSpace \in 0..(GenerationSpace - 1)
         /\ n = ((n \div IdSpace) * IdSpace) + (n % IdSpace)
<1> DEFINE q == n \div IdSpace
           m == n % IdSpace
<1>1. q \in Nat /\ m \in 0..(IdSpace - 1) /\ n = (q * IdSpace) + m
  BY EstimatorAssumption
<1>2. n < IdSpace * GenerationSpace
  BY DecoderAssumption
<1> HIDE DEF q, m
<1>3. q < GenerationSpace
  <2>1. SUFFICES ASSUME q >= GenerationSpace PROVE FALSE
    BY <1>1, EstimatorAssumption
  <2>2. q * IdSpace >= GenerationSpace * IdSpace
    BY <2>1, <1>1, EstimatorAssumption
  <2> QED BY <1>1, <1>2, <2>2, EstimatorAssumption
<1>4. q \in 0..(GenerationSpace - 1)
  BY <1>1, <1>3, EstimatorAssumption
<1> QED BY <1>1, <1>4 DEF q, m

LEMMA VisitType ==
  ASSUME NEW e \in Estimators, NEW id \in 0..(IdSpace - 1)
  PROVE  /\ visit_packet(e, id).estimator \in Estimators
         /\ visit_packet(e, id).generation \in 0..(GenerationSpace - 1)
<1>1. \A step \in Int : Generation(e, step) \in 0..(GenerationSpace - 1)
  BY EstimatorAssumption DEF Estimators, Generation
<1>2. Newer(e, id) \in Estimators
  BY DEF Newer, Estimators
<1> QED BY <1>1, <1>2 DEF visit_packet, Visited, Estimators

LEMMA DecoderInit == Init => TypeOK
<1> SUFFICES ASSUME Init PROVE TypeOK
  OBVIOUS
<1>4. newest \in (FirstPacket - 1)..LastPacket
  BY PacketFacts DEF Init
<1> USE PacketFacts, DecoderAssumption, RingAssumption, EstimatorAssumption DEF Init
<1>1. FirstPacket - 1 \in Nat /\ FirstPacket - 1 < IndexSpace
  OBVIOUS
<1>2. estimator \in Estimators
  BY <1>1, Parts DEF Estimators
<1>3. ring \in Rings
  BY DEF EmptyRing, Rings
<1>5. command \in [IoThreads -> Seq(Packets)] /\ decoded \in Seq(Seq(Packets))
  OBVIOUS
<1>6. generation \in [IoThreads -> 0..(GenerationSpace - 1)]
  OBVIOUS
<1> QED BY <1>2, <1>3, <1>4, <1>5, <1>6 DEF TypeOK

\* The variables that Return and Reassemble change.
CallTyped ==
  /\ pc \in [IoThreads -> {"idle", "received", "deliver", "again"}]
  /\ packet \in [IoThreads -> Packets \cup {NoPacket}]
  /\ \A t \in IoThreads : pc[t] = "received" => packet[t] # NoPacket
  /\ generation \in [IoThreads -> 0..(GenerationSpace - 1)]
  /\ command \in [IoThreads -> Seq(Packets)]
  /\ more \in [IoThreads -> BOOLEAN]

LEMMA ReturnType ==
  ASSUME TypeOK, NEW t \in IoThreads, Return(t)
  PROVE  CallTyped'
<1> USE DEF TypeOK, Return, CallTyped
<1>1. 0 \in 0..(GenerationSpace - 1) /\ <<>> \in Seq(Packets)
  BY EstimatorAssumption
<1>2. generation' \in [IoThreads -> 0..(GenerationSpace - 1)]
  BY <1>1
<1>3. command' \in [IoThreads -> Seq(Packets)]
  BY <1>1
<1> QED BY <1>2, <1>3

LEMMA ReassembleType ==
  ASSUME TypeOK, NEW t \in IoThreads, NEW r \in Rings, Reassemble(t, r)
  PROVE  CallTyped' /\ ring' \in Rings
<1> DEFINE len == FrontLength(r)
           cmd == [i \in 1..len |-> slot_value(r, i - 1)]
<1>1. /\ len \in -1..Capacity
      /\ len > 0 => \A i \in 0..(len - 1) : slot_set(r, i)
  BY FrontLengthFacts
<1> HIDE DEF len
<1>2. CASE len <= 0 /\ ring' = r /\ Return(t)
  BY <1>2, ReturnType
<1>4. CASE len > 0 /\ ring' = PopFront(r, len)
  <2>1. ring' \in Rings
    BY <1>1, <1>4, PopFrontFacts, RingAssumption
  <2>2. CASE Return(t)
    BY <2>1, <2>2, ReturnType
  <2>3. CASE /\ command' = [command EXCEPT ![t] = cmd]
             /\ more' = [more EXCEPT ![t] = MoreCommandsPending(PopFront(r, len))]
             /\ pc' = [pc EXCEPT ![t] = "deliver"]
             /\ UNCHANGED <<packet, generation>>
    <3>1. \A i \in 1..len : cmd[i] \in Packets
      <4> SUFFICES ASSUME NEW i \in 1..len PROVE slot_value(r, i - 1) \in Packets
        OBVIOUS
      <4>1. i - 1 \in 0..(len - 1) /\ i - 1 \in 0..Capacity
        BY <1>1, RingAssumption
      <4> QED BY <1>1, <1>4, <4>1, SlotValue DEF slot_set
    <3>2. cmd \in Seq(Packets)
      BY <1>1, <1>4, <3>1
    <3>3. MoreCommandsPending(PopFront(r, len)) \in BOOLEAN
      BY DEF MoreCommandsPending, front_set, slot_set
    <3> HIDE DEF cmd
    <3> QED BY <2>1, <2>3, <3>2, <3>3 DEF TypeOK, CallTyped
  <2> QED BY <1>4, <2>2, <2>3 DEF Reassemble, len
<1> QED BY <1>2, <1>4 DEF Reassemble, len

\* What Store does, case by case.
LEMMA StoreCases ==
  ASSUME TypeOK, NEW t \in IoThreads, Store(t)
  PROVE  LET n == packet[t]
             r == InsertResult(ring, n)
         IN
         /\ pc[t] = "received" /\ n \in Packets
         /\ \/ /\ ~Decrypts(t) \/ r \in {"duplicate", "overflow"}
               /\ Return(t)
               /\ UNCHANGED <<ring, acknowledged>>
            \/ /\ Decrypts(t) /\ r = "underflow"
               /\ acknowledged' = acknowledged \cup {n}
               /\ Return(t)
               /\ UNCHANGED ring
            \/ /\ Decrypts(t) /\ r = "success"
               /\ acknowledged' = acknowledged \cup {n}
               /\ Reassemble(t, Insert(ring, n, n))
<1> DEFINE n == packet[t]
           r == InsertResult(ring, n)
<1>1. pc[t] = "received" /\ n \in Packets
  BY DEF TypeOK, Store
<1>2. Decrypts(t) => FullPacketId(t) = n
  BY DEF Decrypts
<1>3. CASE ~Decrypts(t)
  BY <1>1, <1>3 DEF Store
<1>4. CASE Decrypts(t)
  <2>1. /\ IF Acknowledges(r) THEN acknowledged' = acknowledged \cup {n}
                              ELSE UNCHANGED acknowledged
        /\ \/ r # "success" /\ Return(t) /\ UNCHANGED ring
           \/ r = "success" /\ Reassemble(t, Insert(ring, n, n))
    BY <1>2, <1>4 DEF Store, SendAcknowledge
  <2> HIDE DEF n, r
  <2>2. /\ Acknowledges(r) <=> r \in {"underflow", "success"}
        /\ r \in {"duplicate", "underflow", "overflow", "success"}
    BY DEF Acknowledges, InsertResult, r
  <2>3. CASE r = "duplicate" \/ r = "overflow"
    BY <1>1, <1>4, <2>1, <2>2, <2>3 DEF n, r
  <2>4. CASE r = "underflow"
    BY <1>1, <1>4, <2>1, <2>2, <2>4 DEF n, r
  <2>5. CASE r = "success"
    BY <1>1, <1>4, <2>1, <2>2, <2>5 DEF n, r
  <2> QED BY <2>2, <2>3, <2>4, <2>5
<1> QED BY <1>3, <1>4

LEMMA DecoderTypeStep == TypeOK /\ [Next]_vars => TypeOK'
<1> SUFFICES ASSUME TypeOK, [Next]_vars PROVE TypeOK'
  OBVIOUS
<1>1. ASSUME NEW t \in IoThreads, NEW n \in Packets, Receive(t, n)
      PROVE  TypeOK'
  <2>1. n \in Nat /\ n % IdSpace \in 0..(IdSpace - 1) /\ n # NoPacket
    BY PacketType, Parts, DecoderAssumption
  <2>2. /\ estimator' \in Estimators
        /\ visit_packet(estimator, n % IdSpace).generation \in 0..(GenerationSpace - 1)
    BY <1>1, <2>1, VisitType DEF Receive, TypeOK
  <2>3. generation' \in [IoThreads -> 0..(GenerationSpace - 1)]
    BY <1>1, <2>2 DEF Receive, TypeOK
  <2>4. newest' \in (FirstPacket - 1)..LastPacket
    BY <1>1, PacketFacts DEF Receive, TypeOK, Packets
  <2> QED BY <1>1, <2>1, <2>2, <2>3, <2>4 DEF Receive, TypeOK
<1>2. ASSUME NEW t \in IoThreads, Store(t)
      PROVE  TypeOK'
  <2>1. UNCHANGED <<estimator, newest, strayed, decoded>>
    BY <1>2 DEF Store
  <2>2. packet[t] \in Packets
    BY <1>2, StoreCases
  <2>3. CallTyped' /\ ring' \in Rings /\ acknowledged' \subseteq Packets
    <3>1. CASE Return(t) /\ UNCHANGED <<ring, acknowledged>>
      BY <3>1, ReturnType DEF TypeOK
    <3>2. CASE /\ acknowledged' = acknowledged \cup {packet[t]}
               /\ Return(t) /\ UNCHANGED ring
      BY <2>2, <3>2, ReturnType DEF TypeOK
    <3>3. CASE /\ InsertResult(ring, packet[t]) = "success"
               /\ acknowledged' = acknowledged \cup {packet[t]}
               /\ Reassemble(t, Insert(ring, packet[t], packet[t]))
      <4>1. Insert(ring, packet[t], packet[t]) \in Rings
        BY <2>2, <3>3, InsertFacts DEF TypeOK
      <4> QED BY <2>2, <3>3, <4>1, ReassembleType DEF TypeOK
    <3> QED BY <1>2, StoreCases, <3>1, <3>2, <3>3
  <2> QED BY <2>1, <2>3 DEF TypeOK, CallTyped
<1>3. ASSUME NEW t \in IoThreads, Deliver(t)
      PROVE  TypeOK'
  <2>1. decoded' \in Seq(Seq(Packets))
    BY <1>3 DEF Deliver, Decoded, TypeOK
  <2>2. CallTyped'
    <3>1. CASE Return(t)
      BY <3>1, ReturnType
    <3>2. CASE /\ pc' = [pc EXCEPT ![t] = "again"]
               /\ command' = [command EXCEPT ![t] = <<>>]
               /\ UNCHANGED <<packet, generation, more>>
      <4>1. command' \in [IoThreads -> Seq(Packets)]
        BY <3>2 DEF TypeOK
      <4> QED BY <3>2, <4>1 DEF TypeOK, CallTyped
    <3> QED BY <1>3, <3>1, <3>2 DEF Deliver
  <2> QED BY <1>3, <2>1, <2>2 DEF Deliver, TypeOK, CallTyped
<1>4. ASSUME NEW t \in IoThreads, ReassembleMore(t)
      PROVE  TypeOK'
  <2>1. CallTyped' /\ ring' \in Rings
    BY <1>4, ReassembleType DEF ReassembleMore, TypeOK
  <2> QED BY <1>4, <2>1 DEF ReassembleMore, TypeOK, CallTyped
<1>5. CASE UNCHANGED vars
  BY <1>5 DEF vars, threadVars, TypeOK
<1> QED BY <1>1, <1>2, <1>3, <1>4, <1>5 DEF Next, ThreadStep

(***************************************************************************)
(* The decoder's variables keep their types, in particular the ring's base *)
(* stays in the array whatever is inserted and popped.                     *)
(***************************************************************************)
THEOREM DecoderTypeCorrect == Spec => []TypeOK
BY DecoderInit, DecoderTypeStep, PTL DEF Spec
-----------------------------------------------------------------------------
\* Two numbers that are less than IdSpace apart are in the same generation or
\* in neighbouring ones.
LEMMA NeighbourGenerations ==
  ASSUME NEW g \in Nat, NEW h \in Nat,
         NEW l \in 0..(IdSpace - 1), NEW m \in 0..(IdSpace - 1),
         (h * IdSpace) + m < (g * IdSpace) + l + IdSpace
  PROVE  h <= g + 1
<1> USE EstimatorAssumption
<1>1. SUFFICES ASSUME h >= g + 2 PROVE FALSE
  OBVIOUS
<1>2. h * IdSpace >= (g + 2) * IdSpace
  BY <1>1
<1>3. (g + 2) * IdSpace = (g * IdSpace) + (2 * IdSpace)
  OBVIOUS
<1> QED BY <1>2, <1>3

EstimateOf(n) == [last_generation |-> n \div IdSpace, last_packet_id |-> n % IdSpace]

\* visit_packet guesses right, and remembers the newer of the two, if the
\* packet is at most OverflowWindow away from the newest one.
LEMMA VisitRight ==
  ASSUME NEW new \in Nat, NEW n \in Nat, new < IndexSpace, n < IndexSpace,
         n - new <= OverflowWindow, new - n <= OverflowWindow
  PROVE  LET v == visit_packet(EstimateOf(new), n % IdSpace) IN
         /\ v.generation = n \div IdSpace
         /\ v.estimator = EstimateOf(IF n > new THEN n ELSE new)
<1> DEFINE g == new \div IdSpace
           l == new % IdSpace
           h == n \div IdSpace
           m == n % IdSpace
           e == [last_generation |-> g, last_packet_id |-> l]
<1> USE EstimatorAssumption
<1>1. /\ g \in 0..(GenerationSpace - 1) /\ h \in 0..(GenerationSpace - 1)
      /\ l \in 0..(IdSpace - 1) /\ m \in 0..(IdSpace - 1)
      /\ new = (g * IdSpace) + l /\ n = (h * IdSpace) + m
  BY Parts
<1>2. EstimateOf(new) = e /\ EstimateOf(n) = [last_generation |-> h, last_packet_id |-> m]
  BY DEF EstimateOf
<1> HIDE DEF g, l, h, m
<1>3. h <= g + 1 /\ g <= h + 1
  BY <1>1, NeighbourGenerations
<1>4. CASE h = g
  <2>1. m - l <= OverflowWindow /\ l - m <= OverflowWindow /\ (n > new <=> m > l)
    BY <1>1, <1>4
  <2>2. Generation(e, 0) = g
    BY <1>1 DEF Generation
  <2>3. visit_packet(e, m) = Visited(Newer(e, m), Generation(e, 0))
    BY <1>1, <2>1 DEF visit_packet, overflow_area_begin, overflow_area_end
  <2>4. Newer(e, m) = [last_generation |-> g, last_packet_id |-> IF m > l THEN m ELSE l]
    BY DEF Newer
  <2> QED BY <1>2, <1>4, <2>1, <2>2, <2>3, <2>4 DEF Visited, h, m
<1>5. CASE h = g + 1
  <2>1. h * IdSpace = (g * IdSpace) + IdSpace
    BY <1>1, <1>5
  <2>2. IdSpace + m - l <= OverflowWindow /\ n > new
    BY <1>1, <2>1
  <2>3. Generation(e, 1) = h
    BY <1>1, <1>5 DEF Generation
  <2>4. visit_packet(e, m) = Visited([last_generation |-> h, last_packet_id |-> m], h)
    BY <1>1, <2>2, <2>3 DEF visit_packet, overflow_area_begin, overflow_area_end
  <2> QED BY <1>2, <2>2, <2>4 DEF Visited, h, m
<1>6. CASE h = g - 1
  <2>1. g * IdSpace = (h * IdSpace) + IdSpace
    BY <1>1, <1>6
  <2>2. IdSpace + l - m <= OverflowWindow /\ ~(n > new)
    BY <1>1, <2>1
  <2>3. Generation(e, -1) = h
    BY <1>1, <1>6 DEF Generation
  <2>4. visit_packet(e, m) = Visited(e, h)
    BY <1>1, <2>2, <2>3 DEF visit_packet, overflow_area_begin, overflow_area_end
  <2> QED BY <1>2, <2>2, <2>4 DEF Visited, h, m
<1> QED BY <1>1, <1>3, <1>4, <1>5, <1>6

LEMMA EstimateStep ==
  ASSUME TypeOK, NeverMisjudged, [Next]_vars, ~strayed'
  PROVE  NeverMisjudged'
<1> USE EstimatorAssumption, DecoderAssumption
<1>0. ~strayed
  BY DEF Next, Receive, ThreadStep, Store, Deliver, ReassembleMore, vars
<1>1. ASSUME NEW t \in IoThreads, NEW n \in Packets, Receive(t, n)
      PROVE  NeverMisjudged'
  <2>0. n \in (newest - OverflowWindow)..(newest + OverflowWindow)
    BY <1>1 DEF Receive
  <2>1. /\ newest \in Nat /\ newest < IndexSpace
        /\ n \in Nat /\ n < IndexSpace
        /\ n - newest <= OverflowWindow /\ newest - n <= OverflowWindow
    <3>1. newest \in (FirstPacket - 1)..LastPacket
      BY DEF TypeOK
    <3>2. newest \in Nat /\ newest < IndexSpace
      BY <3>1, PacketFacts
    <3> QED BY <2>0, <3>2, PacketType
  <2>2. estimator = EstimateOf(newest)
    BY <1>0 DEF NeverMisjudged, TracksNewest, EstimateOf
  <2>3. /\ estimator' = EstimateOf(newest')
        /\ generation'[t] = n \div IdSpace
    BY <1>1, <2>1, <2>2, VisitRight DEF Receive, TypeOK
  <2>4. n = ((n \div IdSpace) * IdSpace) + (n % IdSpace)
    BY <2>1, Parts
  <2>5. Decrypts(t)'
    BY <1>1, <2>3, <2>4 DEF Receive, TypeOK, Decrypts, FullPacketId
  <2>6. \A u \in IoThreads \ {t} : /\ pc'[u] = pc[u] /\ packet'[u] = packet[u]
                                   /\ generation'[u] = generation[u]
    BY <1>1 DEF Receive, TypeOK
  <2>7. \A u \in IoThreads \ {t} : (pc[u] = "received" => Decrypts(u))'
    BY <1>0, <2>6 DEF NeverMisjudged, Decrypts, FullPacketId
  <2> QED BY <2>3, <2>5, <2>7 DEF NeverMisjudged, TracksNewest, EstimateOf
<1>2. ASSUME NEW t \in IoThreads, ThreadStep(t)
      PROVE  NeverMisjudged'
  <2>1. UNCHANGED <<estimator, newest>> /\ pc'[t] # "received"
    BY <1>2 DEF ThreadStep, Store, Deliver, ReassembleMore, Reassemble, Return, TypeOK
  <2>2. \A u \in IoThreads \ {t} : /\ pc'[u] = pc[u] /\ packet'[u] = packet[u]
                                   /\ generation'[u] = generation[u]
    BY <1>2 DEF ThreadStep, Store, Deliver, ReassembleMore, Reassemble, Return, TypeOK
  <2> QED BY <1>0, <2>1, <2>2 DEF NeverMisjudged, TracksNewest, Decrypts, FullPacketId
<1>3. CASE UNCHANGED vars
  BY <1>0, <1>3 DEF vars, threadVars, NeverMisjudged, TracksNewest, Decrypts, FullPacketId
<1> QED BY <1>1, <1>2, <1>3 DEF Next

(***************************************************************************)
(* As long as reordering stays within overflow_window packets (8192 in the *)
(* code) the generation estimate is right, on any number of IO threads, in *)
(* any generation and for all sizes of the id space that the estimator's   *)
(* two areas fit in.                                                       *)
(***************************************************************************)
THEOREM EstimatesAreRight == Spec => []NeverMisjudged
<1>1. Init => NeverMisjudged
  BY DEF Init, NeverMisjudged, TracksNewest
<1>2. TypeOK /\ NeverMisjudged /\ [Next]_vars => NeverMisjudged'
  <2>1. strayed' => NeverMisjudged'
    BY DEF NeverMisjudged
  <2> QED BY <2>1, EstimateStep
<1> QED BY <1>1, <1>2, DecoderTypeCorrect, PTL DEF Spec
-----------------------------------------------------------------------------
\* The stream ends before the ring would run over the end of the index space
\* (2^32 command packets of one client).
NoWrap == LastPacket + Capacity < IndexSpace

Aligned(r) ==
  /\ r.ring_index \in FirstPacket..(LastPacket + 1)
  /\ \A i \in Positions : slot_set(r, i) => slot_value(r, i) = r.ring_index + i

StoredIn(r) == {n \in Packets : \E i \in Positions : slot_value(r, i) = n}

LEMMA StoredByPosition ==
  ASSUME ring \in Rings
  PROVE  Stored = StoredIn(ring)
<1>1. ASSUME NEW n \in Packets
      PROVE  (\E p \in Positions : ring.slots[p] = n)
               <=> (\E i \in Positions : slot_value(ring, i) = n)
  <2>1. \A i \in Positions : SlotAt(ring, i) \in Positions
    BY SlotPlace, RingAssumption DEF Positions
  <2> QED BY <2>1, SlotEvery DEF slot_value
<1> QED BY <1>1 DEF Stored, StoredIn, Positions

\* Without wrapping, the slots are for the Capacity packets from ring_index on.
LEMMA InsertAligned ==
  ASSUME NoWrap, NEW r \in Rings, Aligned(r), NEW n \in Packets,
         InsertResult(r, n) = "success"
  PROVE  /\ Aligned(Insert(r, n, n))
         /\ r.ring_index <= n
         /\ StoredIn(Insert(r, n, n)) = StoredIn(r) \cup {n}
<1> DEFINE rel == RelativeIndex(r, n)
           q == Insert(r, n, n)
<1>1. /\ InBounds(r, n) /\ rel \in Positions
      /\ q.ring_index = r.ring_index
      /\ \A i \in Positions : slot_value(q, i) = IF i = rel THEN n ELSE slot_value(r, i)
  BY InsertFacts
<1>2. r.ring_index \in FirstPacket..(LastPacket + 1) /\ FirstPacket \in Nat
      /\ LastPacket \in Nat /\ n \in Nat /\ n # Unset
  BY PacketFacts, PacketType DEF Aligned
<1>3. r.ring_index <= n /\ rel = n - r.ring_index
  BY <1>1, <1>2, RingAssumption DEF InBounds, RelativeIndex, NoWrap
<1>4. ~slot_set(r, rel)
  BY <1>1 DEF InsertResult
<1> HIDE DEF rel, q
<1>5. Aligned(q)
  BY <1>1, <1>2, <1>3 DEF Aligned, slot_set, Positions
<1>6. StoredIn(q) = StoredIn(r) \cup {n}
  <2>1. slot_value(r, rel) = Unset
    BY <1>4 DEF slot_set
  <2>2. \A x \in Packets : x # Unset
    BY PacketType
  <2> QED BY <1>1, <2>1, <2>2 DEF StoredIn
<1> QED BY <1>3, <1>5, <1>6 DEF q

\* What is popped are the packets from ring_index to just below the new one.
LEMMA PopAligned ==
  ASSUME NoWrap, NEW r \in Rings, Aligned(r), FrontLength(r) > 0
  PROVE  LET len == FrontLength(r)
             q == PopFront(r, len)
         IN
         /\ Aligned(q)
         /\ len \in 1..Capacity
         /\ q.ring_index = r.ring_index + len
         /\ r.ring_index + len <= LastPacket + 1
         /\ \A i \in 0..(len - 1) : slot_value(r, i) = r.ring_index + i
         /\ StoredIn(q) \subseteq StoredIn(r)
         /\ \A n \in StoredIn(r) : n \in StoredIn(q) \/ n < q.ring_index
<1> DEFINE len == FrontLength(r)
           q == PopFront(r, len)
<1>1. /\ len \in 1..Capacity
      /\ \A i \in 0..(len - 1) : slot_set(r, i)
  BY FrontLengthFacts, RingAssumption
<1> HIDE DEF len
<1>2. /\ q \in Rings
      /\ q.ring_index = (r.ring_index + len) % IndexSpace
      /\ \A i \in Positions : slot_value(q, i) =
           IF i + len < Capacity THEN slot_value(r, i + len) ELSE Unset
  BY <1>1, PopFrontFacts
<1>3. /\ r.ring_index \in FirstPacket..(LastPacket + 1)
      /\ FirstPacket \in Nat /\ LastPacket \in Nat
  BY PacketFacts DEF Aligned
<1>4. \A i \in 0..(len - 1) : i \in Positions /\ slot_value(r, i) = r.ring_index + i
  BY <1>1, RingAssumption DEF Aligned, Positions
<1>5. r.ring_index + len <= LastPacket + 1
  <2>1. len - 1 \in 0..(len - 1) /\ len - 1 \in 0..Capacity
    BY <1>1, RingAssumption
  <2>2. slot_value(r, len - 1) \in Packets
    BY <1>1, <2>1, SlotValue DEF slot_set
  <2> QED BY <1>1, <1>3, <1>4, <2>1, <2>2 DEF Packets
<1>6. q.ring_index = r.ring_index + len
  BY <1>1, <1>2, <1>3, <1>5, RingAssumption DEF NoWrap
<1> HIDE DEF q
<1>7. Aligned(q)
  <2>1. ASSUME NEW i \in Positions, slot_set(q, i)
        PROVE  slot_value(q, i) = q.ring_index + i
    <3>1. i + len < Capacity /\ slot_value(q, i) = slot_value(r, i + len)
      BY <1>2, <2>1 DEF slot_set
    <3>2. i + len \in Positions
      BY <1>1, <3>1, RingAssumption DEF Positions
    <3>3. slot_value(r, i + len) = r.ring_index + (i + len)
      BY <2>1, <3>1, <3>2 DEF Aligned, slot_set
    <3>4. i \in Int /\ len \in Int /\ r.ring_index \in Int
      BY <1>1, <1>3 DEF Positions
    <3> QED BY <1>6, <3>1, <3>3, <3>4
  <2>2. q.ring_index \in FirstPacket..(LastPacket + 1)
    BY <1>1, <1>3, <1>5, <1>6
  <2> QED BY <2>1, <2>2 DEF Aligned
<1>8. StoredIn(q) \subseteq StoredIn(r)
  <2> SUFFICES ASSUME NEW n \in StoredIn(q) PROVE n \in StoredIn(r)
    OBVIOUS
  <2>1. n \in Packets /\ n # Unset
    BY PacketType DEF StoredIn
  <2>2. PICK i \in Positions : slot_value(q, i) = n
    BY DEF StoredIn
  <2>3. i + len \in Positions /\ slot_value(r, i + len) = n
    BY <1>1, <1>2, <2>1, <2>2, RingAssumption DEF Positions
  <2> QED BY <2>1, <2>3 DEF StoredIn
<1>9. ASSUME NEW n \in StoredIn(r) PROVE n \in StoredIn(q) \/ n < q.ring_index
  <2>1. n \in Packets /\ n # Unset
    BY PacketType DEF StoredIn
  <2>2. PICK i \in Positions : slot_value(r, i) = n
    BY DEF StoredIn
  <2>3. n = r.ring_index + i
    BY <2>1, <2>2 DEF Aligned, slot_set
  <2>4. CASE i < len
    BY <1>1, <1>3, <1>6, <2>3, <2>4 DEF Positions
  <2>5. CASE i >= len
    <3>1. i - len \in Positions /\ (i - len) + len = i /\ i < Capacity
      BY <1>1, <2>5, RingAssumption DEF Positions
    <3>2. slot_value(q, i - len) = n
      BY <1>2, <2>2, <3>1
    <3> QED BY <2>1, <3>1, <3>2 DEF StoredIn
  <2>6. i \in Int /\ len \in Int
    BY <1>1 DEF Positions
  <2> QED BY <2>4, <2>5, <2>6
<1> QED BY <1>1, <1>4, <1>5, <1>6, <1>7, <1>8, <1>9 DEF len, q

RingInvariant == Aligned(ring) /\ AcknowledgedIsKept

\* Reassembly keeps ring r aligned, and loses nothing but what it takes out.
LEMMA ReassembleAligned ==
  ASSUME NoWrap, NEW t \in IoThreads, NEW r \in Rings, Aligned(r), Reassemble(t, r)
  PROVE  /\ Aligned(ring')
         /\ r.ring_index <= ring'.ring_index
         /\ StoredIn(ring') \subseteq StoredIn(r)
         /\ \A n \in StoredIn(r) : n \in StoredIn(ring') \/ n < ring'.ring_index
<1>1. r.ring_index \in Int
  BY PacketFacts DEF Aligned
<1>2. CASE ring' = r
  BY <1>1, <1>2
<1>3. CASE FrontLength(r) > 0 /\ ring' = PopFront(r, FrontLength(r))
  <2>1. FrontLength(r) \in 1..Capacity /\ ring'.ring_index = r.ring_index + FrontLength(r)
    BY <1>3, PopAligned
  <2>2. r.ring_index <= ring'.ring_index
    BY <1>1, <2>1, RingAssumption
  <2> QED BY <1>3, <2>2, PopAligned
<1> QED BY <1>2, <1>3 DEF Reassemble

LEMMA RingStep ==
  ASSUME NoWrap, TypeOK, RingInvariant, [Next]_vars
  PROVE  RingInvariant'
<1> USE DEF RingInvariant
<1>1. TypeOK' /\ ring \in Rings /\ ring' \in Rings
  BY DecoderTypeStep DEF TypeOK
<1>2. Stored = StoredIn(ring) /\ Stored' = StoredIn(ring')
  <2>1. (ring \in Rings => Stored = StoredIn(ring))'
    BY StoredByPosition, PTL
  <2> QED BY <1>1, <2>1, StoredByPosition
<1> SUFFICES ASSUME ring' # ring \/ acknowledged' # acknowledged
             PROVE  RingInvariant'
  BY DEF AcknowledgedIsKept, Stored, Aligned, slot_set, slot_value, SlotAt
<1>3. StoredIn(ring) \subseteq acknowledged
      /\ \A n \in acknowledged : n \in StoredIn(ring) \/ n < ring.ring_index
  BY <1>2 DEF AcknowledgedIsKept
<1>4. ring.ring_index \in Nat /\ ring'.ring_index \in Nat
      /\ acknowledged \subseteq Nat
  BY <1>1, RingAssumption, PacketType DEF Rings, TypeOK
<1>5. SUFFICES /\ Aligned(ring')
               /\ StoredIn(ring') \subseteq acknowledged'
               /\ \A n \in acknowledged' : n \in StoredIn(ring') \/ n < ring'.ring_index
  BY <1>2 DEF AcknowledgedIsKept
<1>6. ASSUME NEW t \in IoThreads, Store(t)
      PROVE  /\ Aligned(ring')
             /\ StoredIn(ring') \subseteq acknowledged'
             /\ \A n \in acknowledged' : n \in StoredIn(ring') \/ n < ring'.ring_index
  <2> DEFINE n == packet[t]
  <2>1. n \in Packets /\ n \in Nat
    BY <1>6, StoreCases, PacketType
  <2>2. CASE /\ InsertResult(ring, n) = "underflow"
             /\ acknowledged' = acknowledged \cup {n}
             /\ UNCHANGED ring
    <3>1. n < ring.ring_index
      BY <2>2 DEF InsertResult
    <3> QED BY <1>3, <2>2, <3>1
  <2>3. CASE /\ InsertResult(ring, n) = "success"
             /\ acknowledged' = acknowledged \cup {n}
             /\ Reassemble(t, Insert(ring, n, n))
    <3> DEFINE q == Insert(ring, n, n)
    <3>1. /\ q \in Rings /\ Aligned(q) /\ q.ring_index = ring.ring_index
          /\ StoredIn(q) = StoredIn(ring) \cup {n}
      BY <1>1, <2>1, <2>3, InsertFacts, InsertAligned
    <3> HIDE DEF q
    <3>2. /\ Aligned(ring')
          /\ q.ring_index <= ring'.ring_index
          /\ StoredIn(ring') \subseteq StoredIn(q)
          /\ \A x \in StoredIn(q) : x \in StoredIn(ring') \/ x < ring'.ring_index
      BY <2>3, <3>1, ReassembleAligned DEF q
    <3> QED BY <1>3, <1>4, <2>3, <3>1, <3>2
  <2> QED BY <1>6, <2>2, <2>3, StoreCases
<1>7. ASSUME NEW t \in IoThreads, ReassembleMore(t)
      PROVE  /\ Aligned(ring')
             /\ StoredIn(ring') \subseteq acknowledged'
             /\ \A n \in acknowledged' : n \in StoredIn(ring') \/ n < ring'.ring_index
  <2>1. Reassemble(t, ring) /\ acknowledged' = acknowledged
    BY <1>7 DEF ReassembleMore
  <2>2. /\ Aligned(ring')
        /\ ring.ring_index <= ring'.ring_index
        /\ StoredIn(ring') \subseteq StoredIn(ring)
        /\ \A x \in StoredIn(ring) : x \in StoredIn(ring') \/ x < ring'.ring_index
    BY <1>1, <2>1, ReassembleAligned
  <2> QED BY <1>3, <1>4, <2>1, <2>2
<1> QED BY <1>6, <1>7 DEF Next, ThreadStep, Receive, Deliver, vars

LEMMA RingAlways ==
  ASSUME NoWrap
  PROVE  Spec => [](TypeOK /\ RingInvariant)
<1>1. Init => RingInvariant
  <2> SUFFICES ASSUME Init PROVE RingInvariant
    OBVIOUS
  <2>1. ring \in Rings /\ Stored = StoredIn(ring)
    BY DecoderInit, StoredByPosition DEF TypeOK
  <2>2. ring.ring_index = FirstPacket
    BY DEF Init, EmptyRing
  <2>3. \A i \in Positions : slot_value(ring, i) = Unset
    BY <2>1, SlotPlace, RingAssumption DEF Init, EmptyRing, slot_value, Positions
  <2>4. StoredIn(ring) = {}
    BY <2>3, PacketType DEF StoredIn
  <2> QED BY <2>1, <2>2, <2>3, <2>4, PacketFacts
       DEF RingInvariant, Aligned, AcknowledgedIsKept, slot_set, Init
<1>2. TypeOK /\ RingInvariant /\ [Next]_vars => RingInvariant'
  BY RingStep
<1> QED BY <1>1, <1>2, DecoderTypeCorrect, PTL DEF Spec

(***************************************************************************)
(* The rotating base and the packet numbers agree for ever: each slot      *)
(* holds the packet of its index, for any capacity and any stream shorter  *)
(* than the index space.                                                   *)
(***************************************************************************)
THEOREM RingStaysAligned ==
  ASSUME NoWrap
  PROVE  Spec => []SlotsAligned
<1>1. RingInvariant => SlotsAligned
  BY DEF RingInvariant, Aligned, SlotsAligned, Positions
<1> QED BY <1>1, RingAlways, PTL

(***************************************************************************)
(* Packets in the ring have been acknowledged, and an acknowledged packet  *)
(* is in the ring or was taken out of it with its command.                 *)
(***************************************************************************)
THEOREM NothingAcknowledgedIsLost ==
  ASSUME NoWrap
  PROVE  Spec => []AcknowledgedIsKept
<1>1. RingInvariant => AcknowledgedIsKept
  BY DEF RingInvariant
<1> QED BY <1>1, RingAlways, PTL
-----------------------------------------------------------------------------
\* Within a command the flag is on the first and the last packet only, and
\* only if these are two.
LEMMA FragmentedWithin ==
  ASSUME NEW k \in 1..Len(Commands), NEW n \in Commands[k].first..Commands[k].last
  PROVE  Fragmented(n) <=> /\ Commands[k].first # Commands[k].last
                           /\ n \in {Commands[k].first, Commands[k].last}
<1>0. Len(Commands) \in Nat
  BY DecoderAssumption
<1>1. ASSUME NEW j \in 1..Len(Commands), n \in {Commands[j].first, Commands[j].last}
      PROVE  j = k
  <2>1. /\ Commands[j].first \in Nat /\ Commands[j].last \in Nat
        /\ Commands[k].first \in Nat /\ Commands[k].last \in Nat
        /\ Commands[j].first <= Commands[j].last
    BY CommandFields
  <2>2. ~(Commands[j].last < Commands[k].first) /\ ~(Commands[k].last < Commands[j].first)
    BY <1>1, <2>1
  <2>3. ~(j < k) /\ ~(k < j)
    BY <2>2, CommandsOrdered
  <2> QED BY <1>0, <2>3
<1> QED BY <1>1 DEF Fragmented

\* The front of the ring is where a command begins.
AtCommand(r) == \/ r.ring_index = LastPacket + 1
                \/ \E k \in 1..Len(Commands) : r.ring_index = Commands[k].first

\* What FrontLength counts is exactly the command that begins there.
LEMMA FrontIsCommand ==
  ASSUME NoWrap, NEW r \in Rings, Aligned(r), AtCommand(r), FrontLength(r) > 0
  PROVE  LET len == FrontLength(r) IN
         /\ \E k \in 1..Len(Commands) :
              /\ r.ring_index = Commands[k].first
              /\ PopFront(r, len).ring_index = Commands[k].last + 1
              /\ [i \in 1..len |-> slot_value(r, i - 1)] = PacketsOf(k)
         /\ AtCommand(PopFront(r, len))
<1> DEFINE len == FrontLength(r)
           base == r.ring_index
<1>1. /\ len \in 1..Capacity
      /\ PopFront(r, len).ring_index = base + len
      /\ base + len <= LastPacket + 1
      /\ \A i \in 0..(len - 1) : slot_value(r, i) = base + i
  BY PopAligned
<1>2. /\ len = 1 => ~Fragmented(slot_value(r, 0))
      /\ len > 1 => /\ Fragmented(slot_value(r, 0))
                    /\ Fragmented(slot_value(r, len - 1))
                    /\ \A i \in 1..(len - 2) : ~Fragmented(slot_value(r, i))
  BY FrontLengthFacts
<1> HIDE DEF len
<1>3. base \in Nat /\ LastPacket \in Nat /\ len \in Nat
  BY <1>1, RingAssumption, PacketFacts DEF Rings
<1>4. PICK k \in 1..Len(Commands) : base = Commands[k].first
  BY <1>1, <1>3, RingAssumption DEF AtCommand
<1> DEFINE first == Commands[k].first
           last == Commands[k].last
<1>5. first \in Nat /\ last \in Nat /\ first <= last
  BY CommandFields
<1>6. \A n \in first..last : Fragmented(n) <=> first # last /\ n \in {first, last}
  BY FragmentedWithin
<1> HIDE DEF base, first, last
<1>7. base = first
  BY <1>4 DEF first
<1>8. len = last - first + 1
  <2>0. slot_value(r, 0) = first
    BY <1>1, <1>3, <1>7, RingAssumption
  <2>1. CASE len = 1
    <3>1. ~Fragmented(first)
      BY <1>2, <2>0, <2>1
    <3> QED BY <1>5, <1>6, <2>1, <3>1
  <2>2. CASE len > 1
    <3>1. Fragmented(first)
      BY <1>2, <2>0, <2>2
    <3>2. first # last
      BY <1>5, <1>6, <3>1
    <3>3. Fragmented(first + (len - 1))
      BY <1>1, <1>2, <1>3, <1>7, <2>2
    <3>4. ~(first + (len - 1) < last)
      BY <1>3, <1>5, <1>6, <2>2, <3>3
    <3>5. ~(first + (len - 1) > last)
      <4> SUFFICES ASSUME first + (len - 1) > last PROVE FALSE
        OBVIOUS
      <4>1. last - first \in 1..(len - 2) /\ last - first \in 0..(len - 1)
        BY <1>3, <1>5, <3>2
      <4>2. slot_value(r, last - first) = last
        BY <1>1, <1>5, <1>7, <4>1
      <4>3. Fragmented(last)
        BY <1>5, <1>6, <3>2
      <4> QED BY <1>2, <2>2, <4>1, <4>2, <4>3
    <3> QED BY <1>3, <1>5, <3>4, <3>5
  <2> QED BY <1>1, <2>1, <2>2, RingAssumption
<1>9. [i \in 1..len |-> slot_value(r, i - 1)] = PacketsOf(k)
  <2>1. \A i \in 1..len : slot_value(r, i - 1) = first + i - 1
    <3> SUFFICES ASSUME NEW i \in 1..len PROVE slot_value(r, i - 1) = first + i - 1
      OBVIOUS
    <3>1. i - 1 \in 0..(len - 1)
      BY <1>3
    <3> QED BY <1>1, <1>5, <1>7, <3>1
  <2>2. PacketsOf(k) = [i \in 1..len |-> first + i - 1]
    BY <1>8 DEF PacketsOf, first, last
  <2> QED BY <2>1, <2>2
<1>10. PopFront(r, len).ring_index = last + 1
  BY <1>1, <1>5, <1>7, <1>8
<1>11. AtCommand(PopFront(r, len))
  <2>0. Len(Commands) \in Nat
    BY DecoderAssumption
  <2>1. CASE k = Len(Commands)
    BY <1>10, <2>1 DEF AtCommand, LastPacket, last
  <2>2. CASE k # Len(Commands)
    <3>1. k + 1 \in 1..Len(Commands) /\ k + 1 > 1 /\ (k + 1) - 1 = k
      BY <2>0, <2>2
    <3>2. Commands[k + 1].first = last + 1
      BY <3>1, CommandFields DEF last
    <3> QED BY <1>10, <3>1, <3>2 DEF AtCommand
  <2> QED BY <2>1, <2>2
<1> QED BY <1>4, <1>9, <1>10, <1>11 DEF len, last, base

\* c is a command of the peer, all of it before the given packet.
CommandBefore(c, index) ==
  \E k \in 1..Len(Commands) : c = PacketsOf(k) /\ Commands[k].last < index

LEMMA CommandStart ==
  ASSUME NEW k \in 1..Len(Commands)
  PROVE  PacketsOf(k)[1] = Commands[k].first
<1>1. Commands[k].first \in Nat /\ Commands[k].last \in Nat
      /\ Commands[k].first <= Commands[k].last
  BY CommandFields
<1>2. 1 \in 1..(Commands[k].last - Commands[k].first + 1)
  BY <1>1
<1> QED BY <1>1, <1>2 DEF PacketsOf

LEMMA CommandBeforeFacts ==
  ASSUME NEW c, NEW index \in Nat, CommandBefore(c, index)
  PROVE  /\ c[1] \in Nat /\ c[1] < index
         /\ \A later \in Nat : index <= later => CommandBefore(c, later)
<1>1. PICK k \in 1..Len(Commands) : c = PacketsOf(k) /\ Commands[k].last < index
  BY DEF CommandBefore
<1>2. Commands[k].first \in Nat /\ Commands[k].last \in Nat
      /\ Commands[k].first <= Commands[k].last /\ c[1] = Commands[k].first
  BY <1>1, CommandFields, CommandStart
<1> QED BY <1>1, <1>2 DEF CommandBefore

\* All commands that were taken out of the ring, delivered or about to be,
\* are different commands of the peer from before its front.
CommandInvariant ==
  /\ AtCommand(ring)
  /\ \A i \in 1..Len(decoded) : CommandBefore(decoded[i], ring.ring_index)
  /\ \A t \in IoThreads : pc[t] = "deliver" =>
       /\ CommandBefore(command[t], ring.ring_index)
       /\ \A i \in 1..Len(decoded) : decoded[i] # command[t]
  /\ \A t, u \in IoThreads :
       pc[t] = "deliver" /\ pc[u] = "deliver" /\ command[t] = command[u] => t = u
  /\ \A i, j \in 1..Len(decoded) : decoded[i] = decoded[j] => i = j

\* One round of reassembly on ring r: nothing, or the command at its front.
LEMMA ReassembleTakes ==
  ASSUME NoWrap, TypeOK, NEW t \in IoThreads, NEW r \in Rings, Aligned(r),
         AtCommand(r), Reassemble(t, r)
  PROVE  /\ AtCommand(ring')
         /\ r.ring_index \in Nat /\ ring'.ring_index \in Nat
         /\ r.ring_index <= ring'.ring_index
         /\ \/ pc'[t] = "idle"
            \/ /\ pc'[t] = "deliver"
               /\ CommandBefore(command'[t], ring'.ring_index)
               /\ command'[t][1] = r.ring_index
         /\ \A u \in IoThreads \ {t} : pc'[u] = pc[u] /\ command'[u] = command[u]
<1> DEFINE len == FrontLength(r)
<1>1. /\ r.ring_index \in Nat /\ ring'.ring_index \in Nat
      /\ r.ring_index <= ring'.ring_index
  <2>1. ring' \in Rings
    BY ReassembleType
  <2> QED BY <2>1, ReassembleAligned, RingAssumption DEF Rings
<1>2. \A u \in IoThreads \ {t} : pc'[u] = pc[u] /\ command'[u] = command[u]
  BY DEF Reassemble, Return, TypeOK
<1>3. CASE ring' = r /\ pc'[t] = "idle"
  BY <1>1, <1>2, <1>3
<1>4. CASE len > 0 /\ ring' = PopFront(r, len)
  <2>1. PICK k \in 1..Len(Commands) :
             /\ r.ring_index = Commands[k].first
             /\ PopFront(r, len).ring_index = Commands[k].last + 1
             /\ [i \in 1..len |-> slot_value(r, i - 1)] = PacketsOf(k)
    BY <1>4, FrontIsCommand
  <2>2. AtCommand(ring')
    BY <1>4, FrontIsCommand
  <2>3. \/ pc'[t] = "idle"
        \/ pc'[t] = "deliver" /\ command'[t] = PacketsOf(k)
    BY <1>4, <2>1 DEF Reassemble, Return, TypeOK
  <2>4. CommandBefore(PacketsOf(k), ring'.ring_index)
    BY <1>4, <2>1, CommandFields DEF CommandBefore
  <2> QED BY <1>1, <1>2, <2>1, <2>2, <2>3, <2>4, CommandStart
<1> QED BY <1>3, <1>4 DEF Reassemble, Return, TypeOK

\* The same for both callers of Reassemble.
LEMMA RingChange ==
  ASSUME NoWrap, TypeOK, RingInvariant, AtCommand(ring),
         NEW t \in IoThreads, Store(t) \/ ReassembleMore(t)
  PROVE  /\ AtCommand(ring')
         /\ ring.ring_index \in Nat /\ ring'.ring_index \in Nat
         /\ ring.ring_index <= ring'.ring_index
         /\ \/ pc'[t] = "idle"
            \/ /\ pc'[t] = "deliver"
               /\ CommandBefore(command'[t], ring'.ring_index)
               /\ command'[t][1] = ring.ring_index
         /\ \A u \in IoThreads \ {t} : pc'[u] = pc[u] /\ command'[u] = command[u]
<1> USE DEF RingInvariant
<1>1. ring \in Rings /\ ring.ring_index \in Nat
  BY RingAssumption DEF TypeOK, Rings
<1>2. CASE ReassembleMore(t)
  BY <1>1, <1>2, ReassembleTakes DEF ReassembleMore
<1>3. CASE Store(t)
  <2>1. CASE ring' = ring /\ Return(t)
    BY <1>1, <2>1 DEF Return, TypeOK
  <2>2. CASE /\ packet[t] \in Packets
             /\ InsertResult(ring, packet[t]) = "success"
             /\ Reassemble(t, Insert(ring, packet[t], packet[t]))
    <3> DEFINE q == Insert(ring, packet[t], packet[t])
    <3>1. q \in Rings /\ Aligned(q) /\ q.ring_index = ring.ring_index
      BY <1>1, <2>2, InsertFacts, InsertAligned
    <3>2. AtCommand(q)
      BY <3>1 DEF AtCommand
    <3> HIDE DEF q
    <3> QED BY <2>2, <3>1, <3>2, ReassembleTakes DEF q
  <2>3. /\ packet[t] \in Packets
        /\ \/ ring' = ring /\ Return(t)
           \/ /\ InsertResult(ring, packet[t]) = "success"
              /\ Reassemble(t, Insert(ring, packet[t], packet[t]))
    BY <1>3, StoreCases
  <2> QED BY <2>1, <2>2, <2>3
<1> QED BY <1>2, <1>3

LEMMA CommandStep ==
  ASSUME NoWrap, TypeOK, RingInvariant, CommandInvariant, [Next]_vars
  PROVE  CommandInvariant'
<1> USE DEF CommandInvariant
<1>1. ASSUME NEW t \in IoThreads, NEW n \in Packets, Receive(t, n)
      PROVE  CommandInvariant'
  <2>1. UNCHANGED <<ring, command, decoded>> /\ pc'[t] = "received"
        /\ \A u \in IoThreads \ {t} : pc'[u] = pc[u]
    BY <1>1 DEF Receive, TypeOK
  <2> QED BY <2>1
<1>2. ASSUME NEW t \in IoThreads, Store(t) \/ ReassembleMore(t)
      PROVE  CommandInvariant'
  <2>1. decoded' = decoded
    BY <1>2 DEF Store, ReassembleMore
  <2>2. /\ AtCommand(ring')
        /\ ring.ring_index \in Nat /\ ring'.ring_index \in Nat
        /\ ring.ring_index <= ring'.ring_index
        /\ \/ pc'[t] = "idle"
           \/ /\ pc'[t] = "deliver"
              /\ CommandBefore(command'[t], ring'.ring_index)
              /\ command'[t][1] = ring.ring_index
        /\ \A u \in IoThreads \ {t} : pc'[u] = pc[u] /\ command'[u] = command[u]
    BY <1>2, RingChange
  <2>3. \A c : CommandBefore(c, ring.ring_index) =>
              CommandBefore(c, ring'.ring_index) /\ c[1] # ring.ring_index
    BY <2>2, CommandBeforeFacts
  <2>4. \A i \in 1..Len(decoded) : CommandBefore(decoded[i], ring'.ring_index)
    BY <2>3
  <2>5. \A u \in IoThreads \ {t} : pc'[u] = "deliver" =>
          /\ CommandBefore(command'[u], ring'.ring_index)
          /\ command'[u][1] # ring.ring_index
          /\ \A i \in 1..Len(decoded) : decoded[i] # command'[u]
    BY <2>2, <2>3
  <2>6. pc'[t] = "deliver" =>
          /\ CommandBefore(command'[t], ring'.ring_index)
          /\ \A i \in 1..Len(decoded) : decoded[i] # command'[t]
    BY <2>2, <2>3
  <2>7. ASSUME NEW u \in IoThreads, NEW v \in IoThreads,
               pc'[u] = "deliver", pc'[v] = "deliver", command'[u] = command'[v]
        PROVE  u = v
    BY <2>2, <2>5, <2>7
  <2> QED BY <2>1, <2>2, <2>4, <2>5, <2>6, <2>7
<1>3. ASSUME NEW t \in IoThreads, Deliver(t)
      PROVE  CommandInvariant'
  <2>1. /\ pc[t] = "deliver" /\ ring' = ring
        /\ decoded' = Append(decoded, command[t])
        /\ pc'[t] # "deliver"
        /\ \A u \in IoThreads \ {t} : pc'[u] = pc[u] /\ command'[u] = command[u]
    BY <1>3 DEF Deliver, Decoded, Return, TypeOK
  <2>2. /\ Len(decoded) \in Nat
        /\ Len(decoded') = Len(decoded) + 1
        /\ \A i \in 1..Len(decoded) : decoded'[i] = decoded[i]
        /\ decoded'[Len(decoded) + 1] = command[t]
    BY <2>1 DEF TypeOK
  <2>3. \A i \in 1..Len(decoded') : i \in 1..Len(decoded) \/ i = Len(decoded) + 1
    BY <2>2
  <2>4. \A i \in 1..Len(decoded') : CommandBefore(decoded'[i], ring'.ring_index)
    BY <2>1, <2>2, <2>3
  <2>5. \A u \in IoThreads : pc'[u] = "deliver" =>
          /\ CommandBefore(command'[u], ring'.ring_index)
          /\ \A i \in 1..Len(decoded') : decoded'[i] # command'[u]
    BY <2>1, <2>2, <2>3
  <2>6. \A u, v \in IoThreads :
          pc'[u] = "deliver" /\ pc'[v] = "deliver" /\ command'[u] = command'[v] => u = v
    BY <2>1
  <2>7. \A i, j \in 1..Len(decoded') : decoded'[i] = decoded'[j] => i = j
    BY <2>1, <2>2, <2>3
  <2> QED BY <2>1, <2>4, <2>5, <2>6, <2>7
<1>4. CASE UNCHANGED vars
  BY <1>4 DEF vars, threadVars
<1> QED BY <1>1, <1>2, <1>3, <1>4 DEF Next, ThreadStep

LEMMA CommandAlways ==
  ASSUME NoWrap
  PROVE  Spec => [](TypeOK /\ RingInvariant /\ CommandInvariant)
<1>1. Init => CommandInvariant
  <2> SUFFICES ASSUME Init PROVE CommandInvariant
    OBVIOUS
  <2>1. 1 \in 1..Len(Commands)
    BY DecoderAssumption
  <2>2. AtCommand(ring)
    BY <2>1 DEF AtCommand, Init, EmptyRing, FirstPacket
  <2> QED BY <2>2 DEF Init, CommandInvariant
<1>2. TypeOK /\ RingInvariant /\ CommandInvariant /\ [Next]_vars => CommandInvariant'
  BY CommandStep
<1> QED BY <1>1, <1>2, RingAlways, PTL DEF Spec

(***************************************************************************)
(* Whatever is lost, duplicated, reordered or misjudged, and however many  *)
(* IO threads take turns at the ring: callback_decoded_command gets        *)
(* commands of the peer, complete and unmixed, and each at most once.      *)
(***************************************************************************)
THEOREM DecodedAtMostOnce ==
  ASSUME NoWrap
  PROVE  Spec => []ExactlyOnce
<1>1. CommandInvariant => ExactlyOnce
  BY DEF CommandInvariant, CommandBefore, ExactlyOnce
<1> QED BY <1>1, CommandAlways, PTL
-----------------------------------------------------------------------------
\* Different commands have different packets, so the packets tell the flaw.
LEMMA FlawOfCommand ==
  ASSUME NEW k \in 1..Len(Commands)
  PROVE  FlawOf(PacketsOf(k)) = Commands[k].flaw
<1>0. Len(Commands) \in Nat
  BY DecoderAssumption
<1>1. ASSUME NEW j \in 1..Len(Commands), PacketsOf(j) = PacketsOf(k)
      PROVE  j = k
  <2>1. Commands[j].first = Commands[k].first
    BY <1>1, CommandStart
  <2>2. /\ Commands[j].first \in Nat /\ Commands[j].last \in Nat
        /\ Commands[k].first \in Nat /\ Commands[k].last \in Nat
        /\ Commands[j].first <= Commands[j].last
        /\ Commands[k].first <= Commands[k].last
    BY CommandFields
  <2>3. ~(j < k) /\ ~(k < j)
    BY <2>1, <2>2, CommandsOrdered
  <2> QED BY <1>0, <2>3
<1>2. {j \in 1..Len(Commands) : PacketsOf(j) = PacketsOf(k)} = {k}
  BY <1>1
<1> QED BY <1>2 DEF FlawOf

\* The outcome of a round on ring r: nothing to take, or the command at the
\* front, which the thread holds afterwards if it can be decompressed.
TakenBy(t, k, r, q, state, cmd, again) ==
  /\ r.ring_index = Commands[k].first
  /\ q.ring_index = Commands[k].last + 1
  /\ IF Sound(k) THEN /\ state = "deliver" /\ cmd = PacketsOf(k)
                      /\ FrontLength(q) > 0 => again
                 ELSE state = "idle"

LEMMA RoundOutcome ==
  ASSUME NoWrap, TypeOK, NEW t \in IoThreads, NEW r \in Rings, Aligned(r),
         AtCommand(r), Reassemble(t, r)
  PROVE  \/ ring' = r /\ pc'[t] = "idle" /\ FrontLength(r) <= 0
         \/ \E k \in 1..Len(Commands) :
              TakenBy(t, k, r, ring', pc'[t], command'[t], more'[t])
<1> DEFINE len == FrontLength(r)
           cmd == [i \in 1..len |-> slot_value(r, i - 1)]
<1>1. CASE len <= 0 /\ ring' = r /\ Return(t)
  BY <1>1 DEF Return, TypeOK
<1>2. CASE len > 0 /\ ring' = PopFront(r, len)
  <2>1. PICK k \in 1..Len(Commands) :
             /\ r.ring_index = Commands[k].first
             /\ PopFront(r, len).ring_index = Commands[k].last + 1
             /\ cmd = PacketsOf(k)
    BY <1>2, FrontIsCommand
  <2>2. FlawOf(cmd) = Commands[k].flaw
    BY <2>1, FlawOfCommand
  <2>3. \/ FlawOf(cmd) # "none" /\ Return(t)
        \/ /\ FlawOf(cmd) = "none"
           /\ command' = [command EXCEPT ![t] = cmd]
           /\ more' = [more EXCEPT ![t] = MoreCommandsPending(PopFront(r, len))]
           /\ pc' = [pc EXCEPT ![t] = "deliver"]
    <3>1. ~(len <= 0)
      BY <1>2, FrontLengthFacts, RingAssumption
    <3> QED BY <3>1 DEF Reassemble
  <2> HIDE DEF cmd
  <2>4. CASE FlawOf(cmd) # "none" /\ Return(t)
    BY <1>2, <2>1, <2>2, <2>4 DEF TakenBy, Sound, Return, TypeOK
  <2>5. CASE /\ FlawOf(cmd) = "none"
             /\ command' = [command EXCEPT ![t] = cmd]
             /\ more' = [more EXCEPT ![t] = MoreCommandsPending(PopFront(r, len))]
             /\ pc' = [pc EXCEPT ![t] = "deliver"]
    <3>1. len \in 1..Capacity
      BY <1>2, PopAligned
    <3>2. PopFront(r, len) \in Rings
      BY <3>1, PopFrontFacts
    <3>3. FrontLength(ring') > 0 => front_set(ring')
      BY <1>2, <3>2, FrontLengthFacts
    <3>4. /\ pc'[t] = "deliver" /\ command'[t] = cmd
          /\ more'[t] = front_set(ring')
      BY <1>2, <2>5 DEF MoreCommandsPending, TypeOK
    <3> QED BY <1>2, <2>1, <2>2, <2>5, <3>3, <3>4 DEF TakenBy, Sound
  <2> QED BY <2>3, <2>4, <2>5
<1> QED BY <1>1, <1>2 DEF Reassemble

\* The same for both callers of Reassemble.
LEMMA CallOutcome ==
  ASSUME NoWrap, TypeOK, RingInvariant, AtCommand(ring),
         NEW t \in IoThreads, Store(t) \/ ReassembleMore(t)
  PROVE  /\ pc[t] \in {"received", "again"}
         /\ decoded' = decoded
         /\ \A u \in IoThreads \ {t} : /\ pc'[u] = pc[u] /\ command'[u] = command[u]
                                       /\ more'[u] = more[u]
         /\ \/ ring' = ring /\ pc[t] = "received" /\ pc'[t] = "idle"
            \/ ring'.ring_index = ring.ring_index /\ FrontLength(ring') <= 0
            \/ \E k \in 1..Len(Commands) :
                 TakenBy(t, k, ring, ring', pc'[t], command'[t], more'[t])
<1> USE DEF RingInvariant
<1>1. ring \in Rings /\ ring.ring_index \in Nat
  BY RingAssumption DEF TypeOK, Rings
<1>2. /\ pc[t] \in {"received", "again"}
      /\ decoded' = decoded
      /\ \A u \in IoThreads \ {t} : /\ pc'[u] = pc[u] /\ command'[u] = command[u]
                                    /\ more'[u] = more[u]
  BY DEF Store, ReassembleMore, Reassemble, Return, TypeOK
<1>3. CASE ReassembleMore(t)
  BY <1>1, <1>2, <1>3, RoundOutcome DEF ReassembleMore
<1>4. CASE Store(t)
  <2> DEFINE q == Insert(ring, packet[t], packet[t])
  <2>1. packet[t] \in Packets /\ pc[t] = "received"
    BY <1>4, StoreCases
  <2>2. CASE ring' = ring /\ Return(t)
    BY <1>2, <2>1, <2>2 DEF Return, TypeOK
  <2>3. CASE InsertResult(ring, packet[t]) = "success" /\ Reassemble(t, q)
    <3>1. q \in Rings /\ Aligned(q) /\ q.ring_index = ring.ring_index
      BY <1>1, <2>1, <2>3, InsertFacts, InsertAligned
    <3>2. AtCommand(q)
      BY <3>1 DEF AtCommand
    <3> HIDE DEF q
    <3>3. \/ ring' = q /\ FrontLength(q) <= 0
          \/ \E k \in 1..Len(Commands) :
               TakenBy(t, k, q, ring', pc'[t], command'[t], more'[t])
      BY <2>3, <3>1, <3>2, RoundOutcome
    <3> QED BY <1>2, <3>1, <3>3 DEF TakenBy
  <2> QED BY <1>4, <2>2, <2>3, StoreCases
<1> QED BY <1>3, <1>4

LEMMA SkipStep ==
  ASSUME NoWrap, TypeOK, RingInvariant, CommandInvariant, NoneSkipped, [Next]_vars
  PROVE  NoneSkipped'
<1>0. Len(Commands) \in Nat /\ ring.ring_index \in Nat
  BY DecoderAssumption, RingAssumption DEF TypeOK, Rings
<1>1. ASSUME NEW t \in IoThreads, NEW n \in Packets, Receive(t, n)
      PROVE  NoneSkipped'
  <2>1. UNCHANGED <<ring, command, decoded>> /\ pc[t] = "idle"
        /\ \A u \in IoThreads \ {t} : pc'[u] = pc[u]
    BY <1>1 DEF Receive, TypeOK
  <2> QED BY <2>1 DEF NoneSkipped, Delivered, InHands
<1>2. ASSUME NEW t \in IoThreads, Store(t) \/ ReassembleMore(t)
      PROVE  NoneSkipped'
  <2>1. /\ pc[t] \in {"received", "again"}
        /\ decoded' = decoded
        /\ \A u \in IoThreads \ {t} : pc'[u] = pc[u] /\ command'[u] = command[u]
        /\ \/ ring'.ring_index = ring.ring_index
           \/ \E k \in 1..Len(Commands) :
                TakenBy(t, k, ring, ring', pc'[t], command'[t], more'[t])
    BY <1>2, CallOutcome DEF CommandInvariant
  <2>2. ASSUME NEW j \in 1..Len(Commands), Sound(j), Commands[j].last < ring.ring_index
        PROVE  Delivered(j)' \/ InHands(j)'
    BY <2>1, <2>2 DEF NoneSkipped, Delivered, InHands
  <2>3. ASSUME NEW j \in 1..Len(Commands), Sound(j),
               Commands[j].last < ring'.ring_index, ~(Commands[j].last < ring.ring_index)
        PROVE  InHands(j)'
    <3>1. PICK k \in 1..Len(Commands) :
               TakenBy(t, k, ring, ring', pc'[t], command'[t], more'[t])
      BY <2>1, <2>3
    <3>2. /\ Commands[j].first \in Nat /\ Commands[j].last \in Nat
          /\ Commands[k].first \in Nat /\ Commands[k].last \in Nat
          /\ Commands[j].first <= Commands[j].last
      BY CommandFields
    <3>3. ~(Commands[j].last < Commands[k].first) /\ ~(Commands[k].last < Commands[j].first)
      BY <2>3, <3>1, <3>2 DEF TakenBy
    <3>4. j = k
      BY <1>0, <3>3, CommandsOrdered
    <3> QED BY <2>3, <3>1, <3>4 DEF TakenBy, InHands
  <2> QED BY <2>2, <2>3 DEF NoneSkipped, Sound
<1>3. ASSUME NEW t \in IoThreads, Deliver(t)
      PROVE  NoneSkipped'
  <2>1. /\ pc[t] = "deliver" /\ ring' = ring
        /\ decoded' = Append(decoded, command[t])
        /\ \A u \in IoThreads \ {t} : pc'[u] = pc[u] /\ command'[u] = command[u]
    BY <1>3 DEF Deliver, Decoded, Return, TypeOK
  <2>2. /\ Len(decoded) \in Nat
        /\ Len(decoded') = Len(decoded) + 1
        /\ \A i \in 1..Len(decoded) : decoded'[i] = decoded[i]
        /\ decoded'[Len(decoded) + 1] = command[t]
    BY <2>1 DEF TypeOK
  <2>3. \A i \in 1..Len(decoded) : i \in 1..Len(decoded')
    BY <2>2
  <2>4. Len(decoded) + 1 \in 1..Len(decoded')
    BY <2>2
  <2>5. \A k \in 1..Len(Commands) : Delivered(k) => Delivered(k)'
    BY <2>2, <2>3 DEF Delivered
  <2>6. \A k \in 1..Len(Commands) : command[t] = PacketsOf(k) => Delivered(k)'
    BY <2>2, <2>4 DEF Delivered
  <2>7. \A k \in 1..Len(Commands) : InHands(k) => InHands(k)' \/ Delivered(k)'
    BY <2>1, <2>6 DEF InHands
  <2> QED BY <2>1, <2>5, <2>7 DEF NoneSkipped, Sound
<1>4. CASE UNCHANGED vars
  BY <1>4 DEF vars, threadVars, NoneSkipped, Delivered, InHands
<1> QED BY <1>1, <1>2, <1>3, <1>4 DEF Next, ThreadStep

(***************************************************************************)
(* The ring gives the commands away in the order of sending and drops none *)
(* that can be decompressed: what it has moved past is decoded or in the   *)
(* hands of a thread, for any reordering of the packets, right or wrong    *)
(* estimates, flawed commands and any number of IO threads.                *)
(***************************************************************************)
THEOREM NoCommandSkipped ==
  ASSUME NoWrap
  PROVE  Spec => []NoneSkipped
<1>1. Init => NoneSkipped
  <2> SUFFICES ASSUME Init, NEW k \in 1..Len(Commands)
               PROVE  ~(Commands[k].last < ring.ring_index)
    BY DEF NoneSkipped
  <2>1. ring.ring_index = FirstPacket
    BY DEF Init, EmptyRing
  <2> QED BY <2>1, PacketFacts, CommandFields
<1>2. TypeOK /\ RingInvariant /\ CommandInvariant /\ NoneSkipped /\ [Next]_vars
        => NoneSkipped'
  BY SkipStep
<1> QED BY <1>1, <1>2, CommandAlways, PTL DEF Spec
-----------------------------------------------------------------------------
\* Somebody is going to look at the ring again.
LooksAgain(t) == pc[t] = "again" \/ (pc[t] = "deliver" /\ more[t])

WatchInvariant ==
  FrontLength(ring) <= 0 \/ BehindFailure \/ \E t \in IoThreads : LooksAgain(t)

LEMMA WatchStep ==
  ASSUME NoWrap, TypeOK, RingInvariant, CommandInvariant, WatchInvariant, [Next]_vars
  PROVE  WatchInvariant'
<1> USE DEF WatchInvariant
<1>1. ASSUME NEW t \in IoThreads, Store(t) \/ ReassembleMore(t)
      PROVE  WatchInvariant'
  <2>0. /\ pc[t] \in {"received", "again"}
        /\ \A u \in IoThreads \ {t} : pc'[u] = pc[u] /\ more'[u] = more[u]
        /\ \/ ring' = ring /\ pc[t] = "received" /\ pc'[t] = "idle"
           \/ FrontLength(ring') <= 0
           \/ \E k \in 1..Len(Commands) :
                TakenBy(t, k, ring, ring', pc'[t], command'[t], more'[t])
    BY <1>1, CallOutcome DEF CommandInvariant
  <2>1. CASE ring' = ring /\ pc[t] = "received" /\ pc'[t] = "idle"
    BY <2>0, <2>1 DEF LooksAgain, BehindFailure
  <2>2. CASE FrontLength(ring') <= 0
    BY <2>2
  <2>3. ASSUME NEW k \in 1..Len(Commands),
               TakenBy(t, k, ring, ring', pc'[t], command'[t], more'[t])
        PROVE  WatchInvariant'
    <3>1. CASE Sound(k)
      <4>1. ring' \in Rings
        BY DecoderTypeStep DEF TypeOK
      <4>2. FrontLength(ring') \in -1..Capacity
        BY <4>1, FrontLengthFacts
      <4>3. FrontLength(ring') <= 0 \/ LooksAgain(t)'
        BY <2>3, <3>1, <4>2, RingAssumption DEF TakenBy, LooksAgain
      <4> QED BY <4>3
    <3>2. CASE ~Sound(k)
      BY <2>3, <3>2 DEF TakenBy, BehindFailure, Sound
    <3> QED BY <3>1, <3>2
  <2> QED BY <2>0, <2>1, <2>2, <2>3
<1>2. ASSUME NEW t \in IoThreads, NEW n \in Packets, Receive(t, n)
      PROVE  WatchInvariant'
  BY <1>2 DEF Receive, TypeOK, LooksAgain, BehindFailure
<1>3. ASSUME NEW t \in IoThreads, Deliver(t)
      PROVE  WatchInvariant'
  BY <1>3 DEF Deliver, Return, TypeOK, LooksAgain, BehindFailure
<1>4. CASE UNCHANGED vars
  BY <1>4 DEF vars, threadVars, LooksAgain, BehindFailure
<1> QED BY <1>1, <1>2, <1>3, <1>4 DEF Next, ThreadStep

(***************************************************************************)
(* A complete command at the front of the ring never waits for a further   *)
(* packet, unless the one before it could not be decompressed:             *)
(* more_commands_pending is computed before the unlock, and a thread that  *)
(* completes a command later takes it itself.                              *)
(***************************************************************************)
THEOREM NoCommandStranded ==
  ASSUME NoWrap
  PROVE  Spec => []NothingStranded
<1>1. Init => WatchInvariant
  <2> SUFFICES ASSUME Init PROVE FrontLength(ring) = 0
    BY DEF WatchInvariant
  <2>1. ~front_set(ring)
    BY RingAssumption DEF Init, EmptyRing, front_set, slot_set, slot_value, SlotAt
  <2> QED BY <2>1 DEF FrontLength
<1>2. TypeOK /\ RingInvariant /\ CommandInvariant /\ WatchInvariant /\ [Next]_vars
        => WatchInvariant'
  BY WatchStep
<1>3. WatchInvariant => NothingStranded
  BY DEF WatchInvariant, LooksAgain, NothingStranded
<1> QED BY <1>1, <1>2, <1>3, CommandAlways, PTL DEF Spec
=============================================================================
