----------------------- MODULE AcknowledgeManagerProofs -----------------------
(***************************************************************************)
(* The listeners of the acknowledge manager, for any number of packets, of *)
(* IO threads and of resends.  At any time a listener that was not called  *)
(* has one owner: its entry, as long as the list or a reset has the entry, *)
(* or one IO thread that has moved it out.                                 *)
(***************************************************************************)
EXTENDS AcknowledgeManager, TLAPS

\* Nothing is known of a packet before it is registered.
Fresh ==
  /\ \A i \in entries \cup resetting \cup received \cup buffers : i < next_id
  /\ \A t \in IoThreads : held[t] # NoPacket => held[t] < next_id
  /\ \A i \in Ids : i >= next_id =>
       called[i] = <<>> /\ ~listener[i] /\ ~acknowledged[i]

\* Who may still call the listener of a packet.
OneOwner ==
  /\ entries \cap resetting = {}
  /\ \A i \in entries \cup resetting : listener[i] => called[i] = <<>>
  /\ \A t \in IoThreads : pc[t] # "idle" => held[t] \in Ids /\ ~listener[held[t]]
  /\ \A t \in IoThreads : moved[t] => pc[t] # "idle" /\ called[held[t]] = <<>>
  /\ \A s, t \in IoThreads : moved[s] /\ moved[t] /\ held[s] = held[t] => s = t
  /\ \A i \in Ids : acknowledged[i] => ~listener[i]
  /\ \A i \in Ids : Len(called[i]) <= 1

\* A resend that is not queued yet is not counted yet.
Counted == \A i \in buffers : resend_count[i] < MaxResends

\* An IO thread, and then the listener, is told of packets that were received.
ToldRight ==
  /\ \A t \in IoThreads : pc[t] # "idle" => held[t] \in received
  /\ \A i \in Ids : called[i] = <<TRUE>> => i \in received

\* The packets span less than the ids on the wire.  Otherwise the acknowledge
\* of packet i may find the entry of packet i - IdSpace, if that one is still
\* waiting: the lookup compares the full id with the id on the wire.
OneGeneration == LastId < FirstId + IdSpace

BookInvariant == TypeOK /\ Fresh /\ OneOwner /\ Counted

\* The first call of a listener.
LEMMA FirstCall ==
  ASSUME NEW b \in BOOLEAN
  PROVE  /\ Append(<<>>, b) = <<b>> /\ <<b>> # <<>> /\ Len(<<b>>) = 1
         /\ <<b>> = <<TRUE>> => b = TRUE
<1>1. <<b>> = <<TRUE>> => <<b>>[1] = <<TRUE>>[1]
  OBVIOUS
<1>2. <<b>>[1] = b /\ <<TRUE>>[1] = TRUE
  OBVIOUS
<1>3. Append(<<>>, b) = <<b>> /\ <<b>> # <<>> /\ Len(<<b>>) = 1
  OBVIOUS
<1> QED BY <1>1, <1>2, <1>3

\* Counters wrap within their width.
LEMMA Modulo ==
  ASSUME NEW n \in Nat \ {0}, NEW a \in Int
  PROVE  a % n \in 0..(n - 1)
OBVIOUS

\* Of packets that span less than IdSpace, an acknowledge that finds an entry
\* finds the one it was sent for.
LEMMA SameGeneration ==
  ASSUME OneGeneration, NEW i \in Ids, TargetId(i) \in Ids
  PROVE  TargetId(i) = i
<1> USE ManagerAssumption DEF Ids, TargetId, OneGeneration
<1> DEFINE q == i \div IdSpace
<1>1. i = (IdSpace * q) + (i % IdSpace) /\ q \in Nat
  OBVIOUS
<1>2. q >= 1 => IdSpace * q >= IdSpace
  BY <1>1
<1>3. q = 0 => IdSpace * q = 0
  BY <1>1
<1> QED BY <1>1, <1>2, <1>3
-----------------------------------------------------------------------------
\* No packet is registered.
LEMMA BookInit == Init => BookInvariant
<1> SUFFICES ASSUME Init PROVE BookInvariant
  OBVIOUS
<1> USE ManagerAssumption DEF Init, Ids
<1>1. TypeOK
  BY DEF TypeOK
<1>2. Fresh /\ Counted
  BY DEF Fresh, Counted
<1>3. OneOwner
  BY DEF OneOwner
<1> QED BY <1>1, <1>2, <1>3 DEF BookInvariant

\* Every action keeps the types: send_count and the byte an IO thread has loaded
\* stay within the bit-field, and a resend is counted only once.
LEMMA BookTypeStep == BookInvariant /\ [Next]_vars => TypeOK' /\ Counted'
<1> SUFFICES ASSUME BookInvariant, [Next]_vars PROVE TypeOK' /\ Counted'
  OBVIOUS
<1>i. \A t \in IoThreads : /\ pc[t] # "idle" => held[t] \in Ids
                           /\ moved[t] => pc[t] # "idle"
  BY DEF BookInvariant, OneOwner
<1> USE ManagerAssumption DEF BookInvariant, TypeOK, Counted, entryVars, threadVars
<1>1. CASE process_packet
  <2>1. next_id \in Ids /\ next_id' = next_id + 1
    BY <1>1 DEF process_packet
  <2>2. next_id' \in FirstId..(LastId + 1)
    BY <2>1 DEF Ids
  <2>3. send_count' \in [Ids -> 0..(SendCountSpace - 1)]
    BY <1>1, <2>1 DEF process_packet
  <2> QED BY <1>1, <2>1, <2>2, <2>3 DEF process_packet
<1>2. ASSUME NEW i \in Ids, Transmit(i) PROVE TypeOK' /\ Counted'
  BY <1>2 DEF Transmit
<1>3. ASSUME NEW i \in Ids, Abandon(i) PROVE TypeOK' /\ Counted'
  BY <1>3 DEF Abandon, Abandoned
<1>4. ASSUME NEW t \in IoThreads, NEW i \in Ids, AcknowledgeFound(t, i)
      PROVE  TypeOK' /\ Counted'
  <2> DEFINE e == TargetId(i)
  <2>1. e \in Ids
    BY <1>4 DEF AcknowledgeFound
  <2>2. (send_count[e] - 1) % SendCountSpace \in 0..(SendCountSpace - 1)
    <3>1. send_count[e] - 1 \in Int /\ SendCountSpace \in Nat \ {0}
      BY <2>1
    <3> HIDE DEF TypeOK
    <3> QED BY <3>1, Modulo
  <2>3. send_count' \in [Ids -> 0..(SendCountSpace - 1)]
    BY <1>4, <2>2 DEF AcknowledgeFound
  <2>4. /\ held' \in [IoThreads -> Ids \cup {NoPacket}]
        /\ moved' \in [IoThreads -> BOOLEAN]
    BY <1>4, <2>1 DEF AcknowledgeFound
  <2>5. listener' \in [Ids -> BOOLEAN]
    BY <1>4 DEF AcknowledgeFound, ListenerMovedOut
  <2>6. pc' \in [IoThreads -> {"idle", "mark", "store", "call"}]
    BY <1>4 DEF AcknowledgeFound
  <2>7. entries' \subseteq Ids
    BY <1>4 DEF AcknowledgeFound
  <2> QED BY <1>4, <2>3, <2>4, <2>5, <2>6, <2>7 DEF AcknowledgeFound
<1>5. ASSUME NEW t \in IoThreads, NEW i \in Ids, AcknowledgeMissing(t, i)
      PROVE  TypeOK' /\ Counted'
  BY <1>5 DEF AcknowledgeMissing
<1>6. ASSUME NEW t \in IoThreads, LoadMark(t) PROVE TypeOK' /\ Counted'
  <2>1. send_count[held[t]] \in 0..(SendCountSpace - 1)
    BY <1>6, <1>i DEF LoadMark
  <2> QED BY <1>6, <2>1 DEF LoadMark
<1>7. ASSUME NEW t \in IoThreads, StoreMark(t) PROVE TypeOK' /\ Counted'
  BY <1>7, <1>i DEF StoreMark
<1>8. ASSUME NEW t \in IoThreads, CallListener(t) PROVE TypeOK' /\ Counted'
  <2>1. moved[t] => held[t] \in Ids
    BY <1>i
  <2>2. called' \in [Ids -> Seq(BOOLEAN)]
    BY <1>8, <2>1 DEF CallListener
  <2> QED BY <1>8, <2>2 DEF CallListener
<1>9. ASSUME NEW due \in SUBSET entries, NEW exhausted \in SUBSET entries,
             NEW expired \in SUBSET entries,
             execute_resend(due, exhausted, expired)
      PROVE  TypeOK' /\ Counted'
  <2>1. \A i \in Ids : SentAgain(i) \in 0..(SendCountSpace - 1)
    <3>1. ASSUME NEW i \in Ids
          PROVE  send_count[i] + 1 \in Int /\ SendCountSpace \in Nat \ {0}
      OBVIOUS
    <3> HIDE DEF TypeOK
    <3> QED BY <3>1, Modulo DEF SentAgain
  <2>2. send_count' \in [Ids -> 0..(SendCountSpace - 1)]
    BY <1>9, <2>1 DEF execute_resend
  <2>3. pc' \in [IoThreads -> {"idle", "mark", "store", "call"}]
    BY <1>9 DEF execute_resend
  <2>4. entries' \subseteq Ids /\ buffers' \subseteq Ids /\ failed' \subseteq Ids
    BY <1>9 DEF execute_resend
  <2>5. Counted'
    BY <1>9 DEF execute_resend, Resendable
  <2> QED BY <1>9, <2>2, <2>3, <2>4, <2>5 DEF execute_resend
<1>10. ASSUME NEW queued \in SUBSET buffers, QueueResends(queued)
       PROVE  TypeOK' /\ Counted'
  BY <1>10 DEF QueueResends, ResendCounted
<1>11. CASE TakeEntries
  BY <1>11 DEF TakeEntries
<1>12. CASE UNCHANGED vars
  BY <1>12 DEF vars
<1> QED BY <1>1, <1>2, <1>3, <1>4, <1>5, <1>6, <1>7, <1>8, <1>9, <1>10, <1>11,
           <1>12 DEF Next, AckStep

\* Registration is the only way into the book.
LEMMA FreshStep == BookInvariant /\ [Next]_vars => Fresh'
<1> SUFFICES ASSUME BookInvariant, [Next]_vars PROVE Fresh'
  OBVIOUS
<1> USE ManagerAssumption DEF BookInvariant, TypeOK, Fresh, entryVars, threadVars
<1>n. next_id \in Nat /\ \A i \in Ids : i \in Nat
  BY DEF Ids
<1> USE <1>n
<1>1. CASE process_packet
  <2>1. /\ next_id' = next_id + 1 /\ entries' = entries \cup {next_id}
        /\ listener' = [listener EXCEPT ![next_id] = TRUE]
        /\ UNCHANGED <<acknowledged, held, buffers, resetting, received, called>>
    BY <1>1 DEF process_packet
  <2>2. \A i \in entries' \cup resetting' \cup received' \cup buffers' : i < next_id'
    BY <2>1
  <2>3. \A t \in IoThreads : held'[t] # NoPacket => held'[t] < next_id'
    BY <2>1
  <2>4. ASSUME NEW i \in Ids, i >= next_id'
        PROVE  called'[i] = <<>> /\ ~listener'[i] /\ ~acknowledged'[i]
    <3>1. i >= next_id /\ i # next_id
      BY <2>1, <2>4
    <3> QED BY <2>1, <3>1
  <2> QED BY <2>2, <2>3, <2>4
<1>2. ASSUME NEW i \in Ids, Transmit(i)
      PROVE  Fresh'
  BY <1>2 DEF Transmit
<1>3. ASSUME NEW i \in Ids, Abandon(i)
      PROVE  Fresh'
  BY <1>3 DEF Abandon, Abandoned
<1>4. ASSUME NEW t \in IoThreads, NEW i \in Ids, AcknowledgeFound(t, i)
      PROVE  Fresh'
  BY <1>4 DEF AcknowledgeFound, ListenerMovedOut, Marking
<1>5. ASSUME NEW t \in IoThreads, NEW i \in Ids, AcknowledgeMissing(t, i)
      PROVE  Fresh'
  BY <1>5 DEF AcknowledgeMissing
<1>6. ASSUME NEW t \in IoThreads, LoadMark(t)
      PROVE  Fresh'
  BY <1>6 DEF LoadMark
<1>7. ASSUME NEW t \in IoThreads, StoreMark(t)
      PROVE  Fresh'
  <2>1. held[t] \in Ids /\ held[t] < next_id
    BY <1>7 DEF StoreMark, OneOwner
  <2>2. \A i \in Ids : i # held[t] => acknowledged'[i] = acknowledged[i]
    BY <1>7 DEF StoreMark
  <2>3. UNCHANGED <<next_id, entries, listener, held, buffers, resetting, received, called>>
    BY <1>7 DEF StoreMark
  <2>4. \A i \in Ids : i >= next_id => i # held[t]
    BY <2>1
  <2> QED BY <2>2, <2>3, <2>4
<1>8. ASSUME NEW t \in IoThreads, CallListener(t)
      PROVE  Fresh'
  <2>1. held[t] \in Ids /\ held[t] < next_id
    BY <1>8 DEF CallListener, OneOwner
  <2>2. \A i \in Ids : i # held[t] => called'[i] = called[i]
    BY <1>8 DEF CallListener
  <2>3. \A u \in IoThreads : held'[u] # NoPacket => held'[u] = held[u]
    BY <1>8 DEF CallListener
  <2>4. UNCHANGED <<next_id, entries, acknowledged, listener, buffers, resetting, received>>
    BY <1>8 DEF CallListener
  <2>5. \A i \in Ids : i >= next_id => i # held[t]
    BY <2>1
  <2> QED BY <2>2, <2>3, <2>4, <2>5
<1>9. ASSUME NEW due \in SUBSET entries, NEW exhausted \in SUBSET entries,
             NEW expired \in SUBSET entries,
             execute_resend(due, exhausted, expired)
      PROVE  Fresh'
  BY <1>9 DEF execute_resend, Marking, Expirable, Exhausted
<1>10. ASSUME NEW queued \in SUBSET buffers, QueueResends(queued)
      PROVE  Fresh'
  BY <1>10 DEF QueueResends
<1>11. CASE TakeEntries
  BY <1>11 DEF TakeEntries
<1>12. CASE UNCHANGED vars
  BY <1>12 DEF vars
<1> QED BY <1>1, <1>2, <1>3, <1>4, <1>5, <1>6, <1>7, <1>8, <1>9, <1>10, <1>11,
           <1>12 DEF Next, AckStep

\* No action gives a listener a second owner: an acknowledge moves it out under
\* entry_lock, and a reset has the entries that it took to itself.
LEMMA OneOwnerStep == BookInvariant /\ [Next]_vars => OneOwner'
<1> SUFFICES ASSUME BookInvariant, [Next]_vars PROVE OneOwner'
  OBVIOUS
<1> USE ManagerAssumption DEF BookInvariant, TypeOK, OneOwner, Fresh,
        entryVars, threadVars
<1>1. CASE process_packet
  <2>1. /\ entries' = entries \cup {next_id}
        /\ listener' = [listener EXCEPT ![next_id] = TRUE]
        /\ UNCHANGED <<acknowledged, pc, held, moved, resetting, called>>
    BY <1>1 DEF process_packet
  <2>2. /\ next_id \in Ids /\ next_id \notin resetting /\ ~acknowledged[next_id]
        /\ called[next_id] = <<>>
        /\ \A t \in IoThreads : held[t] \in Ids => held[t] # next_id
    <3>1. next_id \in Ids /\ next_id \in Nat /\ ~(next_id < next_id) /\ next_id >= next_id
      BY <1>1 DEF process_packet, Ids
    <3> QED BY <3>1
  <2> QED BY <2>1, <2>2
<1>2. ASSUME NEW i \in Ids, Transmit(i)
      PROVE  OneOwner'
  BY <1>2 DEF Transmit
<1>3. ASSUME NEW i \in Ids, Abandon(i)
      PROVE  OneOwner'
  <2>1. UNCHANGED <<entries, acknowledged, listener, pc, held, moved>>
    BY <1>3 DEF Abandon
  <2>2. resetting' = resetting \ {i} /\ i \in resetting /\ i \notin entries
    BY <1>3 DEF Abandon
  <2>3. CASE listener[i]
    <3>1. called[i] = <<>> /\ called' = [called EXCEPT ![i] = <<FALSE>>]
      BY <1>3, <2>3, FirstCall DEF Abandon, Abandoned
    <3>2. \A t \in IoThreads : moved[t] => held[t] # i
      BY <2>3
    <3>3. Len(called'[i]) = 1
      BY <3>1, FirstCall
    <3> QED BY <2>1, <2>2, <3>1, <3>2, <3>3
  <2>4. CASE ~listener[i]
    <3>1. called' = called
      BY <1>3, <2>4 DEF Abandon
    <3> QED BY <2>1, <2>2, <3>1
  <2> QED BY <2>3, <2>4
<1>4. ASSUME NEW t \in IoThreads, NEW i \in Ids, AcknowledgeFound(t, i)
      PROVE  OneOwner'
  BY <1>4 DEF AcknowledgeFound, ListenerMovedOut, Marking
<1>5. ASSUME NEW t \in IoThreads, NEW i \in Ids, AcknowledgeMissing(t, i)
      PROVE  OneOwner'
  BY <1>5 DEF AcknowledgeMissing
<1>6. ASSUME NEW t \in IoThreads, LoadMark(t)
      PROVE  OneOwner'
  BY <1>6 DEF LoadMark
<1>7. ASSUME NEW t \in IoThreads, StoreMark(t)
      PROVE  OneOwner'
  BY <1>7 DEF StoreMark
<1>8. ASSUME NEW t \in IoThreads, CallListener(t)
      PROVE  OneOwner'
  <2>1. /\ pc' = [pc EXCEPT ![t] = "idle"] /\ moved' = [moved EXCEPT ![t] = FALSE]
        /\ held' = [held EXCEPT ![t] = NoPacket]
        /\ UNCHANGED <<next_id, entries, acknowledged, listener, resetting, received, failed>>
    BY <1>8 DEF CallListener
  <2>2. held[t] \in Ids /\ ~listener[held[t]]
    BY <1>8 DEF CallListener
  <2>3. CASE moved[t]
    <3>1. called[held[t]] = <<>> /\ called' = [called EXCEPT ![held[t]] = <<TRUE>>]
      BY <1>8, <2>3, FirstCall DEF CallListener
    <3>2. called'[held[t]] = <<TRUE>> /\ Len(called'[held[t]]) = 1
      BY <2>2, <3>1, FirstCall
    <3>3. \A i \in Ids : i # held[t] => called'[i] = called[i]
      BY <3>1
    <3>4. \A u \in IoThreads : u # t =>
            pc'[u] = pc[u] /\ moved'[u] = moved[u] /\ held'[u] = held[u]
      BY <2>1
    <3>5. pc'[t] = "idle" /\ ~moved'[t]
      BY <2>1
    <3>6. \A u \in IoThreads : moved'[u] => u # t /\ held'[u] # held[t]
      BY <2>3, <3>4, <3>5
    <3>7. \A u \in IoThreads : pc'[u] # "idle" => u # t
      BY <3>5
    <3>8. \A i \in entries' \cup resetting' : listener'[i] => called'[i] = <<>>
      BY <2>1, <2>2, <3>3
    <3>9. \A i \in Ids : Len(called'[i]) <= 1
      <4> SUFFICES ASSUME NEW i \in Ids PROVE Len(called'[i]) <= 1
        OBVIOUS
      <4>1. CASE i = held[t]
        <5>1. Len(called'[i]) = 1
          BY <3>2, <4>1
        <5> QED BY <5>1
      <4>2. CASE i # held[t]
        BY <3>3, <4>2
      <4> QED BY <4>1, <4>2
    <3>10. \A u \in IoThreads : moved'[u] => pc'[u] # "idle" /\ called'[held'[u]] = <<>>
      BY <3>3, <3>4, <3>6
    <3>11. \A u, v \in IoThreads : moved'[u] /\ moved'[v] /\ held'[u] = held'[v] => u = v
      BY <3>4, <3>6
    <3>12. \A u \in IoThreads : pc'[u] # "idle" => held'[u] \in Ids /\ ~listener'[held'[u]]
      BY <2>1, <3>4, <3>7
    <3> QED BY <2>1, <3>8, <3>9, <3>10, <3>11, <3>12
  <2>4. CASE ~moved[t]
    <3>1. called' = called
      BY <1>8, <2>4 DEF CallListener
    <3> QED BY <2>1, <2>4, <3>1
  <2> QED BY <2>3, <2>4
<1>9. ASSUME NEW due \in SUBSET entries, NEW exhausted \in SUBSET entries,
             NEW expired \in SUBSET entries,
             execute_resend(due, exhausted, expired)
      PROVE  OneOwner'
  <2>1. /\ entries' \subseteq entries
        /\ UNCHANGED <<acknowledged, listener, held, moved, resetting, called>>
    BY <1>9 DEF execute_resend
  <2>2. \A u \in IoThreads : pc'[u] = pc[u] \/ (pc'[u] = "call" /\ pc[u] # "idle")
    <3>1. PICK lost \in SUBSET UNION {Marking(i) : i \in due} :
            pc' = [u \in IoThreads |-> IF u \in lost THEN "call" ELSE pc[u]]
      BY <1>9 DEF execute_resend
    <3>2. \A u \in lost : pc[u] # "idle"
      <4>1. ASSUME NEW u \in lost PROVE \E i \in due : u \in Marking(i)
        OBVIOUS
      <4>2. \A i \in due : \A u \in Marking(i) : pc[u] # "idle"
        BY DEF Marking
      <4> QED BY <4>1, <4>2
    <3> QED BY <3>1, <3>2
  <2> QED BY <2>1, <2>2
<1>10. ASSUME NEW queued \in SUBSET buffers, QueueResends(queued)
      PROVE  OneOwner'
  BY <1>10 DEF QueueResends
<1>11. CASE TakeEntries
  BY <1>11 DEF TakeEntries
<1>12. CASE UNCHANGED vars
  BY <1>12 DEF vars
<1> QED BY <1>1, <1>2, <1>3, <1>4, <1>5, <1>6, <1>7, <1>8, <1>9, <1>10, <1>11,
           <1>12 DEF Next, AckStep

\* No action forgets a listener: an entry is dropped silently only after its
\* `acknowledged` bit was set, by a thread that has moved the listener out.
LEMMA KeptStep == BookInvariant /\ ListenerKept /\ [Next]_vars => ListenerKept'
<1> SUFFICES ASSUME BookInvariant, ListenerKept, [Next]_vars PROVE ListenerKept'
  OBVIOUS
<1> USE ManagerAssumption DEF BookInvariant, TypeOK, OneOwner, Fresh, ListenerKept,
        entryVars, threadVars
<1>1. CASE process_packet
  BY <1>1 DEF process_packet
<1>2. ASSUME NEW i \in Ids, Transmit(i)
      PROVE  ListenerKept'
  BY <1>2 DEF Transmit
<1>3. ASSUME NEW i \in Ids, Abandon(i)
      PROVE  ListenerKept'
  <2>1. /\ UNCHANGED <<next_id, entries, listener, held, moved, failed>>
        /\ resetting' = resetting \ {i}
    BY <1>3 DEF Abandon
  <2>2. \A j \in Ids : j # i => called'[j] = called[j]
    BY <1>3 DEF Abandon, Abandoned
  <2>3. IF listener[i] THEN called'[i] # <<>> ELSE called'[i] = called[i]
    BY <1>3, FirstCall DEF Abandon, Abandoned
  <2> QED BY <2>1, <2>2, <2>3 DEF Ids
<1>4. ASSUME NEW t \in IoThreads, NEW i \in Ids, AcknowledgeFound(t, i)
      PROVE  ListenerKept'
  BY <1>4 DEF AcknowledgeFound, ListenerMovedOut, Marking
<1>5. ASSUME NEW t \in IoThreads, NEW i \in Ids, AcknowledgeMissing(t, i)
      PROVE  ListenerKept'
  BY <1>5 DEF AcknowledgeMissing
<1>6. ASSUME NEW t \in IoThreads, LoadMark(t)
      PROVE  ListenerKept'
  BY <1>6 DEF LoadMark
<1>7. ASSUME NEW t \in IoThreads, StoreMark(t)
      PROVE  ListenerKept'
  BY <1>7 DEF StoreMark
<1>8. ASSUME NEW t \in IoThreads, CallListener(t)
      PROVE  ListenerKept'
  <2>1. /\ pc' = [pc EXCEPT ![t] = "idle"] /\ moved' = [moved EXCEPT ![t] = FALSE]
        /\ held' = [held EXCEPT ![t] = NoPacket]
        /\ UNCHANGED <<next_id, entries, acknowledged, listener, resetting, received, failed>>
    BY <1>8 DEF CallListener
  <2>2. held[t] \in Ids /\ ~listener[held[t]]
    BY <1>8 DEF CallListener
  <2>3. CASE moved[t]
    <3>1. called[held[t]] = <<>> /\ called' = [called EXCEPT ![held[t]] = <<TRUE>>]
      BY <1>8, <2>3, FirstCall DEF CallListener
    <3>2. called'[held[t]] = <<TRUE>> /\ Len(called'[held[t]]) = 1
      BY <2>2, <3>1, FirstCall
    <3>3. \A i \in Ids : i # held[t] => called'[i] = called[i]
      BY <3>1
    <3>4. \A u \in IoThreads : u # t =>
            pc'[u] = pc[u] /\ moved'[u] = moved[u] /\ held'[u] = held[u]
      BY <2>1
    <3>5. pc'[t] = "idle" /\ ~moved'[t]
      BY <2>1
    <3>6. called'[held[t]] # <<>>
      BY <3>2, FirstCall
    <3>7. ASSUME NEW i \in FirstId..(next_id - 1), i # held[t]
          PROVE  \/ called'[i] # <<>>
                 \/ listener'[i] /\ i \in entries' \cup resetting' \cup failed'
                 \/ \E u \in IoThreads : held'[u] = i /\ moved'[u]
      <4>1. i \in Ids
        BY DEF Ids
      <4> QED BY <2>1, <3>3, <3>4, <3>7, <4>1
    <3> QED BY <2>1, <3>6, <3>7
  <2>4. CASE ~moved[t]
    <3>1. called' = called
      BY <1>8, <2>4 DEF CallListener
    <3> QED BY <2>1, <2>4, <3>1
  <2> QED BY <2>3, <2>4
<1>9. ASSUME NEW due \in SUBSET entries, NEW exhausted \in SUBSET entries,
             NEW expired \in SUBSET entries,
             execute_resend(due, exhausted, expired)
      PROVE  ListenerKept'
  BY <1>9 DEF execute_resend, Marking, Expirable, Exhausted
<1>10. ASSUME NEW queued \in SUBSET buffers, QueueResends(queued)
      PROVE  ListenerKept'
  BY <1>10 DEF QueueResends
<1>11. CASE TakeEntries
  BY <1>11 DEF TakeEntries
<1>12. CASE UNCHANGED vars
  BY <1>12 DEF vars
<1> QED BY <1>1, <1>2, <1>3, <1>4, <1>5, <1>6, <1>7, <1>8, <1>9, <1>10, <1>11,
           <1>12 DEF Next, AckStep

\* Within one generation an acknowledge finds the packet that was received.
LEMMA ToldStep ==
  OneGeneration /\ BookInvariant /\ ToldRight /\ [Next]_vars => ToldRight'
<1> SUFFICES ASSUME OneGeneration, BookInvariant, ToldRight, [Next]_vars
             PROVE  ToldRight'
  OBVIOUS
<1> USE ManagerAssumption DEF BookInvariant, TypeOK, OneOwner, Fresh, ToldRight,
        entryVars, threadVars
<1>1. CASE process_packet
  BY <1>1 DEF process_packet
<1>2. ASSUME NEW i \in Ids, Transmit(i)
      PROVE  ToldRight'
  BY <1>2 DEF Transmit
<1>3. ASSUME NEW i \in Ids, Abandon(i)
      PROVE  ToldRight'
  <2>1. UNCHANGED <<received, pc, held>>
    BY <1>3 DEF Abandon
  <2>2. \A j \in Ids : j # i => called'[j] = called[j]
    BY <1>3 DEF Abandon, Abandoned
  <2>3. IF listener[i] THEN called'[i] = <<FALSE>> ELSE called'[i] = called[i]
    BY <1>3, FirstCall DEF Abandon, Abandoned
  <2> QED BY <2>1, <2>2, <2>3, FirstCall
<1>4. ASSUME NEW t \in IoThreads, NEW i \in Ids, AcknowledgeFound(t, i)
      PROVE  ToldRight'
  <2>1. TargetId(i) = i
    BY <1>4, SameGeneration DEF AcknowledgeFound
  <2>2. UNCHANGED <<received, called>> /\ i \in received /\ held' = [held EXCEPT ![t] = i]
    BY <1>4, <2>1 DEF AcknowledgeFound
  <2>3. \A u \in IoThreads : u # t => pc'[u] = pc[u] \/ (pc'[u] = "call" /\ pc[u] # "idle")
    BY <1>4 DEF AcknowledgeFound, Marking
  <2> QED BY <2>2, <2>3
<1>5. ASSUME NEW t \in IoThreads, NEW i \in Ids, AcknowledgeMissing(t, i)
      PROVE  ToldRight'
  BY <1>5 DEF AcknowledgeMissing
<1>6. ASSUME NEW t \in IoThreads, LoadMark(t)
      PROVE  ToldRight'
  BY <1>6 DEF LoadMark
<1>7. ASSUME NEW t \in IoThreads, StoreMark(t)
      PROVE  ToldRight'
  BY <1>7 DEF StoreMark
<1>8. ASSUME NEW t \in IoThreads, CallListener(t)
      PROVE  ToldRight'
  BY <1>8 DEF CallListener
<1>9. ASSUME NEW due \in SUBSET entries, NEW exhausted \in SUBSET entries,
             NEW expired \in SUBSET entries,
             execute_resend(due, exhausted, expired)
      PROVE  ToldRight'
  <2>1. UNCHANGED <<held, received, called>>
    BY <1>9 DEF execute_resend
  <2>2. \A u \in IoThreads : pc'[u] = pc[u] \/ (pc'[u] = "call" /\ pc[u] # "idle")
    <3>1. PICK lost \in SUBSET UNION {Marking(i) : i \in due} :
            pc' = [u \in IoThreads |-> IF u \in lost THEN "call" ELSE pc[u]]
      BY <1>9 DEF execute_resend
    <3>2. \A u \in lost : pc[u] # "idle"
      <4>1. ASSUME NEW u \in lost PROVE \E i \in due : u \in Marking(i)
        OBVIOUS
      <4>2. \A i \in due : \A u \in Marking(i) : pc[u] # "idle"
        BY DEF Marking
      <4> QED BY <4>1, <4>2
    <3> QED BY <3>1, <3>2
  <2> QED BY <2>1, <2>2
<1>10. ASSUME NEW queued \in SUBSET buffers, QueueResends(queued)
      PROVE  ToldRight'
  BY <1>10 DEF QueueResends
<1>11. CASE TakeEntries
  BY <1>11 DEF TakeEntries
<1>12. CASE UNCHANGED vars
  BY <1>12 DEF vars
<1> QED BY <1>1, <1>2, <1>3, <1>4, <1>5, <1>6, <1>7, <1>8, <1>9, <1>10, <1>11,
           <1>12 DEF Next, AckStep
-----------------------------------------------------------------------------
\* The book is in order in every execution.
LEMMA BookAlways == Spec => []BookInvariant
<1>1. BookInvariant /\ [Next]_vars => BookInvariant'
  BY BookTypeStep, FreshStep, OneOwnerStep DEF BookInvariant
<1> QED BY <1>1, BookInit, PTL DEF Spec

\* The entries, their counters and the IO threads keep their types: an IO thread
\* in the middle of an acknowledge always has an entry, and no packet is resent
\* after the last resend.
THEOREM BookTypeCorrect == Spec => []TypeOK
<1>1. BookInvariant => TypeOK
  BY DEF BookInvariant
<1> QED BY <1>1, BookAlways, PTL

\* No listener of a registered packet is forgotten, whatever acknowledges,
\* resends and resets come in between.
THEOREM ListenerNeverForgotten == Spec => []ListenerKept
<1>1. Init => ListenerKept
  BY ManagerAssumption DEF Init, ListenerKept
<1> QED BY <1>1, KeptStep, BookAlways, PTL DEF Spec

\* The first half of ListenerOnce, for packet ids of any number of generations:
\* duplicated acknowledges on several threads and a reset call a listener once.
CalledOnce == \A i \in Ids : Len(called[i]) <= 1

\* "move it out so nobody else could call it as well"
THEOREM ListenerCalledOnce == Spec => []CalledOnce
<1>1. BookInvariant => CalledOnce
  BY DEF BookInvariant, OneOwner, CalledOnce
<1> QED BY <1>1, BookAlways, PTL

\* Within one generation of packet ids the one call also tells the truth: TRUE
\* only if the packet has reached the peer.
THEOREM ListenerToldRight ==
  ASSUME OneGeneration
  PROVE  Spec => []ListenerOnce
<1>1. Init => ToldRight
  BY FirstCall DEF Init, ToldRight
<1>2. BookInvariant /\ ToldRight /\ [Next]_vars => ToldRight'
  BY ToldStep, OneGeneration
<1>3. BookInvariant /\ ToldRight => ListenerOnce
  BY DEF BookInvariant, OneOwner, ToldRight, ListenerOnce
<1> QED BY <1>1, <1>2, <1>3, BookAlways, PTL DEF Spec
===============================================================================
