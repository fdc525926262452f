---------------------------- MODULE PacketEncoder ----------------------------
(***************************************************************************)
(* The two write queues of a voice client (client/voice/PacketEncoder.cpp) *)
(* and the write path of the UDP socket (server/VoiceServerSocket.cpp,     *)
(* server/VoiceServer.h).  The queues are singly linked lists of packets   *)
(* with a pointer to the location of the last null pointer, so a location  *)
(* (ptr) is the next field of a packet or one of the two heads.  Packets   *)
(* are reference counted and encrypted in place.                           *)
(*                                                                         *)
(* Actors: one thread per message that is sent, one of which may be the    *)
(* handshake and call encrypt_pending_packets; the tick thread that        *)
(* resends; one event loop per write event of the socket.  Each critical   *)
(* section of write_queue_mutex, entry_lock and the socket's mutex is one  *)
(* step.                                                                   *)
(***************************************************************************)
EXTENDS Integers, Sequences, FiniteSets

CONSTANTS Packets,
          Commands,     \* messages sent by send_command: sequences of packets
          Plain,        \* messages sent by send_packet: sequences of length 1
          Handshake,    \* the command after which the pending packets are
                        \* encrypted (a subset of Commands, at most one)
          WriteEvents,  \* number of write events, numbered from 0
          MaxResends,   \* bound on the entries that are found due
          Null, SendHead, EncryptHead

Messages == Commands \cup Plain
ElementsOf(m) == {m[i] : i \in 1..Len(m)}
Writers == 0..(WriteEvents - 1)
Heads == {SendHead, EncryptHead}

ASSUME EncoderAssumption ==
  /\ WriteEvents \in Nat \ {0} /\ MaxResends \in Nat
  /\ Handshake \subseteq Commands /\ \A m, n \in Handshake : m = n
  /\ \A m \in Messages : m \in Seq(Packets) /\ m # <<>>
  /\ \A m \in Plain : Len(m) = 1
  \* every packet of every message is allocated for it
  /\ \A m \in Messages : \A i, j \in 1..Len(m) : m[i] = m[j] => i = j
  /\ \A m, n \in Messages : m # n => ElementsOf(m) \cap ElementsOf(n) = {}
  /\ Null \notin Packets /\ Heads \cap (Packets \cup {Null}) = {}
  /\ SendHead # EncryptHead

VARIABLES
  ptr,           \* content of a location
  send_queue_tail, encrypt_queue_tail,   \* locations
  refs,          \* reference count of a packet
  crypt,         \* how often a packet's buffer was encrypted
  progress,      \* per message: steps its sender has made
  taken,         \* what encrypt_pending_packets holds: [head, tail, current]
  entries,       \* packets with an entry in the acknowledge manager
  resends,       \* entries that were found due
  buffer,        \* the packet the tick thread resends, or Null
  request,       \* the tick thread has to request a write
  requests,      \* entries of this client in write_client_queue
  armed,         \* pending write events
  write_index,   \* network_write_index modulo the number of events
  pc, packet, data_pending, more_clients,   \* locals of network_event_write
  wire,          \* history: <<packet, crypt>> of every datagram written
  dropped,       \* history: packets dropped after a socket error
  disorder,      \* history: what has disturbed the queues
  unrequested    \* history: packets queued without a write request after it

queueVars == <<ptr, send_queue_tail, encrypt_queue_tail>>
senderVars == <<progress, taken>>
tickVars == <<entries, resends, buffer, request>>
socketVars == <<requests, armed, write_index>>
writerVars == <<pc, packet, data_pending, more_clients>>
history == <<wire, dropped, disorder, unrequested>>
vars == <<queueVars, refs, crypt, senderVars, tickVars, socketVars,
          writerVars, history>>

NothingTaken == [head |-> Null, tail |-> EncryptHead, current |-> Null]

Init ==
  /\ ptr = [l \in Packets \cup Heads |-> Null]
  /\ send_queue_tail = SendHead /\ encrypt_queue_tail = EncryptHead
  /\ refs = [p \in Packets |-> 0]
  /\ crypt = [p \in Packets |-> 0]
  /\ progress = [m \in Messages |-> 0]
  /\ taken = NothingTaken
  /\ entries = {} /\ resends = 0
  /\ buffer = Null /\ request = FALSE
  /\ requests = 0 /\ armed = {} /\ write_index = 0
  /\ pc = [w \in Writers |-> "idle"]
  /\ packet = [w \in Writers |-> Null]
  /\ data_pending = [w \in Writers |-> FALSE]
  /\ more_clients = [w \in Writers |-> FALSE]
  /\ wire = {} /\ dropped = {} /\ disorder = {} /\ unrequested = {}
-----------------------------------------------------------------------------
\* The list that begins with x (Null for the empty one) when the locations
\* have the contents q: the least set of packets that holds x and what the
\* next fields of its members point to.
Linked(q, S) == \A p \in S : q[p] \in S \cup {Null}
ListFrom(q, x) == {p \in Packets : \A S \in SUBSET Packets :
                                    Linked(q, S) /\ x \in S \cup {Null} => p \in S}
QueueOf(h) == ListFrom(ptr, ptr[h])

\* Mutant: the index of the next write event is not wrapped.
NextEventUnwrapped(i) == i + 1

\* The write events are armed in turn.
NextEvent(i) == (i + 1) % WriteEvents

\* enqueue_client_write and enqueue_network_write, under the socket's mutex
RequestWrite == /\ requests' = requests + 1
                /\ armed' = armed \cup {write_index}
                /\ write_index' = NextEvent(write_index)

\* The packets of a message are allocated and linked (private to the sender).
\* Step numbers: 1..Len(m) register a packet, then enqueue, then request.
BuildMessage(m) ==
  /\ progress[m] = 0
  /\ ptr' = [l \in DOMAIN ptr |->
               IF \E i \in 1..(Len(m) - 1) : m[i] = l
               THEN m[1 + CHOOSE i \in 1..(Len(m) - 1) : m[i] = l] ELSE ptr[l]]
  /\ refs' = [p \in Packets |-> IF p \in ElementsOf(m) THEN 1 ELSE refs[p]]
  /\ progress' = [progress EXCEPT ![m] = IF m \in Commands THEN 1 ELSE Len(m) + 1]
  /\ UNCHANGED <<send_queue_tail, encrypt_queue_tail, crypt, taken, tickVars,
                 socketVars, writerVars, history>>

\* process_packet for the next packet of a command
RegisterPacket(m) ==
  /\ progress[m] \in 1..Len(m)
  /\ entries' = entries \cup {m[progress[m]]}
  /\ refs' = [refs EXCEPT ![m[progress[m]]] = @ + 1]
  /\ progress' = [progress EXCEPT ![m] = @ + 1]
  /\ UNCHANGED <<queueVars, crypt, taken, resends, buffer, request,
                 socketVars, writerVars, history>>

\* The message is appended to the encrypt queue.
EnqueueMessage(m) ==
  /\ progress[m] = Len(m) + 1
  /\ ptr' = [ptr EXCEPT ![encrypt_queue_tail] = m[1]]
  /\ encrypt_queue_tail' = m[Len(m)]
  /\ progress' = [progress EXCEPT ![m] = @ + 1]
  /\ UNCHANGED <<send_queue_tail, refs, crypt, taken, tickVars, socketVars,
                 writerVars, history>>

\* callback_request_write
RequestMessageWrite(m) ==
  /\ progress[m] = Len(m) + 2
  /\ RequestWrite
  /\ progress' = [progress EXCEPT ![m] = @ + 1]
  /\ UNCHANGED <<queueVars, refs, crypt, taken, tickVars, writerVars, history>>

\* encrypt_pending_packets: the encrypt queue is taken, even if a write loop
\* has emptied it already and its tail is the location of its own head, ...
TakePending(m) ==
  /\ m \in Handshake /\ progress[m] = Len(m) + 3
  /\ taken' = [head |-> ptr[EncryptHead], tail |-> encrypt_queue_tail,
               current |-> ptr[EncryptHead]]
  /\ ptr' = [ptr EXCEPT ![EncryptHead] = Null]
  /\ encrypt_queue_tail' = EncryptHead
  /\ progress' = [progress EXCEPT ![m] = @ + 1]
  /\ disorder' = IF ptr[EncryptHead] = Null THEN disorder \cup {"overtaken"}
                                             ELSE disorder
  /\ UNCHANGED <<send_queue_tail, refs, crypt, tickVars, socketVars,
                 writerVars, wire, dropped, unrequested>>

\* ... its packets are encrypted one after the other ...
EncryptTaken(m) ==
  /\ progress[m] = Len(m) + 4 /\ taken.current # Null
  /\ crypt' = [crypt EXCEPT ![taken.current] = @ + 1]
  /\ taken' = [taken EXCEPT !.current = ptr[@]]
  /\ UNCHANGED <<queueVars, refs, progress, tickVars, socketVars, writerVars,
                 history>>

\* ... and appended to the send queue.
AppendTaken(m) ==
  /\ progress[m] = Len(m) + 4 /\ taken.current = Null
  /\ ptr' = [ptr EXCEPT ![send_queue_tail] = taken.head]
  /\ send_queue_tail' = taken.tail
  /\ taken' = NothingTaken
  /\ progress' = [progress EXCEPT ![m] = @ + 1]
  /\ unrequested' = unrequested \cup ListFrom(ptr, taken.head)
  /\ UNCHANGED <<encrypt_queue_tail, refs, crypt, tickVars, socketVars,
                 writerVars, wire, dropped, disorder>>

Sender(m) == \/ BuildMessage(m) \/ RegisterPacket(m) \/ EnqueueMessage(m)
             \/ RequestMessageWrite(m)
             \/ TakePending(m) \/ EncryptTaken(m) \/ AppendTaken(m)
-----------------------------------------------------------------------------
\* The packets that were written, and those in the hands of writers at l.
Written == {d[1] : d \in wire} \cup dropped
InHand(l) == {packet[w] : w \in {v \in Writers : pc[v] = l}}

\* AcknowledgeManager::execute_resend finds an entry due; several entries that
\* are due at once are taken one after the other.
TakeDue(p) ==
  /\ buffer = Null /\ ~request
  /\ p \in entries /\ resends < MaxResends
  /\ resends' = resends + 1
  /\ buffer' = p
  /\ UNCHANGED <<queueVars, refs, crypt, senderVars, entries, request,
                 socketVars, writerVars, history>>

\* "Test if the packet is still in the write/enqueue queue"
StillQueued(p) == \/ ptr[p] # Null
                  \/ p \in {encrypt_queue_tail, send_queue_tail}

\* The last owner of an entry that left the list drops the packet.
EntryReleased(p) == IF p \in entries THEN 0 ELSE 1

\* Mutant: the write queue gets no reference of its own.
ResendUnreferenced(p) == refs[p] - EntryReleased(p)

\* packet->ref(): "for the write queue again"
ResendReferenced(p) == refs[p] + 1 - EntryReleased(p)

\* PacketEncoder::execute_resend, under write_queue_mutex.  A packet that is
\* in no queue because it is not there yet, or because encrypt_pending_packets
\* or a write loop holds it, is appended like one that was written.
QueueResend ==
  /\ buffer # Null
  /\ \/ /\ StillQueued(buffer)
        /\ refs' = [refs EXCEPT ![buffer] = @ - EntryReleased(buffer)]
        /\ UNCHANGED <<queueVars, disorder>>
     \/ /\ ~StillQueued(buffer)
        /\ refs' = [refs EXCEPT ![buffer] = ResendReferenced(buffer)]
        /\ ptr' = [ptr EXCEPT ![send_queue_tail] = buffer]
        /\ send_queue_tail' = buffer
        /\ disorder' = IF buffer \in Written \cup InHand("write") THEN disorder
                                             ELSE disorder \cup {"premature"}
        /\ UNCHANGED encrypt_queue_tail
  /\ buffer' = Null /\ request' = TRUE
  /\ UNCHANGED <<crypt, senderVars, entries, resends, socketVars, writerVars, wire,
                 dropped, unrequested>>

RequestResendWrite ==
  /\ request
  /\ request' = FALSE
  /\ RequestWrite
  /\ UNCHANGED <<queueVars, refs, crypt, senderVars, entries, resends,
                 buffer, writerVars, history>>

\* The last acknowledge of a packet arrives: the entry is erased.
Acknowledge(p) ==
  /\ p \in entries /\ p \in {d[1] : d \in wire}
  /\ entries' = entries \ {p}
  /\ refs' = IF p = buffer THEN refs ELSE [refs EXCEPT ![p] = @ - 1]
  /\ UNCHANGED <<queueVars, crypt, senderVars, resends, buffer, request,
                 socketVars, writerVars, history>>
-----------------------------------------------------------------------------
Goto(w, l) == pc' = [pc EXCEPT ![w] = l]

\* A pending write event is activated: network_event_write begins.
Fire(w) ==
  /\ pc[w] = "idle" /\ w \in armed
  /\ armed' = armed \ {w}
  /\ more_clients' = [more_clients EXCEPT ![w] = TRUE]
  /\ Goto(w, "clients")
  /\ UNCHANGED <<queueVars, refs, crypt, senderVars, tickVars, requests,
                 write_index, packet, data_pending, history>>

\* pop_voice_write_queue's result, when n clients were in the queue
MoreClients(n) == n > 1

\* pop_voice_write_queue
PopClient(w) ==
  /\ pc[w] = "clients"
  /\ \/ /\ requests > 0
        /\ requests' = requests - 1
        /\ more_clients' = [more_clients EXCEPT ![w] = MoreClients(requests)]
        /\ data_pending' = [data_pending EXCEPT ![w] = TRUE]
        /\ Goto(w, "pop")
     \/ /\ requests = 0
        /\ more_clients' = [more_clients EXCEPT ![w] = FALSE]
        /\ Goto(w, "end")
        /\ UNCHANGED <<requests, data_pending>>
  /\ UNCHANGED <<queueVars, refs, crypt, senderVars, tickVars, armed,
                 write_index, packet, history>>

\* write_timeout has passed
TimeOut(w) ==
  /\ \/ pc[w] = "clients" /\ Goto(w, "end")
     \/ pc[w] = "pop" /\ Goto(w, "requeue")
  /\ UNCHANGED <<queueVars, refs, crypt, senderVars, tickVars, socketVars,
                 packet, data_pending, more_clients, history>>

\* Where the loop over one client's packets goes on.
NextPacket(w) == Goto(w, IF data_pending[w] THEN "pop" ELSE "clients")

\* The contents of the locations after the packet `p` at head h was taken out.
Popped(h, p) == [ptr EXCEPT ![h] = ptr[p], ![p] = Null]

\* Mutant: the tail of an emptied queue keeps pointing at the popped packet.
TailKept(h, p, tail) == tail

\* The tail is reset when the queue is emptied.
TailAfterPop(h, p, tail) == IF ptr[p] = Null THEN h ELSE tail

\* Mutant: packets of the send queue are encrypted once more.
NeedEncryptAlways(h) == TRUE

\* need_encrypt
NeedEncrypt(h) == h = EncryptHead


\* more_packets
MorePackets(q) == \E h \in Heads : q[h] # Null

\* pop_write_buffer
PopPacket(w) ==
  LET h == IF ptr[SendHead] # Null THEN SendHead ELSE EncryptHead
      p == ptr[h]
  IN
  /\ pc[w] = "pop"
  /\ \/ /\ p = Null
        /\ packet' = [packet EXCEPT ![w] = Null]
        /\ data_pending' = [data_pending EXCEPT ![w] = FALSE]
        /\ Goto(w, "clients")
        /\ UNCHANGED queueVars
     \/ /\ p # Null
        /\ packet' = [packet EXCEPT ![w] = p]
        /\ ptr' = Popped(h, p)
        /\ data_pending' = [data_pending EXCEPT ![w] = MorePackets(Popped(h, p))]
        /\ Goto(w, IF NeedEncrypt(h) THEN "encrypt" ELSE "write")
        /\ \/ /\ h = SendHead
              /\ send_queue_tail' = TailAfterPop(h, p, send_queue_tail)
              /\ UNCHANGED encrypt_queue_tail
           \/ /\ h = EncryptHead
              /\ encrypt_queue_tail' = TailAfterPop(h, p, encrypt_queue_tail)
              /\ UNCHANGED send_queue_tail
  /\ UNCHANGED <<refs, crypt, senderVars, tickVars, socketVars, more_clients,
                 history>>

\* encrypt_outgoing_packet, after the unlock
EncryptPacket(w) ==
  /\ pc[w] = "encrypt"
  /\ crypt' = [crypt EXCEPT ![packet[w]] = @ + 1]
  /\ Goto(w, "write")
  /\ UNCHANGED <<queueVars, refs, senderVars, tickVars, socketVars, packet,
                 data_pending, more_clients, history>>

\* write_datagram succeeds
WritePacket(w) ==
  /\ pc[w] = "write"
  /\ wire' = wire \cup {<<packet[w], crypt[packet[w]]>>}
  /\ refs' = [refs EXCEPT ![packet[w]] = @ - 1]
  /\ packet' = [packet EXCEPT ![w] = Null]
  /\ NextPacket(w)
  /\ UNCHANGED <<queueVars, crypt, senderVars, tickVars, socketVars,
                 data_pending, more_clients, dropped, disorder,
                 unrequested>>

\* write_datagram fails with another error than EAGAIN: "Dropping packet!".
\* The local variable `packet` keeps its value.
DropPacket(w) ==
  /\ pc[w] = "write"
  /\ dropped' = dropped \cup {packet[w]}
  /\ refs' = [refs EXCEPT ![packet[w]] = @ - 1]
  /\ Goto(w, IF data_pending[w] THEN "requeue" ELSE "clients")
  /\ UNCHANGED <<queueVars, crypt, senderVars, tickVars, socketVars, packet,
                 data_pending, more_clients, wire, disorder,
                 unrequested>>

\* EAGAIN: reenqueue_failed_buffer, then network_event_write returns.
ReenqueueFailed(w) ==
  LET p == packet[w] IN
  /\ pc[w] = "write"
  /\ \/ StillQueued(p) /\ UNCHANGED queueVars
     \/ /\ ~StillQueued(p)
        /\ send_queue_tail' = IF ptr[SendHead] = Null THEN p ELSE send_queue_tail
        /\ ptr' = [ptr EXCEPT ![p] = ptr[SendHead], ![SendHead] = p]
        /\ UNCHANGED encrypt_queue_tail
  /\ Goto(w, "idle")
  /\ packet' = [packet EXCEPT ![w] = Null]
  /\ data_pending' = [data_pending EXCEPT ![w] = FALSE]
  /\ more_clients' = [more_clients EXCEPT ![w] = FALSE]
  /\ unrequested' = unrequested \cup {p} \cup QueueOf(SendHead) \cup QueueOf(EncryptHead)
  /\ UNCHANGED <<refs, crypt, senderVars, tickVars, socketVars, wire, dropped,
                 disorder>>

\* "we exceeded the max write time, rescheduling write"
Requeue(w) ==
  /\ pc[w] = "requeue"
  /\ RequestWrite
  /\ more_clients' = [more_clients EXCEPT ![w] = TRUE]
  /\ Goto(w, "clients")
  /\ UNCHANGED <<queueVars, refs, crypt, senderVars, tickVars, packet,
                 data_pending, history>>

\* The end of network_event_write
Finish(w) ==
  /\ pc[w] = "end"
  /\ armed' = IF more_clients[w] THEN armed \cup {w} ELSE armed
  /\ Goto(w, "idle")
  /\ packet' = [packet EXCEPT ![w] = Null]
  /\ data_pending' = [data_pending EXCEPT ![w] = FALSE]
  /\ more_clients' = [more_clients EXCEPT ![w] = FALSE]
  /\ UNCHANGED <<queueVars, refs, crypt, senderVars, tickVars, requests,
                 write_index, history>>

Writer(w) == \/ Fire(w) \/ PopClient(w) \/ PopPacket(w) \/ EncryptPacket(w)
             \/ WritePacket(w) \/ DropPacket(w) \/ ReenqueueFailed(w)
             \/ Requeue(w) \/ Finish(w)

Next == \/ \E m \in Messages : Sender(m)
        \/ \E p \in Packets : TakeDue(p) \/ Acknowledge(p)
        \/ QueueResend \/ RequestResendWrite
        \/ \E w \in Writers : Writer(w) \/ TimeOut(w)

Spec == Init /\ [][Next]_vars
-----------------------------------------------------------------------------
TypeOK ==
  /\ ptr \in [Packets \cup Heads -> Packets \cup {Null}]
  /\ send_queue_tail \in Packets \cup Heads
  /\ encrypt_queue_tail \in Packets \cup Heads
  /\ refs \in [Packets -> Int]
  /\ crypt \in [Packets -> Nat]
  /\ progress \in [Messages -> Nat]
  /\ taken \in [head : Packets \cup {Null}, tail : Packets \cup Heads,
                current : Packets \cup {Null}]
  /\ entries \subseteq Packets
  /\ resends \in 0..MaxResends
  /\ buffer \in Packets \cup {Null} /\ request \in BOOLEAN
  /\ requests \in Nat /\ armed \subseteq Writers /\ write_index \in Writers
  /\ pc \in [Writers -> {"idle", "clients", "pop", "encrypt", "write",
                         "requeue", "end"}]
  /\ packet \in [Writers -> Packets \cup {Null}]
  /\ data_pending \in [Writers -> BOOLEAN]
  /\ more_clients \in [Writers -> BOOLEAN]
  /\ wire \subseteq Packets \X Nat /\ dropped \subseteq Packets
  /\ disorder \subseteq {"overtaken", "premature"}
  /\ unrequested \subseteq Packets

(***************************************************************************)
(* Two steps of the code disturb the queues: encrypt_pending_packets takes *)
(* an encrypt queue that is empty, and a resend appends a packet that has  *)
(* not been encrypted and written.  Until then the queues are in order.    *)
(***************************************************************************)
Ordered == disorder = {}

(***************************************************************************)
(* The four assertions of pop_write_buffer: the packet at the front of the *)
(* queue it takes from is the last one exactly if the tail points to it.   *)
(***************************************************************************)
PopAssertions ==
  (\E w \in Writers : pc[w] = "pop") =>
    LET h == IF ptr[SendHead] # Null THEN SendHead ELSE EncryptHead
        tail == IF h = SendHead THEN send_queue_tail ELSE encrypt_queue_tail
    IN  ptr[h] # Null => (ptr[ptr[h]] = Null <=> tail = ptr[h])

(***************************************************************************)
(* What these assertions rest on: the tail of each queue is the location   *)
(* at which its list ends, and no packet is in both queues.                *)
(***************************************************************************)
QueuesWellFormed ==
  Ordered =>
    /\ \A q \in {<<SendHead, send_queue_tail>>, <<EncryptHead, encrypt_queue_tail>>} :
         /\ q[2] \in QueueOf(q[1]) \cup {q[1]}
         /\ ptr[q[2]] = Null
    /\ QueueOf(SendHead) \cap QueueOf(EncryptHead) = {}

(***************************************************************************)
(* "it will be encrypted with the next write": no datagram leaves before   *)
(* its packet was encrypted, or after it was encrypted twice.              *)
(***************************************************************************)
EncryptedOnce == Ordered => \A d \in wire : d[2] = 1

(***************************************************************************)
(* No packet is freed while a queue, a writer, an entry or the tick thread *)
(* refers to it, and none is released twice, in disorder as well.          *)
(***************************************************************************)
InUse == QueueOf(SendHead) \cup QueueOf(EncryptHead) \cup entries
           \cup ({buffer} \ {Null}) \cup InHand("encrypt") \cup InHand("write")
NoUseAfterFree == /\ \A p \in InUse : refs[p] > 0
                  /\ \A p \in Packets : refs[p] >= 0

(***************************************************************************)
(* When every sender, the tick thread and the event loops have nothing     *)
(* left to do, no packet waits in a queue, except those queued after the   *)
(* last write request: re-enqueued because the socket was full, or         *)
(* appended by encrypt_pending_packets.                                    *)
(***************************************************************************)
Quiet ==
  /\ \A m \in Messages : progress[m] \in {0} \cup (Len(m) + 3)..(Len(m) + 5)
  /\ buffer = Null /\ ~request /\ armed = {}
  /\ \A w \in Writers : pc[w] = "idle"
NothingStranded ==
  Quiet => /\ requests = 0
           /\ QueueOf(SendHead) \cup QueueOf(EncryptHead) \subseteq unrequested
=============================================================================
