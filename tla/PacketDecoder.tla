---------------------------- MODULE PacketDecoder ----------------------------
(***************************************************************************)
(* The receiving side of the command channel: process_incoming_data and    *)
(* try_reassemble_ordered_packet (protocol/PacketDecoder.cpp), called from *)
(* VoiceClientConnection::handle_incoming_datagram by the IO threads.  A   *)
(* server socket has several read events on different event loops, so      *)
(* datagrams of one client may be processed by several threads at once.    *)
(*                                                                         *)
(* The peer's command packets are numbered by n; on the wire packet n has  *)
(* id n % IdSpace.  A command is a run of packets first..last; when it has *)
(* more than one packet the first and the last carry PacketFlag::Fragmented*)
(* (the flag toggles "inside a command").  Packets are lost, duplicated    *)
(* and reordered: any packet may arrive at any time and any number of      *)
(* times.                                                                  *)
(***************************************************************************)
EXTENDS GenerationEstimator, RingBuffer, Sequences, FiniteSets

CONSTANTS IoThreads,
          Commands,     \* sequence of [first, last, flaw] records
          NoPacket

CommandRecords == [first : Nat, last : Nat,
                   flaw : {"none", "decompress", "large"}]

FirstPacket == Commands[1].first
LastPacket == Commands[Len(Commands)].last
Packets == FirstPacket..LastPacket

ASSUME DecoderAssumption ==
  /\ IndexSpace = IdSpace * GenerationSpace /\ LastPacket < IndexSpace
  /\ Commands \in Seq(CommandRecords)
  /\ Len(Commands) > 0 /\ FirstPacket > 0
  /\ \A k \in 1..Len(Commands) :
       /\ Commands[k].first <= Commands[k].last
       /\ k > 1 => Commands[k].first = Commands[k - 1].last + 1
  /\ NoPacket = Unset /\ NoPacket \notin Packets

VARIABLES
  estimator,      \* incoming_generation_estimators[COMMAND]
  ring,           \* _command_fragment_buffers[COMMAND]
  pc,             \* per IO thread
  packet,         \* per IO thread: the datagram it processes
  generation,     \* per IO thread: the packet's estimated_generation
  command,        \* per IO thread: the reassembled command (its packets)
  more,           \* per IO thread: more_commands_pending
  newest,         \* history: newest packet that arrived
  strayed,        \* history: one arrived beyond OverflowWindow of the newest
  acknowledged,   \* packets an acknowledge was sent for
  decoded         \* commands given to callback_decoded_command, in order

threadVars == <<pc, packet, generation, command, more>>
vars == <<estimator, ring, threadVars, newest, strayed, acknowledged, decoded>>

PacketsOf(k) == [i \in 1..(Commands[k].last - Commands[k].first + 1) |->
                   Commands[k].first + i - 1]

Fragmented(n) == \E k \in 1..Len(Commands) :
                   /\ Commands[k].first # Commands[k].last
                   /\ n \in {Commands[k].first, Commands[k].last}

\* Why the decompression of a reassembled command fails, or "none".  Bytes
\* that are no command of the peer count as decodable: ExactlyOnce notices.
FlawOf(c) == LET ks == {k \in 1..Len(Commands) : PacketsOf(k) = c}
             IN  IF ks = {} THEN "none" ELSE Commands[CHOOSE k \in ks : TRUE].flaw

\* All packets before FirstPacket were received and consumed (at least the
\* clientinitiv packet 0: register_initiv_packet).
Init ==
  /\ estimator = [last_generation |-> (FirstPacket - 1) \div IdSpace,
                  last_packet_id |-> (FirstPacket - 1) % IdSpace]
  /\ ring = EmptyRing(FirstPacket)
  /\ pc = [t \in IoThreads |-> "idle"]
  /\ packet = [t \in IoThreads |-> NoPacket]
  /\ generation = [t \in IoThreads |-> 0]
  /\ command = [t \in IoThreads |-> <<>>]
  /\ more = [t \in IoThreads |-> FALSE]
  /\ newest = FirstPacket - 1
  /\ strayed = FALSE
  /\ acknowledged = {}
  /\ decoded = <<>>

\* process_incoming_data returns.  The results are not told apart: whichever
\* it is, the caller logs it at most ("FIXME: Disconnect the client").
Return(t) == /\ pc' = [pc EXCEPT ![t] = "idle"]
             /\ packet' = [packet EXCEPT ![t] = NoPacket]
             /\ generation' = [generation EXCEPT ![t] = 0]
             /\ command' = [command EXCEPT ![t] = <<>>]
             /\ more' = [more EXCEPT ![t] = FALSE]

\* A datagram arrives and is stamped with its estimated generation, under
\* incoming_generation_estimator_lock.
Receive(t, n) ==
  LET v == visit_packet(estimator, n % IdSpace) IN
  /\ pc[t] = "idle"
  /\ newest' = IF n > newest THEN n ELSE newest
  /\ strayed' = (strayed \/ n \notin (newest - OverflowWindow)..(newest + OverflowWindow))
  /\ estimator' = v.estimator
  /\ generation' = [generation EXCEPT ![t] = v.generation]
  /\ packet' = [packet EXCEPT ![t] = n]
  /\ pc' = [pc EXCEPT ![t] = "received"]
  /\ UNCHANGED <<ring, command, more, acknowledged, decoded>>

\* The number of packets from a Fragmented front to the next Fragmented one,
\* or to the first empty slot, or Capacity.
SequenceEnd(r) ==
  CHOOSE e \in 1..Capacity :
    /\ e = Capacity \/ ~slot_set(r, e) \/ Fragmented(slot_value(r, e))
    /\ \A i \in 1..(e - 1) : slot_set(r, i) /\ ~Fragmented(slot_value(r, i))

\* Number of packets of the command at the front; 0 when it is incomplete,
\* -1 when it is longer than the ring.
FrontLength(r) ==
  CASE ~front_set(r) -> 0
    [] front_set(r) /\ ~Fragmented(slot_value(r, 0)) -> 1
    [] front_set(r) /\ Fragmented(slot_value(r, 0)) ->
         LET e == SequenceEnd(r)
         IN  IF e = Capacity THEN -1
             ELSE IF ~slot_set(r, e) THEN 0 ELSE e + 1

\* Mutant: the loop ends after one command.
NeverMore(r) == FALSE

\* more_commands_pending
MoreCommandsPending(r) == front_set(r)

\* try_reassemble_ordered_packet on ring r, up to the callback: buffer_lock
\* is held from the insertion (or the lock() of a further round) to the end
\* of the pops; the decompression after the unlock touches no shared state.
Reassemble(t, r) ==
  LET len == FrontLength(r)
      cmd == [i \in 1..len |-> slot_value(r, i - 1)]
  IN
  \/ /\ len <= 0                     \* nothing pending, or too long
     /\ ring' = r
     /\ Return(t)
  \/ /\ len > 0
     /\ ring' = PopFront(r, len)
     /\ \/ /\ FlawOf(cmd) # "none"     \* returns without another round
           /\ Return(t)
        \/ /\ FlawOf(cmd) = "none"
           /\ command' = [command EXCEPT ![t] = cmd]
           /\ more' = [more EXCEPT ![t] = MoreCommandsPending(PopFront(r, len))]
           /\ pc' = [pc EXCEPT ![t] = "deliver"]
           /\ UNCHANGED <<packet, generation>>

\* callback_send_acknowledge
SendAcknowledge(n) == acknowledged' = acknowledged \cup {n}

\* Mutant: a full ring acknowledges what it drops.
AcknowledgesOverflow(r) == r \in {"underflow", "overflow", "success"}

\* The results of insert_index2 after which an acknowledge is sent.
Acknowledges(r) == r \in {"underflow", "success"}

\* full_packet_id: 16 bits of generation above the packet id
FullPacketId(t) == (generation[t] * IdSpace) + (packet[t] % IdSpace)

\* decrypt_incoming_packet: key and nonce are made from the packet id and
\* the estimated generation, so a wrong estimate makes decryption fail.  The
\* model is of the time after the handshake: packets that are not encrypted
\* and the default key tried for the ids below 10 of generation 0 are left out.
Decrypts(t) == FullPacketId(t) = packet[t]

\* Decryption, insertion into the ring, acknowledge, and the first attempt
\* to reassemble, which happens before buffer_lock is released.
Store(t) ==
  LET n == packet[t]
      full == FullPacketId(t)
      r == InsertResult(ring, full)
  IN
  /\ pc[t] = "received"
  /\ \/ /\ ~Decrypts(t)
        /\ Return(t)
        /\ UNCHANGED <<ring, acknowledged>>
     \/ /\ Decrypts(t)
        /\ IF Acknowledges(r) THEN SendAcknowledge(n)
                              ELSE UNCHANGED acknowledged
        /\ \/ /\ r # "success"
              /\ Return(t)
              /\ UNCHANGED ring
           \/ /\ r = "success"
              /\ Reassemble(t, Insert(ring, full, n))
  /\ UNCHANGED <<estimator, newest, strayed, decoded>>

\* Mutant: the callback is called for SUCCESS only.
DecodedIfLast(t) == IF more[t] THEN decoded ELSE Append(decoded, command[t])

\* callback_decoded_command, for SUCCESS and for MORE_COMMANDS_PENDING
Decoded(t) == Append(decoded, command[t])

\* The callback, outside all locks.
Deliver(t) ==
  /\ pc[t] = "deliver"
  /\ decoded' = Decoded(t)
  /\ \/ /\ more[t]
        /\ pc' = [pc EXCEPT ![t] = "again"]
        /\ command' = [command EXCEPT ![t] = <<>>]
        /\ UNCHANGED <<packet, generation, more>>
     \/ /\ ~more[t]
        /\ Return(t)
  /\ UNCHANGED <<estimator, ring, newest, strayed, acknowledged>>

\* MORE_COMMANDS_PENDING: another round of the loop, with the lock taken anew.
ReassembleMore(t) ==
  /\ pc[t] = "again"
  /\ Reassemble(t, ring)
  /\ UNCHANGED <<estimator, newest, strayed, acknowledged, decoded>>

ThreadStep(t) == Store(t) \/ Deliver(t) \/ ReassembleMore(t)

Next == \E t \in IoThreads : \/ \E n \in Packets : Receive(t, n)
                             \/ ThreadStep(t)

Spec == Init /\ [][Next]_vars

\* The oldest packet that is not acknowledged yet arrives (once more).
ReceiveOldest ==
  \E n \in Packets \ acknowledged :
    /\ \A k \in Packets : k < n => k \in acknowledged
    /\ \E t \in IoThreads : Receive(t, n)

\* The peer resends a packet until it is acknowledged, and not every copy is
\* lost; IO threads are not suspended for ever.
Fairness == /\ \A t \in IoThreads : WF_vars(ThreadStep(t))
            /\ SF_vars(ReceiveOldest)

FairSpec == Spec /\ Fairness
-----------------------------------------------------------------------------
Rings == [ring_index : 0..(IndexSpace - 1),
          ring_base_index : 0..(Capacity - 1),
          slots : [0..(Capacity - 1) -> Packets \cup {Unset}]]

TypeOK ==
  /\ estimator \in Estimators
  /\ ring \in Rings
  /\ pc \in [IoThreads -> {"idle", "received", "deliver", "again"}]
  /\ packet \in [IoThreads -> Packets \cup {NoPacket}]
  /\ \A t \in IoThreads : pc[t] = "received" => packet[t] # NoPacket
  /\ generation \in [IoThreads -> 0..(GenerationSpace - 1)]
  /\ command \in [IoThreads -> Seq(Packets)]
  /\ more \in [IoThreads -> BOOLEAN]
  /\ newest \in (FirstPacket - 1)..LastPacket
  /\ strayed \in BOOLEAN
  /\ acknowledged \subseteq Packets
  /\ decoded \in Seq(Seq(Packets))

Stored == {n \in Packets : \E i \in 0..(Capacity - 1) : ring.slots[i] = n}

(***************************************************************************)
(* The estimator remembers exactly the newest packet that arrived: late    *)
(* and duplicated ones never move it back or into another generation.      *)
(***************************************************************************)
TracksNewest == estimator = [last_generation |-> newest \div IdSpace,
                             last_packet_id |-> newest % IdSpace]

(***************************************************************************)
(* As long as no packet has arrived further than OverflowWindow away from  *)
(* the newest one, every generation is guessed right, across the wrap of   *)
(* the packet id and on any number of threads: nothing is dropped as       *)
(* undecryptable.                                                          *)
(***************************************************************************)
NeverMisjudged ==
  ~strayed => /\ TracksNewest
              /\ \A t \in IoThreads : pc[t] = "received" => Decrypts(t)

(***************************************************************************)
(* Each slot holds the packet of its index: the array position computed    *)
(* from the rotating base agrees with the packet numbers.                  *)
(***************************************************************************)
SlotsAligned ==
  \A r \in 0..(Capacity - 1) :
     slot_set(ring, r) => slot_value(ring, r) = ring.ring_index + r

(***************************************************************************)
(* "no action needed, acknowledge should be send already": a packet that   *)
(* is found in the ring has been acknowledged, so ignoring a duplicate of  *)
(* it is harmless.  What is acknowledged is not lost: it waits in the ring *)
(* or belongs to a command that was taken out; the peer never resends it.  *)
(***************************************************************************)
AcknowledgedIsKept ==
  /\ Stored \subseteq acknowledged
  /\ \A n \in acknowledged : n \in Stored \/ n < ring.ring_index

(***************************************************************************)
(* Every decoded command is one the peer sent, put together from exactly   *)
(* its packets, and no command is decoded twice, whatever the threads do.  *)
(***************************************************************************)
ExactlyOnce ==
  /\ \A i \in 1..Len(decoded) : \E k \in 1..Len(Commands) : decoded[i] = PacketsOf(k)
  /\ \A i, j \in 1..Len(decoded) : decoded[i] = decoded[j] => i = j

Delivered(k) == \E i \in 1..Len(decoded) : decoded[i] = PacketsOf(k)
InHands(k) == \E t \in IoThreads : pc[t] = "deliver" /\ command[t] = PacketsOf(k)
Sound(k) == Commands[k].flaw = "none"

(***************************************************************************)
(* The ring gives its commands away in the order of sending, and none is   *)
(* skipped: once it has moved past a command, that command was delivered   *)
(* or is in the hands of a thread that is about to deliver it.  So one     *)
(* command overtakes another only while a thread still holds the other.    *)
(***************************************************************************)
NoneSkipped ==
  \A k \in 1..Len(Commands) :
     Sound(k) /\ Commands[k].last < ring.ring_index => Delivered(k) \/ InHands(k)

\* The command before the front of the ring could not be decompressed.
BehindFailure == \E k \in 1..Len(Commands) :
                    ~Sound(k) /\ ring.ring_index = Commands[k].last + 1

(***************************************************************************)
(* When all threads have returned no complete command waits in the ring:   *)
(* the loop over MORE_COMMANDS_PENDING leaves nothing behind, except right *)
(* behind a command whose decompression failed, where the code returns out *)
(* of the loop.                                                            *)
(***************************************************************************)
NothingStranded ==
  (\A t \in IoThreads : pc[t] = "idle") => FrontLength(ring) <= 0 \/ BehindFailure

\* No command up to k fails to decompress or has more packets than slots.
Clean(k) == \A j \in 1..k : /\ Sound(j)
                           /\ Commands[j].last < Commands[j].first + Capacity

(***************************************************************************)
(* In spite of loss every command is eventually decoded that comes before  *)
(* the first one the decoder fails at, unless a packet arrived so late or  *)
(* so early that its generation may be misjudged.                          *)
(***************************************************************************)
EverythingDecoded ==
  <>(strayed \/ \A k \in 1..Len(Commands) : Clean(k) => Delivered(k))
=============================================================================
