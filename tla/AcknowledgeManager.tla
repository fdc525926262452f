------------------------- MODULE AcknowledgeManager -------------------------
(***************************************************************************)
(* The sending side's book of command packets that wait for an acknowledge *)
(* (protocol/AcknowledgeManager.{h,cpp}), with the part of                 *)
(* PacketEncoder::execute_resend that queues the copies.  Actors: threads  *)
(* that send commands, IO threads that process acknowledges, the tick      *)
(* thread that resends, and a thread that resets the connection.           *)
(*                                                                         *)
(* entry_lock protects the list of entries.  What an IO thread does after  *)
(* releasing it (setting `acknowledged`, a bit of the byte that also holds *)
(* send_count, and calling the listener) is a step of its own.             *)
(*                                                                         *)
(* An entry is named by its packet_full_id.  COMMAND and COMMAND_LOW       *)
(* entries are numbered and matched separately; the model has one type.    *)
(* The network loses, delays and duplicates: a registered packet may reach *)
(* the peer, and an acknowledge of a received packet may arrive, any       *)
(* number of times or never.                                               *)
(***************************************************************************)
EXTENDS Integers, Sequences, FiniteSets

CONSTANTS FirstId, LastId,   \* full ids of the command packets
          IdSpace,           \* packet ids on the wire (2^16 in the code)
          SendCountSpace,    \* values of send_count   (2^7 in the code)
          ResendLimit,       \* resends before giving up (15 in the code)
          MaxResends,        \* bound: after so many resends 15 s have passed
          IoThreads, NoPacket

Ids == FirstId..LastId

ASSUME ManagerAssumption ==
  /\ FirstId \in Nat /\ LastId \in Nat /\ FirstId <= LastId
  /\ IdSpace \in Nat \ {0}
  /\ SendCountSpace \in Nat /\ SendCountSpace > 1
  /\ ResendLimit \in Nat /\ MaxResends \in Nat /\ MaxResends > ResendLimit
  /\ NoPacket \notin Ids

VARIABLES
  next_id,       \* the next packet to register
  entries,       \* the list `entries`
  send_count, resend_count, acknowledged,   \* fields of an entry
  listener,      \* entry->acknowledge_listener is not null
  pc, held, moved, byte,   \* per IO thread: control, entry, ack_listener, register
  buffers,       \* entries the tick thread is going to queue
  resetting,     \* entries the reset took out of the list
  received,      \* history: packets that reached the peer
  called,        \* history: calls of a packet's listener
  failed,        \* history: packets reported to callback_resend_failed
  missed         \* history: waiting packets answered by "Missing packet id"

entryVars == <<send_count, resend_count, acknowledged, listener>>
threadVars == <<pc, held, moved, byte>>
vars == <<next_id, entries, entryVars, threadVars, buffers, resetting,
          received, called, failed, missed>>

Init ==
  /\ next_id = FirstId
  /\ entries = {}
  /\ send_count = [i \in Ids |-> 0]
  /\ resend_count = [i \in Ids |-> 0]
  /\ acknowledged = [i \in Ids |-> FALSE]
  /\ listener = [i \in Ids |-> FALSE]
  /\ pc = [t \in IoThreads |-> "idle"]
  /\ held = [t \in IoThreads |-> NoPacket]
  /\ moved = [t \in IoThreads |-> FALSE]
  /\ byte = [t \in IoThreads |-> 0]
  /\ buffers = {} /\ resetting = {}
  /\ received = {} /\ failed = {} /\ missed = {}
  /\ called = [i \in Ids |-> <<>>]

\* process_packet.  The packet is queued for its first transmission, too.
process_packet ==
  /\ next_id \in Ids
  /\ next_id' = next_id + 1
  /\ entries' = entries \cup {next_id}
  /\ send_count' = [send_count EXCEPT ![next_id] = 1]
  /\ listener' = [listener EXCEPT ![next_id] = TRUE]
  /\ UNCHANGED <<resend_count, acknowledged, threadVars, buffers, resetting,
                 received, called, failed, missed>>

\* A copy reaches the peer; the first one is queued with the registration.
Transmit(i) ==
  /\ i < next_id /\ i \notin received
  /\ received' = received \cup {i}
  /\ UNCHANGED <<next_id, entries, entryVars, threadVars, buffers, resetting,
                 called, failed, missed>>

\* target_id: the 16 bits of a packet's id that its acknowledge carries
TargetId(i) == i % IdSpace

\* IO threads about to set entry i's `acknowledged` outside the lock.
Marking(i) == {u \in IoThreads : pc[u] \in {"mark", "store"} /\ held[u] = i}

\* Mutant: the listener stays in the entry.
ListenerCopied(i) == listener

\* ack_listener = std::move(entry->acknowledge_listener)
ListenerMovedOut(i) == [listener EXCEPT ![i] = FALSE]

\* process_acknowledge, the part under entry_lock, when the entry is found.
\* The byte of send_count and `acknowledged` is written from a value loaded
\* before; the marks of the threads in `lost` were stored in between and are
\* overwritten (a data race).
AcknowledgeFound(t, i) ==
  LET e == TargetId(i)
      left == (send_count[e] - 1) % SendCountSpace
  IN
  /\ pc[t] = "idle" /\ i \in received
  /\ e \in entries
  /\ held' = [held EXCEPT ![t] = e]
  /\ moved' = [moved EXCEPT ![t] = listener[e]]
  /\ listener' = ListenerMovedOut(e)
  /\ send_count' = [send_count EXCEPT ![e] = left]
  /\ \/ left = 0 /\ entries' = entries \ {e}   \* and the RTO is updated
     \/ left # 0 /\ UNCHANGED entries
  /\ \E lost \in SUBSET Marking(e) :
       pc' = [u \in IoThreads |-> IF u = t THEN "mark"
                                  ELSE IF u \in lost THEN "call" ELSE pc[u]]
  /\ UNCHANGED <<next_id, resend_count, acknowledged, byte, buffers,
                 resetting, received, called, failed, missed>>

\* process_acknowledge when no entry has the target id: "Missing packet id".
AcknowledgeMissing(t, i) ==
  /\ pc[t] = "idle" /\ i \in received
  /\ TargetId(i) \notin entries
  /\ missed' = IF i \in entries THEN missed \cup {i} ELSE missed
  /\ UNCHANGED <<next_id, entries, entryVars, threadVars, buffers, resetting,
                 received, called, failed>>

\* entry->acknowledged = true: loads the byte, ...
LoadMark(t) ==
  /\ pc[t] = "mark"
  /\ byte' = [byte EXCEPT ![t] = send_count[held[t]]]
  /\ pc' = [pc EXCEPT ![t] = "store"]
  /\ UNCHANGED <<next_id, entries, entryVars, held, moved, buffers, resetting,
                 received, called, failed, missed>>

\* ... and stores it with the bit set.
StoreMark(t) ==
  /\ pc[t] = "store"
  /\ acknowledged' = [acknowledged EXCEPT ![held[t]] = TRUE]
  /\ send_count' = [send_count EXCEPT ![held[t]] = byte[t]]
  /\ pc' = [pc EXCEPT ![t] = "call"]
  /\ UNCHANGED <<next_id, entries, resend_count, listener, held, moved, byte,
                 buffers, resetting, received, called, failed,
                 missed>>

\* if(ack_listener) (*ack_listener)(true)
CallListener(t) ==
  /\ pc[t] = "call"
  /\ called' = IF moved[t] THEN [called EXCEPT ![held[t]] = Append(@, TRUE)]
                           ELSE called
  /\ pc' = [pc EXCEPT ![t] = "idle"]
  /\ held' = [held EXCEPT ![t] = NoPacket]
  /\ moved' = [moved EXCEPT ![t] = FALSE]
  /\ byte' = [byte EXCEPT ![t] = 0]
  /\ UNCHANGED <<next_id, entries, entryVars, buffers, resetting,
                 received, failed, missed>>

\* Waiting entries that may be resent, and those that are given up: the
\* clock decides which of them are due.
Resendable == {i \in entries : ~acknowledged[i] /\ resend_count[i] < MaxResends}
Exhausted == {i \in entries : ~acknowledged[i] /\ resend_count[i] > ResendLimit}

\* Mutants: entries that wait for an acknowledge are dropped, too; entries
\* are never dropped.
ExpirableUnmarked == entries
ExpirableNever == {}

\* Acknowledged entries some of whose resends stay unanswered.
Expirable == {i \in entries : acknowledged[i]}

\* Mutant: the counter is wider than its bit-field.
SentAgainUnbounded(i) == send_count[i] + 1

\* entry->send_count++, in the width of the bit-field
SentAgain(i) == (send_count[i] + 1) % SendCountSpace

\* AcknowledgeManager::execute_resend: one pass over the list under
\* entry_lock, then callback_resend_failed.
execute_resend(due, exhausted, expired) ==
  /\ buffers = {} /\ due \cup exhausted \cup expired # {}
  /\ due \subseteq Resendable /\ exhausted \subseteq Exhausted \ due
  /\ expired \subseteq Expirable
  /\ entries' = entries \ (exhausted \cup expired)
  /\ send_count' = [i \in Ids |-> IF i \in due THEN SentAgain(i)
                                                ELSE send_count[i]]
  /\ \E lost \in SUBSET UNION {Marking(i) : i \in due} :
       pc' = [u \in IoThreads |-> IF u \in lost THEN "call" ELSE pc[u]]
  /\ buffers' = due
  /\ failed' = failed \cup exhausted
  /\ UNCHANGED <<next_id, resend_count, acknowledged, listener, held, moved,
                 byte, resetting, received, called, missed>>

\* buffer->resend_count++
ResendCounted(queued) ==
  [i \in Ids |-> IF i \in queued THEN resend_count[i] + 1 ELSE resend_count[i]]

\* PacketEncoder::execute_resend under write_queue_mutex: the packets that
\* are not still in a queue are queued and counted, the others skipped.
QueueResends(queued) ==
  /\ buffers # {} /\ queued \subseteq buffers
  /\ resend_count' = ResendCounted(queued)
  /\ buffers' = {}
  /\ UNCHANGED <<next_id, entries, send_count, acknowledged, listener,
                 threadVars, resetting, received, called, failed,
                 missed>>

\* reset, under entry_lock
TakeEntries ==
  /\ resetting = {} /\ entries # {}
  /\ resetting' = entries
  /\ entries' = {}
  /\ UNCHANGED <<next_id, entryVars, threadVars, buffers, received,
                 called, failed, missed>>

\* (*entry->acknowledge_listener)(false)
Abandoned(i) == [called EXCEPT ![i] = Append(@, FALSE)]

\* reset, after the unlock
Abandon(i) ==
  /\ i \in resetting
  /\ resetting' = resetting \ {i}
  /\ called' = IF listener[i] THEN Abandoned(i) ELSE called
  /\ UNCHANGED <<next_id, entries, entryVars, threadVars, buffers,
                 received, failed, missed>>

AckStep(t) == LoadMark(t) \/ StoreMark(t) \/ CallListener(t)

Next ==
  \/ process_packet
  \/ \E i \in Ids : Transmit(i) \/ Abandon(i)
  \/ \E t \in IoThreads :
       \/ \E i \in Ids : AcknowledgeFound(t, i) \/ AcknowledgeMissing(t, i)
       \/ AckStep(t)
  \/ \E due, exhausted, expired \in SUBSET entries :
       execute_resend(due, exhausted, expired)
  \/ \E queued \in SUBSET buffers : QueueResends(queued)
  \/ TakeEntries

Spec == Init /\ [][Next]_vars

\* IO threads and the resetting thread run on; the tick comes again and again
\* and finds every entry due at some time; a packet does not stay in the
\* write queue for ever, so that a resend is queued at some time.
Fairness ==
  /\ \A t \in IoThreads : WF_vars(AckStep(t))
  /\ \A i \in Ids :
       /\ WF_vars(Abandon(i))
       /\ SF_vars(\E due, exhausted, expired \in SUBSET entries :
                    /\ i \in due \cup exhausted \cup expired
                    /\ execute_resend(due, exhausted, expired))
       /\ SF_vars(\E queued \in SUBSET buffers :
                    i \in queued /\ QueueResends(queued))
  /\ WF_vars(QueueResends(buffers))

FairSpec == Spec /\ Fairness
-----------------------------------------------------------------------------
TypeOK ==
  /\ next_id \in FirstId..(LastId + 1)
  /\ entries \subseteq Ids
  /\ send_count \in [Ids -> 0..(SendCountSpace - 1)]
  /\ resend_count \in [Ids -> 0..MaxResends]
  /\ acknowledged \in [Ids -> BOOLEAN] /\ listener \in [Ids -> BOOLEAN]
  /\ pc \in [IoThreads -> {"idle", "mark", "store", "call"}]
  /\ held \in [IoThreads -> Ids \cup {NoPacket}]
  /\ moved \in [IoThreads -> BOOLEAN]
  /\ byte \in [IoThreads -> 0..(SendCountSpace - 1)]
  /\ buffers \subseteq Ids /\ resetting \subseteq Ids
  /\ received \subseteq Ids /\ failed \subseteq Ids /\ missed \subseteq Ids
  /\ called \in [Ids -> Seq(BOOLEAN)]

(***************************************************************************)
(* "move it out so nobody else could call it as well": a listener is       *)
(* called at most once, by duplicated acknowledges on several threads, a   *)
(* reset, or both, and told TRUE only for a packet that reached the peer.  *)
(***************************************************************************)
ListenerOnce ==
  /\ \A i \in Ids : Len(called[i]) <= 1
  /\ \A i \in Ids : called[i] = <<TRUE>> => i \in received

(***************************************************************************)
(* No listener is forgotten: of every packet registered so far it has been *)
(* called, waits in the list or in the hands of an IO thread or of a reset *)
(* - or the connection was given up because of this packet.                *)
(***************************************************************************)
ListenerKept ==
  \A i \in FirstId..(next_id - 1) :
     \/ called[i] # <<>>
     \/ listener[i] /\ i \in entries \cup resetting \cup failed
     \/ \E t \in IoThreads : held[t] = i /\ moved[t]

(***************************************************************************)
(* The error "Missing packet id" is not reported for a packet that waits   *)
(* for this very acknowledge.                                              *)
(***************************************************************************)
WaitingIsFound == missed = {}

(***************************************************************************)
(* Every entry leaves the list: acknowledged, given up, or reset.          *)
(***************************************************************************)
EntriesDrain == \A i \in Ids : i \in entries ~> i \notin entries
=============================================================================
