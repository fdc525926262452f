----------------------------- MODULE VoiceClient ------------------------------
(***************************************************************************)
(* How a voice client comes to its end (client/voice/VoiceClient.cpp with  *)
(* the callers in the command handler, the crypto handshake, the resend    *)
(* callback, the reconnect and VoiceServer::stop).  disconnect() schedules *)
(* a task of its own; close_connection() schedules the flush task, which   *)
(* runs every 25 ms until the connection is flushed or timed out and then  *)
(* calls finalDisconnect().  The actors are the thread that executes a     *)
(* command of the client (under command_lock), the disconnect tasks, the   *)
(* flush task, the IO thread, the resend tick and the stop of the server;  *)
(* a critical section of state_lock or flush_mutex is one step.  What the  *)
(* moves between channels make of the end of a client is ChannelMoves.     *)
(***************************************************************************)
EXTENDS Integers

CONSTANT Kicks            \* disconnect tasks (calls of disconnect())

VARIABLES
  state,                  \* ConnectionState
  dropped,                \* history: a command was dropped
  registered,             \* in VirtualServer::clients
  active,                 \* in VoiceServer::activeConnections
  command_lock,           \* "free", "command" or "flush"
  command,                \* where the execution of a command is
  kick, await_ack,        \* where a disconnect task is; await_disconnect_ack
  flush,                  \* where the flush task is
  flush_timeout, late,    \* time left; the task saw that none was left
  disconnect_acknowledged, \* "unset", "false" or "true"
  unsent, unacknowledged, \* packets in the encoder's queues; without an ack
  listener,               \* the ack of the disconnect packet is awaited
  io, reconnect,          \* a call of close_connection / the mark is left
  server, socket          \* VoiceServer::stop; the socket is written to

flushVars == <<flush, flush_timeout, late, disconnect_acknowledged>>
netVars == <<unsent, unacknowledged, listener>>
callerVars == <<io, reconnect, server, socket>>
memberVars == <<registered, active>>
kickVars == <<kick, await_ack>>
vars == <<state, dropped, memberVars, command_lock, command, kickVars,
          flushVars, netVars, callerVars>>

\* Time left until flush_timeout: a constructed time point, or in seconds
Epoch == -1
Now == 0
Short == 1
Long == 2

\* register_verified_client has just made the client.
Init ==
  /\ state = "INIT_LOW" /\ dropped = FALSE
  /\ registered = FALSE /\ active = TRUE
  /\ command_lock = "free" /\ command = "idle"
  /\ kick = [k \in Kicks |-> "none"] /\ await_ack = [k \in Kicks |-> FALSE]
  /\ flush = "none" /\ flush_timeout = 0 /\ late = FALSE
  /\ disconnect_acknowledged = "unset"
  /\ unsent = FALSE /\ unacknowledged = FALSE /\ listener = FALSE
  /\ io = "idle" /\ reconnect = "idle" /\ server = "running" /\ socket = TRUE

\* disconnect(): a task is scheduled.  Kicks bounds how many
\* there are at a time.
disconnect ==
  \/ \E k \in Kicks : kick[k] = "none" /\ kick' = [kick EXCEPT ![k] = "scheduled"]
  \/ (\A k \in Kicks : kick[k] # "none") /\ UNCHANGED kick

\* Mutant: a later call gives the connection more time.
TimeoutExtended(timeout) == flush_timeout + timeout

\* std::min(timeout, flush_timeout), once the flush task was scheduled
TimeoutOf(timeout) == IF flush # "none" /\ flush_timeout < timeout
                      THEN flush_timeout ELSE timeout

close_connection(timeout) ==
  /\ flush' = IF flush = "none" THEN "pending" ELSE flush
  /\ flush_timeout' = TimeoutOf(timeout)
  /\ UNCHANGED <<late, disconnect_acknowledged>>

\* send_command: the packets wait for the writer and for their acknowledge.
Send == unsent' = TRUE /\ unacknowledged' = TRUE
-----------------------------------------------------------------------------
(* Commands of the client, one at a time, under command_lock.              *)

\* The states in which handle_command drops a command and a disconnect task ends
Dropped == {"DISCONNECTING", "DISCONNECTED"}

handle_command ==
  /\ command_lock = "free" /\ command = "idle"
  /\ IF state \in Dropped
     THEN dropped' = TRUE /\ UNCHANGED <<command_lock, command>>
     ELSE command_lock' = "command" /\ command' = "handle" /\ UNCHANGED dropped
  /\ UNCHANGED <<state, memberVars, kickVars, flushVars, netVars, callerVars>>

CommandStep(from, to) ==
  /\ command = from /\ command' = to
  /\ command_lock' = IF to = "idle" THEN "free" ELSE command_lock
  /\ UNCHANGED <<dropped, active, callerVars>>

\* Any other command, and a clientinit that is refused: an answer is sent;
\* after an error during the handshake the connection is closed, at once or,
\* before the identity is proved, after a second ...
OtherCommand ==
  /\ \/ CommandStep("handle", "idle")
     \/ state = "INIT_HIGH" /\ CommandStep("handle", "refused")
  /\ Send
  /\ UNCHANGED <<state, registered, kickVars, flushVars, listener>>

RefusedClose ==
  /\ CommandStep("refused", "idle")
  /\ \E timeout \in {Now, Short} : close_connection(timeout)
  /\ UNCHANGED <<state, registered, kickVars, netVars>>

\* ... and after an exception the client is disconnected.
CommandThrows ==
  /\ CommandStep("handle", "idle")
  /\ disconnect
  /\ UNCHANGED <<state, registered, await_ack, flushVars, netVars>>

\* clientinit, processJoin: the client is registered at the server ...
ClientInit ==
  /\ state = "INIT_HIGH"
  /\ CommandStep("handle", "registered")
  /\ registered' = TRUE
  /\ Send
  /\ UNCHANGED <<state, kickVars, flushVars, listener>>

\* ... no default channel can be assigned ...
NoDefaultChannel ==
  /\ CommandStep("registered", "idle")
  /\ close_connection(Short)
  /\ Send
  /\ UNCHANGED <<state, registered, kickVars, listener>>

\* ... or the state is set, without state_lock and whatever it was ...
JoinState ==
  /\ CommandStep("registered", "connected")
  /\ state' = "CONNECTED"
  /\ UNCHANGED <<registered, kickVars, flushVars, netVars>>

\* ... and the client is moved into the channel.
JoinChannel ==
  /\ CommandStep("connected", "idle")
  /\ Send
  /\ UNCHANGED <<state, registered, kickVars, flushVars, listener>>

\* clientdisconnect: disconnect(), then the post command handler
ClientDisconnect ==
  /\ CommandStep("handle", "left")
  /\ disconnect
  /\ UNCHANGED <<state, registered, await_ack, flushVars, netVars>>

PostClientDisconnect ==
  /\ CommandStep("left", "idle")
  /\ disconnect_acknowledged' = "true"
  /\ UNCHANGED <<state, registered, kickVars, flush,
                 flush_timeout, late, netVars>>
-----------------------------------------------------------------------------
(* The disconnect task                                                     *)

KickStep(k, from, to) ==
  /\ kick[k] = from /\ kick' = [kick EXCEPT ![k] = to]
  /\ UNCHANGED <<dropped, registered, active, command_lock, command, callerVars>>

\* Under state_lock: somebody else has disconnected the client, or this task does.
KickState(k) ==
  /\ IF state \in Dropped
     THEN /\ KickStep(k, "scheduled", "none")
          /\ UNCHANGED <<state, await_ack>>
     ELSE /\ KickStep(k, "scheduled", "move")
          /\ await_ack' = [await_ack EXCEPT ![k] = (state = "CONNECTED")]
          /\ state' = "DISCONNECTING"
  /\ UNCHANGED <<flushVars, netVars>>

\* Under command_lock the client is taken out of its channel.
KickMove(k) ==
  /\ command_lock = "free"
  /\ KickStep(k, "move", IF await_ack[k] THEN "mark" ELSE "send")
  /\ UNCHANGED <<state, await_ack, flushVars, netVars>>

KickMark(k) ==
  /\ KickStep(k, "mark", "send")
  /\ disconnect_acknowledged' =
       IF disconnect_acknowledged = "unset" THEN "false" ELSE disconnect_acknowledged
  /\ UNCHANGED <<state, await_ack, flush, flush_timeout, late, netVars>>

KickSend(k) ==
  /\ KickStep(k, "send", "close")
  /\ Send
  /\ listener' = (listener \/ await_ack[k])
  /\ UNCHANGED <<state, await_ack, flushVars>>

\* The timeout is now + 5 seconds.
KickEnd(k) ==
  /\ KickStep(k, "close", "none")
  /\ await_ack' = [await_ack EXCEPT ![k] = FALSE]
  /\ close_connection(Long)
  /\ UNCHANGED <<state, netVars>>
-----------------------------------------------------------------------------
(* The flush task                                                          *)

FlushStep(from, to) ==
  /\ flush = from /\ flush' = to
  /\ UNCHANGED <<dropped, command, kickVars, flush_timeout,
                 disconnect_acknowledged, netVars, callerVars>>

\* Mutant: commands go on while the flush task runs.
NoFlushLock == UNCHANGED command_lock

\* "Dont execute any commands which might alter the current client state"
FlushLock == command_lock = "free" /\ command_lock' = "flush"

\* The time is read before the wait for the queues.
FlushBegin ==
  /\ state # "DISCONNECTED"
  /\ FlushStep("pending", "wait")
  /\ FlushLock
  /\ state' = "DISCONNECTING"
  /\ late' = (flush_timeout <= 0)
  /\ UNCHANGED memberVars

\* Mutant: the wait gives up when the task was late.
WrittenOrLate == ~unsent \/ late

\* wait_empty_write_and_prepare_queue without a deadline
Written == ~unsent

FlushSent ==
  /\ Written
  /\ FlushStep("wait", "acknowledged")
  /\ UNCHANGED <<state, memberVars, command_lock, late>>


\* ~(flush_timeout >= timestamp_now), with the time read at the begin
Expired == late \/ flush_timeout = Epoch

\* The rest of the task: finalDisconnect, or another round in 25 ms
FlushResult(from, flushed) ==
  /\ IF flushed \/ Expired
     THEN FlushStep(from, "final") /\ UNCHANGED <<command_lock, late>>
     ELSE FlushStep(from, "pending") /\ command_lock' = "free" /\ late' = FALSE
  /\ UNCHANGED <<state, memberVars>>

\* connection_flushed: the acknowledge of the disconnect packet decides ...
FlushAcknowledged ==
  /\ disconnect_acknowledged # "unset"
  /\ FlushResult("acknowledged", disconnect_acknowledged = "true")

FlushNoDisconnect ==
  /\ disconnect_acknowledged = "unset"
  /\ FlushStep("acknowledged", "awaiting")
  /\ UNCHANGED <<state, memberVars, command_lock, late>>

\* ... or that no acknowledge at all is awaited.
FlushAwaiting == FlushResult("awaiting", ~unacknowledged)

\* finalDisconnect: the state, and the task is cancelled ...
FinalState ==
  /\ state = "DISCONNECTING"
  /\ FlushStep("final", "leave")
  /\ state' = "DISCONNECTED"
  /\ UNCHANGED <<memberVars, command_lock, late>>

\* ... processLeave, unregisterClient ...
FinalLeave ==
  /\ FlushStep("leave", "unregister")
  /\ registered' = FALSE
  /\ UNCHANGED <<state, active, command_lock, late>>

\* ... and unregisterConnection.
FinalUnregister ==
  /\ FlushStep("unregister", "gone")
  /\ active' = FALSE
  /\ command_lock' = "free"
  /\ UNCHANGED <<state, registered, late>>

\* The destructor, when the last reference goes with activeConnections
Delete ==
  /\ flush = "pending" /\ ~active /\ ~registered
  /\ command = "idle" /\ io = "idle" /\ reconnect = "idle"
  /\ \A k \in Kicks : kick[k] \in {"none", "scheduled"}
  /\ state' = "DISCONNECTED" /\ flush' = "cancelled"
  /\ UNCHANGED <<dropped, memberVars, command_lock, command, kickVars,
                 flush_timeout, late, disconnect_acknowledged, netVars, callerVars>>
-----------------------------------------------------------------------------
(* Other callers, the network and the time                                 *)

Elsewhere == UNCHANGED <<dropped, registered, command_lock, command, await_ack>>

\* Mutant: the state is set whatever it was.
AnyInitIv == TRUE

\* The only state that a clientinitiv changes
FirstInitIv == state = "INIT_LOW"

\* clientinitiv: the connection is reset and the answer is sent; when the
\* arguments are refused (with or without an answer) the connection is closed.
ClientInitIv ==
  /\ FirstInitIv /\ active /\ io = "idle"
  /\ state' = "INIT_HIGH"
  /\ \/ Send /\ UNCHANGED io
     \/ /\ io' = "close"
        /\ \E answered \in BOOLEAN : unsent' = answered /\ unacknowledged' = answered
  /\ UNCHANGED <<active, kick, flushVars, listener, reconnect, server, socket>>
  /\ Elsewhere

\* callback_resend_failed.  The connection is closed in a step of its own.
ResendFailed ==
  /\ unacknowledged /\ active /\ io = "idle"
  /\ IF state = "CONNECTED" THEN disconnect ELSE UNCHANGED kick
  /\ disconnect_acknowledged' = "true"
  /\ \E more \in BOOLEAN : unacknowledged' = more
  /\ listener' \in {listener, FALSE}
  /\ io' = "close"
  /\ UNCHANGED <<state, active, flush, flush_timeout, late, unsent, reconnect,
                 server, socket>>
  /\ Elsewhere

IoClose ==
  /\ io = "close" /\ io' = "idle"
  /\ close_connection(Epoch)
  /\ UNCHANGED <<state, active, kick, netVars, reconnect, server, socket>>
  /\ Elsewhere

\* register_verified_client drops the old connection of a reconnecting client.
ReconnectClose ==
  /\ state = "CONNECTED" /\ active /\ reconnect = "idle"
  /\ reconnect' = "mark"
  /\ close_connection(Epoch)
  /\ UNCHANGED <<state, active, kick, netVars, io, server, socket>>
  /\ Elsewhere

ReconnectMark ==
  /\ reconnect = "mark" /\ reconnect' = "idle"
  /\ disconnect_acknowledged' = "true"
  /\ UNCHANGED <<state, active, kick, flush, flush_timeout, late, netVars, io,
                 server, socket>>
  /\ Elsewhere

\* tick_server: the handshake timed out.
HandshakeTimeout ==
  /\ state \in {"INIT_LOW", "INIT_HIGH"} /\ active
  /\ close_connection(Short)
  /\ UNCHANGED <<state, active, kick, netVars, callerVars>>
  /\ Elsewhere

\* The server stops, ...: disconnect() from another thread
Kick ==
  /\ active \/ registered
  /\ disconnect
  /\ UNCHANGED <<state, active, flushVars, netVars, callerVars>>
  /\ Elsewhere

\* Kicked or banned by a command, idle, flooding, the server is deleted.
CloseByServer ==
  /\ registered
  /\ close_connection(Short)
  /\ Send
  /\ UNCHANGED <<state, active, kick, listener, callerVars>>
  /\ Elsewhere

\* Something happens on the server that the client is told.
Notify ==
  /\ registered
  /\ Send
  /\ UNCHANGED <<state, active, kick, flushVars, listener, callerVars>>
  /\ Elsewhere

\* VoiceServer::stop
StopClose ==
  /\ server = "running" /\ server' = "stopping"
  /\ IF active THEN close_connection(Short) ELSE UNCHANGED flushVars
  /\ UNCHANGED <<state, active, kick, netVars, io, reconnect, socket>>
  /\ Elsewhere

\* No connection is left, or the wait for them has timed out.
StopClear ==
  /\ server = "stopping" /\ server' = "stopped"
  /\ active' = FALSE
  /\ UNCHANGED <<state, kick, flushVars, netVars, io, reconnect, socket>>
  /\ Elsewhere

\* The sockets are deactivated, whatever the clients still have to send.
StopSockets ==
  /\ server = "stopped" /\ socket
  /\ socket' = FALSE
  /\ UNCHANGED <<state, active, kick, flushVars, netVars, io, reconnect, server>>
  /\ Elsewhere

\* The writer empties the queues.
Write ==
  /\ socket /\ unsent
  /\ unsent' = FALSE
  /\ UNCHANGED <<state, active, kick, flushVars, unacknowledged, listener, callerVars>>
  /\ Elsewhere

\* An acknowledge; the one of the disconnect packet calls the listener.
Acknowledge ==
  /\ active /\ ~unsent
  /\ \/ unacknowledged /\ unacknowledged' = FALSE
        /\ UNCHANGED <<listener, disconnect_acknowledged>>
     \/ listener /\ listener' = FALSE /\ disconnect_acknowledged' = "true"
        /\ UNCHANGED unacknowledged
  /\ UNCHANGED <<state, active, kick, flush, flush_timeout, late, unsent, callerVars>>
  /\ Elsewhere

Tick ==
  /\ flush_timeout > 0 /\ flush_timeout' = flush_timeout - 1
  /\ UNCHANGED <<state, active, kick, flush, late, disconnect_acknowledged,
                 netVars, callerVars>>
  /\ Elsewhere
-----------------------------------------------------------------------------
Command == \/ OtherCommand \/ RefusedClose \/ CommandThrows \/ ClientInit
           \/ NoDefaultChannel \/ JoinState \/ JoinChannel
           \/ ClientDisconnect \/ PostClientDisconnect

KickTask(k) == \/ KickState(k) \/ KickMove(k) \/ KickMark(k) \/ KickSend(k)
               \/ KickEnd(k)

FlushTask == \/ FlushAcknowledged \/ FlushNoDisconnect \/ FlushAwaiting
             \/ FinalState \/ FinalLeave \/ FinalUnregister

Next ==
  \/ handle_command \/ Command
  \/ \E k \in Kicks : KickTask(k)
  \/ FlushBegin \/ FlushSent \/ FlushTask \/ Delete
  \/ ClientInitIv \/ ResendFailed \/ IoClose \/ ReconnectClose \/ ReconnectMark
  \/ HandshakeTimeout \/ Kick \/ CloseByServer \/ Notify
  \/ StopClose \/ StopClear \/ StopSockets
  \/ Write \/ Acknowledge \/ Tick

Spec == Init /\ [][Next]_vars

\* Every thread goes on, command_lock is given to everybody who asks for it
\* again and again, the writer writes while there is a socket, and the poll
\* of the queues meets them empty if they are so again and again.
Fairness ==
  /\ WF_vars(Command) /\ WF_vars(FlushTask) /\ WF_vars(IoClose)
  /\ WF_vars(Write) /\ WF_vars(Tick) /\ WF_vars(ReconnectMark)
  /\ SF_vars(FlushBegin) /\ SF_vars(FlushSent)
  /\ \A k \in Kicks : SF_vars(KickTask(k))

FairSpec == Spec /\ Fairness
-----------------------------------------------------------------------------
TypeOK ==
  /\ state \in {"INIT_LOW", "INIT_HIGH", "CONNECTED", "DISCONNECTING", "DISCONNECTED"}
  /\ command_lock \in {"free", "command", "flush"}
  /\ command \in {"idle", "handle", "refused", "registered", "connected",
                 "left"}
  /\ kick \in [Kicks -> {"none", "scheduled", "move", "mark", "send", "close"}]
  /\ await_ack \in [Kicks -> BOOLEAN]
  /\ flush \in {"none", "pending", "wait", "acknowledged", "awaiting", "final",
                "leave", "unregister", "gone", "cancelled"}
  /\ flush_timeout \in Epoch..Long
  /\ disconnect_acknowledged \in {"unset", "false", "true"}
  /\ io \in {"idle", "close"} /\ reconnect \in {"idle", "mark"}
  /\ server \in {"running", "stopping", "stopped"}
  /\ {dropped, registered, active, late, unsent,
      unacknowledged, listener, socket} \subseteq BOOLEAN

(***************************************************************************)
(* "finalDisconnect called but state isn't disconnecting" is never logged, *)
(* although the join and clientinitiv write the state without asking, and  *)
(* the assertion of unregisterClient (state == DISCONNECTED) holds.        *)
(***************************************************************************)
FinalDisconnectStates ==
  /\ flush \in {"wait", "acknowledged", "awaiting", "final"} => state = "DISCONNECTING"
  /\ flush \in {"leave", "unregister", "gone"} => state = "DISCONNECTED"

(***************************************************************************)
(* A client that finalDisconnect has finished with is in no list of the    *)
(* server, and no command that is still executed and no late disconnect    *)
(* task brings it back.                                                    *)
(***************************************************************************)
GoneIsGone ==
  /\ FinalDisconnectStates
  /\ flush = "gone" => ~registered /\ ~active /\ command = "idle"

(***************************************************************************)
(* "We're just dropping the command and all future commands": once a       *)
(* command was dropped none is executed any more.                          *)
(***************************************************************************)
DroppedForGood == dropped => command = "idle" /\ state \in Dropped

\* The flush task waits, with command_lock, for packets that nobody writes.
Stranded == flush = "wait" /\ unsent /\ ~socket
Closing == flush # "none" \/ \E k \in Kicks : kick[k] # "none"


(***************************************************************************)
(* ... and it is stuck for good: the task never ends, no time-out and no   *)
(* acknowledge helps, and no command of the client is executed any more.   *)
(***************************************************************************)
StrandedForGood == [](Stranded => [](Stranded /\ command_lock = "flush"))
=============================================================================
