-------------------------- MODULE VoiceClientProofs --------------------------
(***************************************************************************)
(* The end of a voice client, for any number of disconnect tasks: a client *)
(* that is gone stays gone, a client that dropped a command executes none  *)
(* any more, ConnectionState::DISCONNECTED is final, and a client whose    *)
(* socket was closed before its last packets were written never gets there. *)
(***************************************************************************)
EXTENDS VoiceClient, TLAPS

\* Where the flush task runs under command_lock
InFlush == {"wait", "acknowledged", "awaiting", "final", "leave", "unregister"}

\* command_lock is what keeps commands and the flush task apart: whoever is
\* in the middle of something holds it.
LockHolder ==
  /\ command_lock = "command" <=> command # "idle"
  /\ command_lock = "flush" <=> flush \in InFlush

\* Between unregisterClient and unregisterConnection nobody registers again.
Leaving == flush = "unregister" => ~registered

\* No command is in execution at a disconnected client, so that no join can
\* write its state again.
Idle == state = "DISCONNECTED" => command = "idle"

LifeInvariant == /\ TypeOK /\ LockHolder /\ Leaving /\ Idle
                 /\ GoneIsGone /\ DroppedForGood

\* The client that register_verified_client has just made.
LEMMA LifeInit == Init => LifeInvariant
<1> SUFFICES ASSUME Init PROVE LifeInvariant
  OBVIOUS
<1>1. TypeOK
  <2>1. {dropped, registered, active, late, unsent, unacknowledged, listener,
         socket} \subseteq BOOLEAN
    BY DEF Init
  <2>2. flush_timeout \in Epoch..Long
    BY DEF Init, Epoch, Long
  <2>3. /\ kick \in [Kicks -> {"none", "scheduled", "move", "mark", "send", "close"}]
        /\ await_ack \in [Kicks -> BOOLEAN]
    BY DEF Init
  <2> QED BY <2>1, <2>2, <2>3 DEF Init, TypeOK
<1>2. LockHolder /\ Leaving /\ Idle /\ GoneIsGone /\ DroppedForGood
  BY DEF Init, LockHolder, Leaving, Idle, GoneIsGone, FinalDisconnectStates,
         DroppedForGood, InFlush
<1> QED BY <1>1, <1>2 DEF LifeInvariant

\* Every action keeps the types; a timeout never leaves Epoch..Long, because
\* close_connection only takes the smaller one and Tick stops at zero.
LEMMA LifeTypeStep == TypeOK /\ [Next]_vars => TypeOK'
<1> SUFFICES ASSUME TypeOK, [Next]_vars PROVE TypeOK'
  OBVIOUS
<1> USE DEF TypeOK, flushVars, netVars, callerVars, memberVars, kickVars, Elsewhere
<1>1. CASE handle_command
  BY <1>1 DEF handle_command
<1>2. CASE OtherCommand
  BY <1>2 DEF OtherCommand, CommandStep, Send
<1>3. CASE RefusedClose
  BY <1>3 DEF RefusedClose, CommandStep, close_connection, TimeoutOf, Epoch,
       Now, Short, Long
<1>4. CASE CommandThrows
  BY <1>4 DEF CommandThrows, CommandStep, disconnect
<1>5. CASE ClientInit
  BY <1>5 DEF ClientInit, CommandStep, Send
<1>6. CASE NoDefaultChannel
  BY <1>6 DEF NoDefaultChannel, CommandStep, Send, close_connection,
       TimeoutOf, Epoch, Short, Long
<1>7. CASE JoinState
  BY <1>7 DEF JoinState, CommandStep
<1>8. CASE JoinChannel
  BY <1>8 DEF JoinChannel, CommandStep, Send
<1>9. CASE ClientDisconnect
  BY <1>9 DEF ClientDisconnect, CommandStep, disconnect
<1>10. CASE PostClientDisconnect
  BY <1>10 DEF PostClientDisconnect, CommandStep
<1>11. ASSUME NEW k \in Kicks, KickState(k) PROVE TypeOK'
  BY <1>11 DEF KickState, KickStep
<1>12. ASSUME NEW k \in Kicks, KickMove(k) PROVE TypeOK'
  BY <1>12 DEF KickMove, KickStep
<1>13. ASSUME NEW k \in Kicks, KickMark(k) PROVE TypeOK'
  BY <1>13 DEF KickMark, KickStep
<1>14. ASSUME NEW k \in Kicks, KickSend(k) PROVE TypeOK'
  BY <1>14 DEF KickSend, KickStep, Send
<1>15. ASSUME NEW k \in Kicks, KickEnd(k) PROVE TypeOK'
  BY <1>15 DEF KickEnd, KickStep, close_connection, TimeoutOf, Epoch, Long
<1>16. CASE FlushBegin
  BY <1>16 DEF FlushBegin, FlushStep, FlushLock
<1>17. CASE FlushSent
  BY <1>17 DEF FlushSent, FlushStep
<1>18. CASE FlushAcknowledged
  BY <1>18 DEF FlushAcknowledged, FlushResult, FlushStep
<1>19. CASE FlushNoDisconnect
  BY <1>19 DEF FlushNoDisconnect, FlushStep
<1>20. CASE FlushAwaiting
  BY <1>20 DEF FlushAwaiting, FlushResult, FlushStep
<1>21. CASE FinalState
  BY <1>21 DEF FinalState, FlushStep
<1>22. CASE FinalLeave
  BY <1>22 DEF FinalLeave, FlushStep
<1>23. CASE FinalUnregister
  BY <1>23 DEF FinalUnregister, FlushStep
<1>24. CASE Delete
  BY <1>24 DEF Delete
<1>25. CASE ClientInitIv
  <2>1. unsent' \in BOOLEAN /\ unacknowledged' \in BOOLEAN
    BY <1>25 DEF ClientInitIv, FirstInitIv, Send
  <2> QED BY <1>25, <2>1 DEF ClientInitIv
<1>26. CASE ResendFailed
  <2>1. unacknowledged' \in BOOLEAN
    BY <1>26 DEF ResendFailed, disconnect
  <2>2. listener' \in BOOLEAN
    BY <1>26 DEF ResendFailed, disconnect
  <2>3. kick' \in [Kicks -> {"none", "scheduled", "move", "mark", "send", "close"}]
    BY <1>26 DEF ResendFailed, disconnect
  <2> QED BY <1>26, <2>1, <2>2, <2>3 DEF ResendFailed
<1>27. CASE IoClose
  BY <1>27 DEF IoClose, close_connection, TimeoutOf, Epoch, Long
<1>28. CASE ReconnectClose
  BY <1>28 DEF ReconnectClose, close_connection, TimeoutOf, Epoch, Long
<1>29. CASE ReconnectMark
  BY <1>29 DEF ReconnectMark
<1>30. CASE HandshakeTimeout
  BY <1>30 DEF HandshakeTimeout, close_connection, TimeoutOf, Epoch, Short,
       Long
<1>31. CASE Kick
  BY <1>31 DEF Kick, disconnect
<1>32. CASE CloseByServer
  BY <1>32 DEF CloseByServer, close_connection, TimeoutOf, Send, Epoch, Short,
       Long
<1>33. CASE Notify
  BY <1>33 DEF Notify, Send
<1>34. CASE StopClose
  BY <1>34 DEF StopClose, close_connection, TimeoutOf, Epoch, Short, Long
<1>35. CASE StopClear
  <2>1. active' \in BOOLEAN
    BY <1>35 DEF StopClear
  <2> QED BY <1>35, <2>1 DEF StopClear
<1>36. CASE StopSockets
  <2>1. socket' \in BOOLEAN
    BY <1>36 DEF StopSockets
  <2> QED BY <1>36, <2>1 DEF StopSockets
<1>37. CASE Write
  <2>1. unsent' \in BOOLEAN
    BY <1>37 DEF Write
  <2> QED BY <1>37, <2>1 DEF Write
<1>38. CASE Acknowledge
  <2>1. unacknowledged' \in BOOLEAN
    BY <1>38 DEF Acknowledge
  <2>2. listener' \in BOOLEAN
    BY <1>38 DEF Acknowledge
  <2> QED BY <1>38, <2>1, <2>2 DEF Acknowledge
<1>39. CASE Tick
  BY <1>39 DEF Tick, Epoch, Long
<1>40. CASE UNCHANGED vars
  BY <1>40 DEF vars
<1> QED BY <1>1, <1>2, <1>3, <1>4, <1>5, <1>6, <1>7, <1>8, <1>9, <1>10, <1>11,
     <1>12, <1>13, <1>14, <1>15, <1>16, <1>17, <1>18, <1>19, <1>20, <1>21,
     <1>22, <1>23, <1>24, <1>25, <1>26, <1>27, <1>28, <1>29, <1>30, <1>31,
     <1>32, <1>33, <1>34, <1>35, <1>36, <1>37, <1>38, <1>39, <1>40 DEF Next,
     Command, KickTask, FlushTask

\* Every action keeps the invariant.  The join writes the state without asking
\* (JoinState), but only under command_lock, which the flush task holds from
\* its begin to its end.
LEMMA LifeStep == LifeInvariant /\ [Next]_vars => LifeInvariant'
<1> SUFFICES ASSUME LifeInvariant, [Next]_vars PROVE LifeInvariant'
  OBVIOUS
<1>a. TypeOK'
  BY LifeTypeStep DEF LifeInvariant
<1> USE <1>a DEF LifeInvariant, LockHolder, Leaving, Idle, GoneIsGone,
        FinalDisconnectStates, DroppedForGood, Dropped, InFlush,
        flushVars, netVars, callerVars, memberVars, kickVars, Elsewhere
<1>1. CASE handle_command
  BY <1>1 DEF handle_command
<1>2. CASE OtherCommand
  BY <1>2 DEF OtherCommand, CommandStep, Send
<1>3. CASE RefusedClose
  BY <1>3 DEF RefusedClose, CommandStep, close_connection
<1>4. CASE CommandThrows
  BY <1>4 DEF CommandThrows, CommandStep, disconnect
<1>5. CASE ClientInit
  BY <1>5 DEF ClientInit, CommandStep, Send
<1>6. CASE NoDefaultChannel
  BY <1>6 DEF NoDefaultChannel, CommandStep, Send, close_connection
<1>7. CASE JoinState
  BY <1>7 DEF JoinState, CommandStep
<1>8. CASE JoinChannel
  BY <1>8 DEF JoinChannel, CommandStep, Send
<1>9. CASE ClientDisconnect
  BY <1>9 DEF ClientDisconnect, CommandStep, disconnect
<1>10. CASE PostClientDisconnect
  BY <1>10 DEF PostClientDisconnect, CommandStep
<1>11. ASSUME NEW k \in Kicks, KickState(k) PROVE LifeInvariant'
  BY <1>11 DEF KickState, KickStep
<1>12. ASSUME NEW k \in Kicks, KickMove(k) PROVE LifeInvariant'
  BY <1>12 DEF KickMove, KickStep
<1>13. ASSUME NEW k \in Kicks, KickMark(k) PROVE LifeInvariant'
  BY <1>13 DEF KickMark, KickStep
<1>14. ASSUME NEW k \in Kicks, KickSend(k) PROVE LifeInvariant'
  BY <1>14 DEF KickSend, KickStep, Send
<1>15. ASSUME NEW k \in Kicks, KickEnd(k) PROVE LifeInvariant'
  BY <1>15 DEF KickEnd, KickStep, close_connection
<1>16. CASE FlushBegin
  BY <1>16 DEF FlushBegin, FlushStep, FlushLock
<1>17. CASE FlushSent
  BY <1>17 DEF FlushSent, FlushStep
<1>18. CASE FlushAcknowledged
  BY <1>18 DEF FlushAcknowledged, FlushResult, FlushStep
<1>19. CASE FlushNoDisconnect
  BY <1>19 DEF FlushNoDisconnect, FlushStep
<1>20. CASE FlushAwaiting
  BY <1>20 DEF FlushAwaiting, FlushResult, FlushStep
<1>21. CASE FinalState
  BY <1>21 DEF FinalState, FlushStep
<1>22. CASE FinalLeave
  BY <1>22 DEF FinalLeave, FlushStep
<1>23. CASE FinalUnregister
  BY <1>23 DEF FinalUnregister, FlushStep
<1>24. CASE Delete
  BY <1>24 DEF Delete
<1>25. CASE ClientInitIv
  BY <1>25 DEF ClientInitIv, FirstInitIv, Send
<1>26. CASE ResendFailed
  BY <1>26 DEF ResendFailed, disconnect
<1>27. CASE IoClose
  BY <1>27 DEF IoClose, close_connection
<1>28. CASE ReconnectClose
  BY <1>28 DEF ReconnectClose, close_connection
<1>29. CASE ReconnectMark
  BY <1>29 DEF ReconnectMark
<1>30. CASE HandshakeTimeout
  BY <1>30 DEF HandshakeTimeout, close_connection
<1>31. CASE Kick
  BY <1>31 DEF Kick, disconnect
<1>32. CASE CloseByServer
  BY <1>32 DEF CloseByServer, close_connection, Send
<1>33. CASE Notify
  BY <1>33 DEF Notify, Send
<1>34. CASE StopClose
  BY <1>34 DEF StopClose, close_connection
<1>35. CASE StopClear
  BY <1>35 DEF StopClear
<1>36. CASE StopSockets
  BY <1>36 DEF StopSockets
<1>37. CASE Write
  BY <1>37 DEF Write
<1>38. CASE Acknowledge
  BY <1>38 DEF Acknowledge
<1>39. CASE Tick
  BY <1>39 DEF Tick
<1>40. CASE UNCHANGED vars
  BY <1>40 DEF vars
<1> QED BY <1>1, <1>2, <1>3, <1>4, <1>5, <1>6, <1>7, <1>8, <1>9, <1>10, <1>11,
     <1>12, <1>13, <1>14, <1>15, <1>16, <1>17, <1>18, <1>19, <1>20, <1>21,
     <1>22, <1>23, <1>24, <1>25, <1>26, <1>27, <1>28, <1>29, <1>30, <1>31,
     <1>32, <1>33, <1>34, <1>35, <1>36, <1>37, <1>38, <1>39, <1>40 DEF Next,
     Command, KickTask, FlushTask

\* The invariant of every theorem below.
LEMMA LifeAlways == Spec => []LifeInvariant
  BY LifeInit, LifeStep, PTL DEF Spec

\* The state, the locks and the places of all actors keep their ranges, and the
\* time left until flush_timeout never grows beyond what a caller asked for.
THEOREM LifeTypeCorrect == Spec => []TypeOK
<1>1. LifeInvariant => TypeOK
  BY DEF LifeInvariant
<1> QED BY <1>1, LifeAlways, PTL

\* "finalDisconnect called but state isn't disconnecting" is never logged, and
\* a client that finalDisconnect has finished with is in no list of the server
\* again, whatever commands, disconnect tasks and callers are on their way.
THEOREM GoneStaysGone == Spec => []GoneIsGone
<1>1. LifeInvariant => GoneIsGone
  BY DEF LifeInvariant
<1> QED BY <1>1, LifeAlways, PTL

\* "We're just dropping the command and all future commands."
THEOREM DroppedStaysDropped == Spec => []DroppedForGood
<1>1. LifeInvariant => DroppedForGood
  BY DEF LifeInvariant
<1> QED BY <1>1, LifeAlways, PTL

\* No step takes a client out of ConnectionState::DISCONNECTED, although the
\* join writes CONNECTED and the flush task DISCONNECTING.
DisconnectedIsFinal == [][state = "DISCONNECTED" => state' = "DISCONNECTED"]_vars

\* A client that is disconnected once is so for good.
THEOREM DisconnectedForGood == Spec => DisconnectedIsFinal
<1>1. ASSUME LifeInvariant, [Next]_vars, state = "DISCONNECTED"
      PROVE  state' = "DISCONNECTED"
  <2> USE <1>1 DEF LifeInvariant, Idle, Dropped
  <2>1. CASE handle_command
    BY <2>1 DEF handle_command
  <2>2. CASE Command
    BY <2>2 DEF Command, OtherCommand, RefusedClose, CommandThrows, ClientInit,
         NoDefaultChannel, JoinState, JoinChannel, ClientDisconnect,
         PostClientDisconnect, CommandStep
  <2>3. ASSUME NEW k \in Kicks, KickTask(k) PROVE state' = "DISCONNECTED"
    BY <2>3 DEF KickTask, KickState, KickMove, KickMark, KickSend, KickEnd
  <2>4. CASE FlushBegin \/ FlushSent \/ FlushTask \/ Delete
    BY <2>4 DEF FlushBegin, FlushSent, FlushTask, FlushAcknowledged, FlushResult,
         FlushNoDisconnect, FlushAwaiting, FinalState, FinalLeave,
         FinalUnregister, Delete
  <2>5. CASE ClientInitIv
    BY <2>5 DEF ClientInitIv, FirstInitIv
  <2>6. CASE \/ ResendFailed \/ IoClose \/ ReconnectClose \/ ReconnectMark
             \/ HandshakeTimeout \/ Kick \/ CloseByServer \/ Notify
             \/ StopClose \/ StopClear \/ StopSockets \/ Write \/ Acknowledge \/ Tick
    BY <2>6 DEF ResendFailed, IoClose, ReconnectClose, ReconnectMark,
         HandshakeTimeout, Kick, CloseByServer, Notify, StopClose, StopClear,
         StopSockets, Write, Acknowledge, Tick
  <2>7. CASE UNCHANGED vars
    BY <2>7 DEF vars
  <2> QED BY <2>1, <2>2, <2>3, <2>4, <2>5, <2>6, <2>7 DEF Next
<1> QED BY <1>1, LifeAlways, PTL DEF Spec, DisconnectedIsFinal

\* A client whose flush task waits for the queues when its socket is gone
\* waits for ever, with its command_lock: the wait has no deadline, so that no
\* acknowledge and no "after 5 seconds regardless" ends it.
THEOREM StrandedStays == Spec => StrandedForGood
<1>1. ASSUME LifeInvariant, [Next]_vars, Stranded
      PROVE  Stranded'
  <2> USE <1>1 DEF LifeInvariant, LockHolder, InFlush, GoneIsGone,
          FinalDisconnectStates, Stranded, netVars, callerVars, flushVars
  <2>1. CASE handle_command
    BY <2>1 DEF handle_command
  <2>2. CASE Command
    BY <2>2 DEF Command, OtherCommand, RefusedClose, CommandThrows, ClientInit,
         NoDefaultChannel, JoinState, JoinChannel, ClientDisconnect,
         PostClientDisconnect, CommandStep
  <2>3. ASSUME NEW k \in Kicks, KickTask(k) PROVE Stranded'
    <3>1. flush' = flush /\ UNCHANGED socket
      BY <2>3 DEF KickTask, KickState, KickMove, KickMark, KickSend, KickEnd,
           KickStep, close_connection
    <3>2. unsent'
      BY <2>3 DEF KickTask, KickState, KickMove, KickMark, KickSend, KickEnd, Send
    <3> QED BY <3>1, <3>2
  <2>4. CASE FlushBegin \/ FlushSent \/ FlushTask \/ Delete
    BY <2>4 DEF FlushBegin, FlushSent, Written, FlushTask, FlushAcknowledged,
         FlushResult, FlushNoDisconnect, FlushAwaiting, FinalState, FinalLeave,
         FinalUnregister, Delete, FlushStep
  <2>5. CASE ClientInitIv
    BY <2>5 DEF ClientInitIv, FirstInitIv
  <2>6. CASE \/ ResendFailed \/ IoClose \/ ReconnectClose \/ ReconnectMark
             \/ HandshakeTimeout \/ Kick \/ CloseByServer \/ Notify
    <3>1. flush' = flush /\ UNCHANGED socket
      BY <2>6 DEF ResendFailed, IoClose, ReconnectClose, ReconnectMark,
           HandshakeTimeout, Kick, CloseByServer, Notify, close_connection
    <3>2. unsent'
      BY <2>6 DEF ResendFailed, IoClose, ReconnectClose, ReconnectMark,
           HandshakeTimeout, Kick, CloseByServer, Notify, Send
    <3> QED BY <3>1, <3>2
  <2>7. CASE StopClose \/ StopClear \/ StopSockets \/ Write \/ Acknowledge \/ Tick
    <3>1. flush' = flush /\ ~Write /\ ~StopSockets
      BY <2>7 DEF StopClose, StopClear, StopSockets, Write, Acknowledge, Tick,
           close_connection
    <3>2. UNCHANGED <<unsent, socket>>
      BY <2>7, <3>1 DEF StopClose, StopClear, Acknowledge, Tick
    <3> QED BY <3>1, <3>2
  <2>8. CASE UNCHANGED vars
    BY <2>8 DEF vars
  <2> QED BY <2>1, <2>2, <2>3, <2>4, <2>5, <2>6, <2>7, <2>8 DEF Next
<1>2. LifeInvariant /\ Stranded => command_lock = "flush"
  BY DEF LifeInvariant, LockHolder, InFlush, Stranded
<1> QED BY <1>1, <1>2, LifeAlways, PTL DEF Spec, StrandedForGood
==============================================================================
