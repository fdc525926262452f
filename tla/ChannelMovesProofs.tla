-------------------------- MODULE ChannelMovesProofs --------------------------
(***************************************************************************)
(* Clients and channels agree, for any numbers of clients and channels.    *)
(* Three layers of invariants: who holds which lock (LockInvariant), what  *)
(* the end of a client and of a channel leave behind (Finished, NotJoined, *)
(* Emptied), and where the clients are (Places).  Places tells the clients *)
(* that were moved while their join had noted a channel from the others:   *)
(* such a client may stay in the list of the channel it was moved to, and  *)
(* that is all that can go wrong.                                          *)
(***************************************************************************)
EXTENDS ChannelMoves, TLAPS

\* A command that removes a client has that client's lock, whoever it is, and
\* a command that deletes a channel has channel_tree_mutex.
Holders ==
  \A c \in Clients :
    /\ command[c] = "removing" => command_lock[target[c]] = Command(c)
    /\ command[c] = "delete" <=> channel_tree = Command(c)
    /\ command[c] # "delete" => victims[c] = {}

LockInvariant == TypeOK /\ Holders

\* finalDisconnect: nobody executes a command of the client any more, nobody
\* who resolved it with ConnectedLockedClient is still at work, and
\* delete_channel, which has channel_tree_mutex, has not chosen it.
Finished ==
  \A c \in Clients :
    /\ flush[c] \in {"final", "leave", "unregister", "gone"} =>
         state[c] = "DISCONNECTED" /\ command[c] = "idle"
    /\ flush[c] \in {"leave", "unregister", "gone"} => connected[c] = {}
    /\ flush[c] = "gone" => ~registered[c]
    /\ command[c] = "kick" => Command(c) \in connected[target[c]]
    /\ \A t \in victims[c] : flush[t] \notin {"unregister", "gone"}

\* Nobody moves a client that has not joined.
NotJoined ==
  \A c \in Clients :
    /\ state[c] = "INIT_HIGH" => \/ command[c] \in {"idle", "handle"} /\ ~registered[c]
                                 \/ command[c] = "joining"
    /\ command[c] = "kick" => state[target[c]] # "INIT_HIGH"
    /\ \A t \in victims[c] : state[t] # "INIT_HIGH"

\* A command that deletes channel h is going to move t out of it.
Evicting(t, h) ==
  \E c \in Clients : command[c] = "delete" /\ goal[c] = h /\ t \in victims[c]

\* The default channel stays, and whoever is found in a deleted channel is
\* about to be moved out of it.
Emptied ==
  /\ channel[Default] = "present"
  /\ \A c \in Clients : command[c] = "delete" => goal[c] # Default
  /\ \A h \in Channels : channel[h] = "deleted" =>
       \A t \in Inhabitants(h) : Noted(t) \/ Evicting(t, h)

\* A client that has not joined is in no channel's list, not even in the one
\* it has noted, unless somebody moved it there, and a client that has left
\* has no channel again.
Places ==
  /\ MembersAgree
  /\ \A c \in Clients \ disturbed : state[c] = "INIT_HIGH" \/ Noted(c) =>
       \A h \in Channels : c \notin members[h]
  /\ \A c \in Clients : flush[c] \in {"unregister", "gone"} => currentChannel[c] = None
-----------------------------------------------------------------------------
\* The threads are told apart by what they are and whose they are.
LEMMA ThreadFacts ==
  /\ \A c \in Clients :
       /\ Command(c) \in Threads /\ KickTask(c) \in Threads /\ FlushTask(c) \in Threads
       /\ Command(c) # Free /\ KickTask(c) # Free /\ FlushTask(c) # Free
  /\ \A c, d \in Clients :
       /\ Command(c) = Command(d) => c = d
       /\ Command(c) # KickTask(d) /\ Command(c) # FlushTask(d)
       /\ KickTask(c) # FlushTask(d)
<1>1. \A c \in Clients :
        Command(c) \in Threads /\ KickTask(c) \in Threads /\ FlushTask(c) \in Threads
  BY DEF Command, KickTask, FlushTask, Threads
<1>2. \A c, d \in Clients :
        /\ Command(c) = Command(d) => c = d
        /\ Command(c) # KickTask(d) /\ Command(c) # FlushTask(d)
        /\ KickTask(c) # FlushTask(d)
  BY DEF Command, KickTask, FlushTask
<1> QED BY <1>1, <1>2, MovesAssumption

\* What client_move does to one client: it is moved, in its own eyes and in
\* those of the two channels, and noted down if that disturbs its join, or
\* nothing changes for it.
LEMMA ClientMove ==
  ASSUME TypeOK, NEW ts, NEW h, client_move(ts, h), NEW t \in Clients
  PROVE  IF t \in ts /\ Allowed(t, h)
         THEN /\ currentChannel'[t] = h
              /\ \A g \in Channels :
                   t \in members'[g] <=> g = h \/ (t \in members[g] /\ currentChannel[t] # g)
              /\ t \in disturbed' <=> t \in disturbed \/ Noted(t)
         ELSE /\ currentChannel'[t] = currentChannel[t]
              /\ \A g \in Channels : t \in members'[g] <=> t \in members[g]
              /\ t \in disturbed' <=> t \in disturbed
<1> DEFINE moved == {s \in ts : Allowed(s, h)}
<1>1. currentChannel'[t] = IF t \in moved THEN h ELSE currentChannel[t]
  BY DEF client_move
<1>2. ASSUME NEW g \in Channels
      PROVE  t \in members'[g] <=>
               \/ t \in members[g] /\ ~(t \in moved /\ currentChannel[t] = g)
               \/ g = h /\ t \in moved
  <2>1. members'[g] = (members[g] \ {s \in moved : currentChannel[s] = g})
                        \cup (IF g = h THEN moved ELSE {})
    BY DEF client_move
  <2> QED BY <2>1
<1>3. t \in moved <=> t \in ts /\ Allowed(t, h)
  OBVIOUS
<1>4. t \in disturbed' <=> t \in disturbed \/ (t \in moved /\ Noted(t))
  BY DEF client_move
<1> HIDE DEF moved
<1>5. CASE t \in moved
  BY <1>1, <1>2, <1>3, <1>4, <1>5
<1>6. CASE t \notin moved
  BY <1>1, <1>2, <1>3, <1>4, <1>6
<1> QED BY <1>5, <1>6
-----------------------------------------------------------------------------
\* Nobody has joined, no lock is held.
LEMMA MovesInit ==
  Init => LockInvariant /\ Finished /\ NotJoined /\ Emptied /\ Places
<1> SUFFICES ASSUME Init
             PROVE  LockInvariant /\ Finished /\ NotJoined /\ Emptied /\ Places
  OBVIOUS
<1> USE MovesAssumption DEF Init
<1>1. TypeOK
  BY DEF TypeOK, LockedByOwner
<1>2. Holders
  BY ThreadFacts DEF Holders
<1>3. Finished /\ NotJoined
  BY DEF Finished, NotJoined
<1>4. Emptied
  BY DEF Emptied, Inhabitants
<1>5. Places
  BY DEF Places, MembersAgree, Noted
<1> QED BY <1>1, <1>2, <1>3, <1>4, <1>5 DEF LockInvariant

\* Every action keeps the locks with their owners, whoever kicks, bans or evicts
\* whom, itself included.
LEMMA LockStep ==
  LockInvariant /\ [Next]_vars => LockInvariant'
<1> SUFFICES ASSUME LockInvariant, [Next]_vars
             PROVE  LockInvariant'
  OBVIOUS
<1> USE ThreadFacts, MovesAssumption DEF LockInvariant, TypeOK, LockedByOwner,
     Holders, placeVars, lockVars, commandVars
<1>1. ASSUME NEW c \in Clients, handle_command(c)
      PROVE  LockInvariant'
  BY <1>1 DEF handle_command
<1>2. ASSUME NEW c \in Clients, JoinState(c)
      PROVE  LockInvariant'
  BY <1>2 DEF JoinState, Step
<1>3. ASSUME NEW c \in Clients, JoinRead(c)
      PROVE  LockInvariant'
  BY <1>3 DEF JoinRead, Step
<1>4. ASSUME NEW c \in Clients, JoinClear(c)
      PROVE  LockInvariant'
  BY <1>4 DEF JoinClear, Step
<1>5. ASSUME NEW c \in Clients, MoveToGoal(c)
      PROVE  LockInvariant'
  BY <1>5 DEF MoveToGoal, TreeFree, Over, Unlocked, client_move
<1>6. ASSUME NEW c \in Clients, KickToDefault(c)
      PROVE  LockInvariant'
  BY <1>6 DEF KickToDefault, TreeFree, Released, Over, Unlocked, client_move
<1>7. ASSUME NEW c \in Clients, RemoveLock(c)
      PROVE  LockInvariant'
  BY <1>7 DEF RemoveLock, Step, Locks
<1>8. ASSUME NEW c \in Clients, Remove(c)
      PROVE  LockInvariant'
  BY <1>8 DEF Remove, Step, TreeFree, UnlocksTarget, Leave
<1>9. ASSUME NEW c \in Clients, Done(c)
      PROVE  LockInvariant'
  BY <1>9 DEF Done, Released, Over, Unlocked
<1>10. ASSUME NEW c \in Clients, DeleteMove(c)
       PROVE  LockInvariant'
  BY <1>10 DEF DeleteMove, Over, client_move
<1>11. ASSUME NEW c \in Clients, NEW t \in Clients, clientkick(c, t)
       PROVE  LockInvariant'
  <2>1. CASE command' = [command EXCEPT ![c] = "kick"]
    BY <1>11, <2>1 DEF clientkick, Step
  <2>2. CASE command' = [command EXCEPT ![c] = "remove"]
    BY <1>11, <2>2 DEF clientkick, Step
  <2> QED BY <1>11, <2>1, <2>2 DEF clientkick, Step
<1>12. ASSUME NEW c \in Clients, NEW t \in Clients, banclient(c, t)
       PROVE  LockInvariant'
  BY <1>12 DEF banclient, Step
<1>13. ASSUME NEW c \in Clients, NEW t \in Clients, DeleteLock(c, t)
       PROVE  LockInvariant'
  BY <1>13 DEF DeleteLock, Step
<1>14. ASSUME NEW c \in Clients, NEW t \in Clients, NEW h \in Channels,
              clientmove(c, t, h)
       PROVE  LockInvariant'
  BY <1>14 DEF clientmove, TreeFree, Over, Unlocked, Resolves, client_move
<1>15. ASSUME NEW c \in Clients, NEW h \in Channels, JoinChannel(c, h)
       PROVE  LockInvariant'
  BY <1>15 DEF JoinChannel, Step, TreeFree
<1>16. ASSUME NEW c \in Clients, NEW h \in Channels, channelcreate(c, h)
       PROVE  LockInvariant'
  <2>1. CASE command' = [command EXCEPT ![c] = "move"]
    BY <1>16, <2>1 DEF channelcreate, Step, TreeFree
  <2>2. CASE command' = [command EXCEPT ![c] = "done"]
    BY <1>16, <2>2 DEF channelcreate, Step, TreeFree
  <2> QED BY <1>16, <2>1, <2>2 DEF channelcreate, Step, TreeFree
<1>17. ASSUME NEW c \in Clients, NEW h \in Channels, channeldelete(c, h)
       PROVE  LockInvariant'
  BY <1>17 DEF channeldelete, Step, TreeFree, Inhabitants
<1>18. ASSUME NEW c \in Clients, KickState(c)
       PROVE  LockInvariant'
  BY <1>18 DEF KickState, TaskStep
<1>19. ASSUME NEW c \in Clients, KickLock(c)
       PROVE  LockInvariant'
  BY <1>19 DEF KickLock, TaskStep
<1>20. ASSUME NEW c \in Clients, KickMove(c)
       PROVE  LockInvariant'
  BY <1>20 DEF KickMove, TaskStep, TreeFree, Unlocked, Leave
<1>21. ASSUME NEW c \in Clients, FlushBegin(c)
       PROVE  LockInvariant'
  BY <1>21 DEF FlushBegin, TaskStep
<1>22. ASSUME NEW c \in Clients, FlushAgain(c)
       PROVE  LockInvariant'
  BY <1>22 DEF FlushAgain, TaskStep, Unlocked
<1>23. ASSUME NEW c \in Clients, FinalState(c)
       PROVE  LockInvariant'
  BY <1>23 DEF FinalState, TaskStep
<1>24. ASSUME NEW c \in Clients, FinalLock(c)
       PROVE  LockInvariant'
  BY <1>24 DEF FinalLock, TaskStep, NobodyHas
<1>25. ASSUME NEW c \in Clients, FinalLeave(c)
       PROVE  LockInvariant'
  BY <1>25 DEF FinalLeave, TaskStep, TreeFree, Leave
<1>26. ASSUME NEW c \in Clients, FinalUnregister(c)
       PROVE  LockInvariant'
  BY <1>26 DEF FinalUnregister, TaskStep, Unlocked
<1>27. ASSUME NEW h \in Channels, Heartbeat(h)
       PROVE  LockInvariant'
  BY <1>27 DEF Heartbeat, TreeFree
<1>28. CASE UNCHANGED vars
  BY <1>28 DEF vars
<1> QED BY <1>1, <1>2, <1>3, <1>4, <1>5, <1>6, <1>7, <1>8, <1>9, <1>10, <1>11,
     <1>12, <1>13, <1>14, <1>15, <1>16, <1>17, <1>18, <1>19, <1>20, <1>21,
     <1>22, <1>23, <1>24, <1>25, <1>26, <1>27, <1>28 DEF Next

\* No action brings back a client that finalDisconnect has locked.
LEMMA FinishedStep ==
  LockInvariant /\ Finished /\ [Next]_vars => Finished'
<1> SUFFICES ASSUME LockInvariant, Finished, [Next]_vars
             PROVE  Finished'
  OBVIOUS
<1> USE ThreadFacts, MovesAssumption DEF LockInvariant, TypeOK, LockedByOwner,
     Holders, placeVars, lockVars, commandVars, Finished, Dropped
<1>1. ASSUME NEW c \in Clients, handle_command(c)
      PROVE  Finished'
  BY <1>1 DEF handle_command
<1>2. ASSUME NEW c \in Clients, JoinState(c)
      PROVE  Finished'
  BY <1>2 DEF JoinState, Step
<1>3. ASSUME NEW c \in Clients, JoinRead(c)
      PROVE  Finished'
  BY <1>3 DEF JoinRead, Step
<1>4. ASSUME NEW c \in Clients, JoinClear(c)
      PROVE  Finished'
  BY <1>4 DEF JoinClear, Step
<1>5. ASSUME NEW c \in Clients, MoveToGoal(c)
      PROVE  Finished'
  BY <1>5 DEF MoveToGoal, TreeFree, Over, Unlocked, client_move
<1>6. ASSUME NEW c \in Clients, KickToDefault(c)
      PROVE  Finished'
  BY <1>6 DEF KickToDefault, TreeFree, Released, Over, Unlocked, client_move
<1>7. ASSUME NEW c \in Clients, RemoveLock(c)
      PROVE  Finished'
  BY <1>7 DEF RemoveLock, Step, Locks
<1>8. ASSUME NEW c \in Clients, Remove(c)
      PROVE  Finished'
  BY <1>8 DEF Remove, Step, TreeFree, UnlocksTarget, Leave
<1>9. ASSUME NEW c \in Clients, Done(c)
      PROVE  Finished'
  BY <1>9 DEF Done, Released, Over, Unlocked
<1>10. ASSUME NEW c \in Clients, DeleteMove(c)
       PROVE  Finished'
  BY <1>10 DEF DeleteMove, Over, client_move
<1>11. ASSUME NEW c \in Clients, NEW t \in Clients, clientkick(c, t)
       PROVE  Finished'
  BY <1>11 DEF clientkick, Step, Resolves
<1>12. ASSUME NEW c \in Clients, NEW t \in Clients, banclient(c, t)
       PROVE  Finished'
  BY <1>12 DEF banclient, Step
<1>13. ASSUME NEW c \in Clients, NEW t \in Clients, DeleteLock(c, t)
       PROVE  Finished'
  BY <1>13 DEF DeleteLock, Step
<1>14. ASSUME NEW c \in Clients, NEW t \in Clients, NEW h \in Channels,
              clientmove(c, t, h)
       PROVE  Finished'
  BY <1>14 DEF clientmove, TreeFree, Over, Unlocked, Resolves, client_move
<1>15. ASSUME NEW c \in Clients, NEW h \in Channels, JoinChannel(c, h)
       PROVE  Finished'
  BY <1>15 DEF JoinChannel, Step, TreeFree
<1>16. ASSUME NEW c \in Clients, NEW h \in Channels, channelcreate(c, h)
       PROVE  Finished'
  BY <1>16 DEF channelcreate, Step, TreeFree
<1>17. ASSUME NEW c \in Clients, NEW h \in Channels, channeldelete(c, h)
       PROVE  Finished'
  BY <1>17 DEF channeldelete, Step, TreeFree, Inhabitants
<1>18. ASSUME NEW c \in Clients, KickState(c)
       PROVE  Finished'
  BY <1>18 DEF KickState, TaskStep
<1>19. ASSUME NEW c \in Clients, KickLock(c)
       PROVE  Finished'
  BY <1>19 DEF KickLock, TaskStep
<1>20. ASSUME NEW c \in Clients, KickMove(c)
       PROVE  Finished'
  BY <1>20 DEF KickMove, TaskStep, TreeFree, Unlocked, Leave
<1>21. ASSUME NEW c \in Clients, FlushBegin(c)
       PROVE  Finished'
  BY <1>21 DEF FlushBegin, TaskStep
<1>22. ASSUME NEW c \in Clients, FlushAgain(c)
       PROVE  Finished'
  BY <1>22 DEF FlushAgain, TaskStep, Unlocked
<1>23. ASSUME NEW c \in Clients, FinalState(c)
       PROVE  Finished'
  BY <1>23 DEF FinalState, TaskStep
<1>24. ASSUME NEW c \in Clients, FinalLock(c)
       PROVE  Finished'
  BY <1>24 DEF FinalLock, TaskStep, NobodyHas
<1>25. ASSUME NEW c \in Clients, FinalLeave(c)
       PROVE  Finished'
  BY <1>25 DEF FinalLeave, TaskStep, TreeFree, Leave
<1>26. ASSUME NEW c \in Clients, FinalUnregister(c)
       PROVE  Finished'
  BY <1>26 DEF FinalUnregister, TaskStep, Unlocked
<1>27. ASSUME NEW h \in Channels, Heartbeat(h)
       PROVE  Finished'
  BY <1>27 DEF Heartbeat, TreeFree
<1>28. CASE UNCHANGED vars
  BY <1>28 DEF vars
<1> QED BY <1>1, <1>2, <1>3, <1>4, <1>5, <1>6, <1>7, <1>8, <1>9, <1>10, <1>11,
     <1>12, <1>13, <1>14, <1>15, <1>16, <1>17, <1>18, <1>19, <1>20, <1>21,
     <1>22, <1>23, <1>24, <1>25, <1>26, <1>27, <1>28 DEF Next

\* A client joins before anybody can resolve it.
LEMMA NotJoinedStep ==
  LockInvariant /\ Finished /\ NotJoined /\ [Next]_vars => NotJoined'
<1> SUFFICES ASSUME LockInvariant, Finished, NotJoined, [Next]_vars
             PROVE  NotJoined'
  OBVIOUS
<1> USE ThreadFacts, MovesAssumption DEF LockInvariant, TypeOK, LockedByOwner,
     Holders, placeVars, lockVars, commandVars, NotJoined, Dropped
<1>1. ASSUME NEW c \in Clients, handle_command(c)
      PROVE  NotJoined'
  BY <1>1 DEF handle_command
<1>2. ASSUME NEW c \in Clients, JoinState(c)
      PROVE  NotJoined'
  BY <1>2 DEF JoinState, Step
<1>3. ASSUME NEW c \in Clients, JoinRead(c)
      PROVE  NotJoined'
  BY <1>3 DEF JoinRead, Step
<1>4. ASSUME NEW c \in Clients, JoinClear(c)
      PROVE  NotJoined'
  BY <1>4 DEF JoinClear, Step
<1>5. ASSUME NEW c \in Clients, MoveToGoal(c)
      PROVE  NotJoined'
  BY <1>5 DEF MoveToGoal, TreeFree, Over, Unlocked, client_move
<1>6. ASSUME NEW c \in Clients, KickToDefault(c)
      PROVE  NotJoined'
  BY <1>6 DEF KickToDefault, TreeFree, Released, Over, Unlocked, client_move
<1>7. ASSUME NEW c \in Clients, RemoveLock(c)
      PROVE  NotJoined'
  BY <1>7 DEF RemoveLock, Step, Locks
<1>8. ASSUME NEW c \in Clients, Remove(c)
      PROVE  NotJoined'
  BY <1>8 DEF Remove, Step, TreeFree, UnlocksTarget, Leave
<1>9. ASSUME NEW c \in Clients, Done(c)
      PROVE  NotJoined'
  BY <1>9 DEF Done, Released, Over, Unlocked
<1>10. ASSUME NEW c \in Clients, DeleteMove(c)
       PROVE  NotJoined'
  BY <1>10 DEF DeleteMove, Over, client_move
<1>11. ASSUME NEW c \in Clients, NEW t \in Clients, clientkick(c, t)
       PROVE  NotJoined'
  BY <1>11 DEF clientkick, Step, Resolves
<1>12. ASSUME NEW c \in Clients, NEW t \in Clients, banclient(c, t)
       PROVE  NotJoined'
  BY <1>12 DEF banclient, Step
<1>13. ASSUME NEW c \in Clients, NEW t \in Clients, DeleteLock(c, t)
       PROVE  NotJoined'
  BY <1>13 DEF DeleteLock, Step
<1>14. ASSUME NEW c \in Clients, NEW t \in Clients, NEW h \in Channels,
              clientmove(c, t, h)
       PROVE  NotJoined'
  BY <1>14 DEF clientmove, TreeFree, Over, Unlocked, Resolves, client_move
<1>15. ASSUME NEW c \in Clients, NEW h \in Channels, JoinChannel(c, h)
       PROVE  NotJoined'
  BY <1>15 DEF JoinChannel, Step, TreeFree
<1>16. ASSUME NEW c \in Clients, NEW h \in Channels, channelcreate(c, h)
       PROVE  NotJoined'
  BY <1>16 DEF channelcreate, Step, TreeFree
<1>17. ASSUME NEW c \in Clients, NEW h \in Channels, channeldelete(c, h)
       PROVE  NotJoined'
  BY <1>17 DEF channeldelete, Step, TreeFree, Inhabitants
<1>18. ASSUME NEW c \in Clients, KickState(c)
       PROVE  NotJoined'
  BY <1>18 DEF KickState, TaskStep
<1>19. ASSUME NEW c \in Clients, KickLock(c)
       PROVE  NotJoined'
  BY <1>19 DEF KickLock, TaskStep
<1>20. ASSUME NEW c \in Clients, KickMove(c)
       PROVE  NotJoined'
  BY <1>20 DEF KickMove, TaskStep, TreeFree, Unlocked, Leave
<1>21. ASSUME NEW c \in Clients, FlushBegin(c)
       PROVE  NotJoined'
  BY <1>21 DEF FlushBegin, TaskStep
<1>22. ASSUME NEW c \in Clients, FlushAgain(c)
       PROVE  NotJoined'
  BY <1>22 DEF FlushAgain, TaskStep, Unlocked
<1>23. ASSUME NEW c \in Clients, FinalState(c)
       PROVE  NotJoined'
  BY <1>23 DEF FinalState, TaskStep
<1>24. ASSUME NEW c \in Clients, FinalLock(c)
       PROVE  NotJoined'
  BY <1>24 DEF FinalLock, TaskStep, NobodyHas
<1>25. ASSUME NEW c \in Clients, FinalLeave(c)
       PROVE  NotJoined'
  BY <1>25 DEF FinalLeave, TaskStep, TreeFree, Leave
<1>26. ASSUME NEW c \in Clients, FinalUnregister(c)
       PROVE  NotJoined'
  BY <1>26 DEF FinalUnregister, TaskStep, Unlocked
<1>27. ASSUME NEW h \in Channels, Heartbeat(h)
       PROVE  NotJoined'
  BY <1>27 DEF Heartbeat, TreeFree
<1>28. CASE UNCHANGED vars
  BY <1>28 DEF vars
<1> QED BY <1>1, <1>2, <1>3, <1>4, <1>5, <1>6, <1>7, <1>8, <1>9, <1>10, <1>11,
     <1>12, <1>13, <1>14, <1>15, <1>16, <1>17, <1>18, <1>19, <1>20, <1>21,
     <1>22, <1>23, <1>24, <1>25, <1>26, <1>27, <1>28 DEF Next

\* No action leaves somebody in a deleted channel: delete_channel has chosen all
\* who are there, and nobody enters it any more.
LEMMA EmptiedStep ==
  LockInvariant /\ Emptied /\ [Next]_vars => Emptied'
<1> SUFFICES ASSUME LockInvariant, Emptied, [Next]_vars
             PROVE  Emptied'
  OBVIOUS
<1> USE ThreadFacts, MovesAssumption DEF LockInvariant, TypeOK, LockedByOwner,
     Holders, placeVars, lockVars, commandVars, Emptied, Evicting,
     Inhabitants, Noted, Allowed
<1>1. ASSUME NEW c \in Clients, handle_command(c)
      PROVE  Emptied'
  BY <1>1 DEF handle_command
<1>2. ASSUME NEW c \in Clients, JoinState(c)
      PROVE  Emptied'
  BY <1>2 DEF JoinState, Step
<1>3. ASSUME NEW c \in Clients, JoinRead(c)
      PROVE  Emptied'
  BY <1>3 DEF JoinRead, Step
<1>4. ASSUME NEW c \in Clients, JoinClear(c)
      PROVE  Emptied'
  BY <1>4 DEF JoinClear, Step
<1>5. ASSUME NEW c \in Clients, MoveToGoal(c)
      PROVE  Emptied'
  BY <1>5 DEF MoveToGoal, TreeFree, Over, Unlocked, client_move
<1>6. ASSUME NEW c \in Clients, KickToDefault(c)
      PROVE  Emptied'
  <2>1. client_move({target[c]}, Default) /\ UNCHANGED <<state, channel>>
    BY <1>6 DEF KickToDefault
  <2>2. /\ \A d \in Clients : command'[d] = "delete" <=> command[d] = "delete"
        /\ \A d \in Clients : command[d] = "delete" =>
                               goal'[d] = goal[d] /\ victims'[d] = victims[d]
        /\ \A d \in Clients : Noted(d)' <=> Noted(d)
    BY <1>6 DEF KickToDefault, Over
  <2>3. members' \in [Channels -> SUBSET Clients]
    BY LockStep
  <2>4. \A s \in Clients : \A g \in Channels :
          g # Default /\ s \in members'[g] /\ currentChannel'[s] = g =>
            s \in members[g] /\ currentChannel[s] = g
    BY <2>1, ClientMove
  <2>5. ASSUME NEW g \in Channels, channel'[g] = "deleted", NEW s \in Inhabitants(g)'
        PROVE  Noted(s)' \/ Evicting(s, g)'
    <3>1. s \in Clients /\ g # Default /\ channel[g] = "deleted"
      BY <2>1, <2>3, <2>5
    <3>2. s \in Inhabitants(g)
      BY <2>1, <2>4, <2>5, <3>1
    <3>3. Noted(s) \/ Evicting(s, g)
      BY <3>1, <3>2
    <3> QED BY <2>2, <3>1, <3>3
  <2> QED BY <2>1, <2>2, <2>5
<1>7. ASSUME NEW c \in Clients, RemoveLock(c)
      PROVE  Emptied'
  BY <1>7 DEF RemoveLock, Step, Locks
<1>8. ASSUME NEW c \in Clients, Remove(c)
      PROVE  Emptied'
  BY <1>8 DEF Remove, Step, TreeFree, UnlocksTarget, Leave
<1>9. ASSUME NEW c \in Clients, Done(c)
      PROVE  Emptied'
  BY <1>9 DEF Done, Released, Over, Unlocked
<1>10. ASSUME NEW c \in Clients, DeleteMove(c)
       PROVE  Emptied'
  BY <1>10 DEF DeleteMove, Over, client_move
<1>11. ASSUME NEW c \in Clients, NEW t \in Clients, clientkick(c, t)
       PROVE  Emptied'
  <2>1. CASE command' = [command EXCEPT ![c] = "kick"]
    BY <1>11, <2>1 DEF clientkick, Step
  <2>2. CASE command' = [command EXCEPT ![c] = "remove"]
    BY <1>11, <2>2 DEF clientkick, Step
  <2> QED BY <1>11, <2>1, <2>2 DEF clientkick, Step
<1>12. ASSUME NEW c \in Clients, NEW t \in Clients, banclient(c, t)
       PROVE  Emptied'
  BY <1>12 DEF banclient, Step
<1>13. ASSUME NEW c \in Clients, NEW t \in Clients, DeleteLock(c, t)
       PROVE  Emptied'
  BY <1>13 DEF DeleteLock, Step
<1>14. ASSUME NEW c \in Clients, NEW t \in Clients, NEW h \in Channels,
              clientmove(c, t, h)
       PROVE  Emptied'
  <2>1. /\ channel'[Default] = "present" /\ channel'[h] = "present"
        /\ \A g \in Channels : channel'[g] = "deleted" =>
             channel[g] = "deleted" \/ Inhabitants(g) \subseteq {t}
    BY <1>14 DEF clientmove
  <2>2. /\ \A d \in Clients : command'[d] = "delete" <=> command[d] = "delete"
        /\ \A d \in Clients : command[d] = "delete" =>
                               goal'[d] = goal[d] /\ victims'[d] = victims[d]
        /\ \A d \in Clients : Noted(d)' <=> Noted(d)
        /\ state' = state
    BY <1>14 DEF clientmove, Over
  <2>3. Allowed(t, h) /\ client_move({t}, h)
    BY <1>14 DEF clientmove
  <2>4. currentChannel'[t] = h
    BY <2>3, ClientMove
  <2>5. \A s \in Clients : s # t =>
          /\ currentChannel'[s] = currentChannel[s]
          /\ \A g \in Channels : s \in members'[g] <=> s \in members[g]
    BY <2>3, ClientMove
  <2>6. members' \in [Channels -> SUBSET Clients]
    BY LockStep
  <2>7. ASSUME NEW g \in Channels, channel'[g] = "deleted", NEW s \in Inhabitants(g)'
        PROVE  Noted(s)' \/ Evicting(s, g)'
    <3>1. s \in Clients /\ s # t
      BY <2>1, <2>4, <2>6, <2>7
    <3>2. s \in Inhabitants(g)
      BY <2>2, <2>5, <2>7, <3>1
    <3>3. channel[g] = "deleted"
      BY <2>1, <2>7, <3>1, <3>2
    <3>4. Noted(s) \/ Evicting(s, g)
      BY <3>2, <3>3
    <3> QED BY <2>2, <3>1, <3>4
  <2> QED BY <2>1, <2>2, <2>7
<1>15. ASSUME NEW c \in Clients, NEW h \in Channels, JoinChannel(c, h)
       PROVE  Emptied'
  BY <1>15 DEF JoinChannel, Step, TreeFree
<1>16. ASSUME NEW c \in Clients, NEW h \in Channels, channelcreate(c, h)
       PROVE  Emptied'
  <2>1. CASE command' = [command EXCEPT ![c] = "move"]
    BY <1>16, <2>1 DEF channelcreate, Step, TreeFree
  <2>2. CASE command' = [command EXCEPT ![c] = "done"]
    BY <1>16, <2>2 DEF channelcreate, Step, TreeFree
  <2> QED BY <1>16, <2>1, <2>2 DEF channelcreate, Step, TreeFree
<1>17. ASSUME NEW c \in Clients, NEW h \in Channels, channeldelete(c, h)
       PROVE  Emptied'
  BY <1>17 DEF channeldelete, Step, TreeFree, Inhabitants
<1>18. ASSUME NEW c \in Clients, KickState(c)
       PROVE  Emptied'
  BY <1>18 DEF KickState, TaskStep
<1>19. ASSUME NEW c \in Clients, KickLock(c)
       PROVE  Emptied'
  BY <1>19 DEF KickLock, TaskStep
<1>20. ASSUME NEW c \in Clients, KickMove(c)
       PROVE  Emptied'
  BY <1>20 DEF KickMove, TaskStep, TreeFree, Unlocked, Leave
<1>21. ASSUME NEW c \in Clients, FlushBegin(c)
       PROVE  Emptied'
  BY <1>21 DEF FlushBegin, TaskStep
<1>22. ASSUME NEW c \in Clients, FlushAgain(c)
       PROVE  Emptied'
  BY <1>22 DEF FlushAgain, TaskStep, Unlocked
<1>23. ASSUME NEW c \in Clients, FinalState(c)
       PROVE  Emptied'
  BY <1>23 DEF FinalState, TaskStep
<1>24. ASSUME NEW c \in Clients, FinalLock(c)
       PROVE  Emptied'
  BY <1>24 DEF FinalLock, TaskStep, NobodyHas
<1>25. ASSUME NEW c \in Clients, FinalLeave(c)
       PROVE  Emptied'
  BY <1>25 DEF FinalLeave, TaskStep, TreeFree, Leave
<1>26. ASSUME NEW c \in Clients, FinalUnregister(c)
       PROVE  Emptied'
  BY <1>26 DEF FinalUnregister, TaskStep, Unlocked
<1>27. ASSUME NEW h \in Channels, Heartbeat(h)
       PROVE  Emptied'
  BY <1>27 DEF Heartbeat, TreeFree
<1>28. CASE UNCHANGED vars
  BY <1>28 DEF vars
<1> QED BY <1>1, <1>2, <1>3, <1>4, <1>5, <1>6, <1>7, <1>8, <1>9, <1>10, <1>11,
     <1>12, <1>13, <1>14, <1>15, <1>16, <1>17, <1>18, <1>19, <1>20, <1>21,
     <1>22, <1>23, <1>24, <1>25, <1>26, <1>27, <1>28 DEF Next

\* Every action tells the channels what it tells the client.  The lists may only
\* differ from currentChannel while the join has noted a channel, and a move in
\* that time is remembered.
LEMMA PlacesStep ==
  LockInvariant /\ Finished /\ NotJoined /\ Places /\ [Next]_vars => Places'
<1> SUFFICES ASSUME LockInvariant, Finished, NotJoined, Places, [Next]_vars
             PROVE  Places'
  OBVIOUS
<1> USE ThreadFacts, MovesAssumption DEF LockInvariant, TypeOK, LockedByOwner,
     Holders, placeVars, lockVars, commandVars, Finished, NotJoined, Places,
     MembersAgree, Noted, Allowed, Dropped
<1>1. ASSUME NEW c \in Clients, handle_command(c)
      PROVE  Places'
  BY <1>1 DEF handle_command
<1>2. ASSUME NEW c \in Clients, JoinState(c)
      PROVE  Places'
  BY <1>2 DEF JoinState, Step
<1>3. ASSUME NEW c \in Clients, JoinRead(c)
      PROVE  Places'
  BY <1>3 DEF JoinRead, Step
<1>4. ASSUME NEW c \in Clients, JoinClear(c)
      PROVE  Places'
  BY <1>4 DEF JoinClear, Step
<1>5. ASSUME NEW c \in Clients, MoveToGoal(c)
      PROVE  Places'
  <2>1. /\ command[c] = "move" /\ state[c] # "INIT_HIGH"
        /\ flush[c] \notin {"unregister", "gone"}
    BY <1>5 DEF MoveToGoal
  <2>2. /\ command' = [command EXCEPT ![c] = "idle"]
        /\ UNCHANGED <<state, flush>>
    BY <1>5 DEF MoveToGoal, Over
  <2>3. c \notin disturbed => \A h \in Channels : c \in members[h] <=> currentChannel[c] = h
    BY <2>1
  <2>4. client_move({c}, goal[c])
    BY <1>5 DEF MoveToGoal
  <2>5. c \notin disturbed' => \A h \in Channels : c \in members'[h] <=> currentChannel'[c] = h
    BY <2>3, <2>4, ClientMove
  <2>6. \A t \in Clients : t # c =>
          /\ currentChannel'[t] = currentChannel[t]
          /\ \A h \in Channels : t \in members'[h] <=> t \in members[h]
          /\ t \in disturbed' <=> t \in disturbed
    BY <2>4, ClientMove
  <2> QED BY <2>1, <2>2, <2>5, <2>6
<1>6. ASSUME NEW c \in Clients, KickToDefault(c)
      PROVE  Places'
  BY <1>6 DEF KickToDefault, TreeFree, Released, Over, Unlocked, client_move
<1>7. ASSUME NEW c \in Clients, RemoveLock(c)
      PROVE  Places'
  BY <1>7 DEF RemoveLock, Step, Locks
<1>8. ASSUME NEW c \in Clients, Remove(c)
      PROVE  Places'
  BY <1>8 DEF Remove, Step, TreeFree, UnlocksTarget, Leave
<1>9. ASSUME NEW c \in Clients, Done(c)
      PROVE  Places'
  BY <1>9 DEF Done, Released, Over, Unlocked
<1>10. ASSUME NEW c \in Clients, DeleteMove(c)
       PROVE  Places'
  BY <1>10 DEF DeleteMove, Over, client_move
<1>11. ASSUME NEW c \in Clients, NEW t \in Clients, clientkick(c, t)
       PROVE  Places'
  <2>1. CASE command' = [command EXCEPT ![c] = "kick"]
    BY <1>11, <2>1 DEF clientkick, Step
  <2>2. CASE command' = [command EXCEPT ![c] = "remove"]
    BY <1>11, <2>2 DEF clientkick, Step
  <2> QED BY <1>11, <2>1, <2>2 DEF clientkick, Step
<1>12. ASSUME NEW c \in Clients, NEW t \in Clients, banclient(c, t)
       PROVE  Places'
  BY <1>12 DEF banclient, Step
<1>13. ASSUME NEW c \in Clients, NEW t \in Clients, DeleteLock(c, t)
       PROVE  Places'
  BY <1>13 DEF DeleteLock, Step
<1>14. ASSUME NEW c \in Clients, NEW t \in Clients, NEW h \in Channels,
              clientmove(c, t, h)
       PROVE  Places'
  BY <1>14 DEF clientmove, TreeFree, Over, Unlocked, Resolves, client_move
<1>15. ASSUME NEW c \in Clients, NEW h \in Channels, JoinChannel(c, h)
       PROVE  Places'
  BY <1>15 DEF JoinChannel, Step, TreeFree
<1>16. ASSUME NEW c \in Clients, NEW h \in Channels, channelcreate(c, h)
       PROVE  Places'
  <2>1. CASE command' = [command EXCEPT ![c] = "move"]
    BY <1>16, <2>1 DEF channelcreate, Step, TreeFree
  <2>2. CASE command' = [command EXCEPT ![c] = "done"]
    BY <1>16, <2>2 DEF channelcreate, Step, TreeFree
  <2> QED BY <1>16, <2>1, <2>2 DEF channelcreate, Step, TreeFree
<1>17. ASSUME NEW c \in Clients, NEW h \in Channels, channeldelete(c, h)
       PROVE  Places'
  BY <1>17 DEF channeldelete, Step, TreeFree, Inhabitants
<1>18. ASSUME NEW c \in Clients, KickState(c)
       PROVE  Places'
  BY <1>18 DEF KickState, TaskStep
<1>19. ASSUME NEW c \in Clients, KickLock(c)
       PROVE  Places'
  BY <1>19 DEF KickLock, TaskStep
<1>20. ASSUME NEW c \in Clients, KickMove(c)
       PROVE  Places'
  BY <1>20 DEF KickMove, TaskStep, TreeFree, Unlocked, Leave
<1>21. ASSUME NEW c \in Clients, FlushBegin(c)
       PROVE  Places'
  BY <1>21 DEF FlushBegin, TaskStep
<1>22. ASSUME NEW c \in Clients, FlushAgain(c)
       PROVE  Places'
  BY <1>22 DEF FlushAgain, TaskStep, Unlocked
<1>23. ASSUME NEW c \in Clients, FinalState(c)
       PROVE  Places'
  BY <1>23 DEF FinalState, TaskStep
<1>24. ASSUME NEW c \in Clients, FinalLock(c)
       PROVE  Places'
  BY <1>24 DEF FinalLock, TaskStep, NobodyHas
<1>25. ASSUME NEW c \in Clients, FinalLeave(c)
       PROVE  Places'
  BY <1>25 DEF FinalLeave, TaskStep, TreeFree, Leave
<1>26. ASSUME NEW c \in Clients, FinalUnregister(c)
       PROVE  Places'
  BY <1>26 DEF FinalUnregister, TaskStep, Unlocked
<1>27. ASSUME NEW h \in Channels, Heartbeat(h)
       PROVE  Places'
  BY <1>27 DEF Heartbeat, TreeFree
<1>28. CASE UNCHANGED vars
  BY <1>28 DEF vars
<1> QED BY <1>1, <1>2, <1>3, <1>4, <1>5, <1>6, <1>7, <1>8, <1>9, <1>10, <1>11,
     <1>12, <1>13, <1>14, <1>15, <1>16, <1>17, <1>18, <1>19, <1>20, <1>21,
     <1>22, <1>23, <1>24, <1>25, <1>26, <1>27, <1>28 DEF Next
-----------------------------------------------------------------------------
\* The locks are with their owners in every execution.
LEMMA LockAlways == Spec => []LockInvariant
  BY MovesInit, LockStep, PTL DEF Spec

\* So is everything that the end of a client promises.
LEMMA FinishedAlways == Spec => [](Finished /\ NotJoined)
<1>1. Init => Finished /\ NotJoined
  BY MovesInit
<1>2. LockInvariant /\ (Finished /\ NotJoined) /\ [Next]_vars => (Finished /\ NotJoined)'
  BY FinishedStep, NotJoinedStep
<1> QED BY <1>1, <1>2, LockAlways, PTL DEF Spec

\* The types, and whoever is between lock and unlock of a command_lock has it
\* alone: also after a client has kicked, banned or evicted itself.
THEOREM MovesTypeCorrect == Spec => []TypeOK
<1>1. LockInvariant => TypeOK
  BY DEF LockInvariant
<1> QED BY <1>1, LockAlways, PTL

\* delete_channel, clientmove and the heartbeat leave no connected client in a
\* deleted channel, even if joining clients are moved about.
THEOREM DeletedChannelsAreEmpty == Spec => []NobodyLeftBehind
<1>1. LockInvariant /\ Emptied => NobodyLeftBehind
  BY ThreadFacts DEF LockInvariant, Holders, Emptied, Evicting, NobodyLeftBehind
<1>2. Init => Emptied
  BY MovesInit
<1> QED BY <1>1, <1>2, LockAlways, EmptiedStep, PTL DEF Spec

\* Where the clients are, in every execution.
LEMMA PlacesAlways == Spec => []Places
<1>1. Init => Places
  BY MovesInit
<1>2. LockInvariant /\ (Finished /\ NotJoined) /\ Places /\ [Next]_vars => Places'
  BY PlacesStep
<1> QED BY <1>1, <1>2, LockAlways, FinishedAlways, PTL DEF Spec

\* The channel a client believes to be in and the channels' lists of clients
\* agree for every client that was not moved in the middle of its join,
\* whatever happened to others.
THEOREM MembersAlwaysAgree == Spec => []MembersAgree
<1>1. Places => MembersAgree
  BY DEF Places
<1> QED BY <1>1, PlacesAlways, PTL

\* No command that has resolved a client brings it back into a channel or into
\* a list after finalDisconnect: finalDisconnectLock, command_lock and
\* channel_tree_mutex together keep ghosts out.  All that can remain is the
\* entry of a client that was moved in the middle of its join.
THEOREM NoGhosts == Spec => []GoneHasLeft
<1>1. LockInvariant /\ (Finished /\ NotJoined) /\ Places => GoneHasLeft
  BY MovesAssumption DEF LockInvariant, TypeOK, Finished, Places, MembersAgree, Noted,
     GoneHasLeft
<1> QED BY <1>1, LockAlways, FinishedAlways, PlacesAlways, PTL
===============================================================================
