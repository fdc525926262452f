----------------------------- MODULE ChannelMoves -----------------------------
(***************************************************************************)
(* Clients and the channels they are in: the join, clientmove, clientkick, *)
(* banclient, channelcreate and channeldelete as they are executed for     *)
(* several clients at a time, the disconnect and the flush task of every   *)
(* client, and the heartbeat that deletes empty channels.  They meet at    *)
(*   - command_lock of a client, held by its own command, by a command     *)
(*     that kicks, bans or evicts it and by its disconnect and flush task; *)
(*   - channel_tree_mutex, which every move takes (in one step, but for    *)
(*     delete_channel, which waits for other locks while it has it);       *)
(*   - finalDisconnectLock of a client, shared by the commands that have   *)
(*     resolved it with ConnectedLockedClient, exclusive in                *)
(*     finalDisconnect.                                                    *)
(* VoiceClient has the details of how a client is closed; here every       *)
(* client may be disconnected or closed at any time.  The channels are     *)
(* siblings.                                                               *)
(***************************************************************************)
EXTENDS FiniteSets

CONSTANTS Clients, Channels,
          Default,        \* the default channel, which cannot be deleted
          None, Free

VARIABLES
  state,                  \* ConnectionState of a client
  registered,             \* it is in VirtualServer::clients
  currentChannel,
  channel,                \* "unused", "present" or "deleted"
  members,                \* ServerChannel::clients
  disturbed,              \* history: clients that were moved in the middle
                          \* of their join
  command_lock,           \* per client: who holds it, or Free
  channel_tree,           \* who holds channel_tree_mutex over a step
  connected,              \* per client: who shares its finalDisconnectLock
  command, target, goal,  \* per client: its command is where; about whom;
                          \* to which channel
  victims,                \* ... whom delete_channel moves away
  kick, flush             \* per client: where its tasks are

placeVars == <<registered, currentChannel, channel, members, disturbed>>
lockVars == <<command_lock, channel_tree, connected>>
commandVars == <<command, target, goal, victims>>
vars == <<state, placeVars, lockVars, commandVars, kick, flush>>

\* The threads: the command of a client and its two tasks
Command(c) == <<"command", c>>
KickTask(c) == <<"kick", c>>
FlushTask(c) == <<"flush", c>>
Threads == {"command", "kick", "flush"} \X Clients

ASSUME MovesAssumption ==
  /\ Default \in Channels /\ None \notin Channels
  /\ Free \notin Threads

Init ==
  /\ state = [c \in Clients |-> "INIT_HIGH"]
  /\ registered = [c \in Clients |-> FALSE]
  /\ currentChannel = [c \in Clients |-> None]
  /\ channel = [h \in Channels |-> IF h = Default THEN "present" ELSE "unused"]
  /\ members = [h \in Channels |-> {}]
  /\ disturbed = {}
  /\ command_lock = [c \in Clients |-> Free]
  /\ channel_tree = Free
  /\ connected = [c \in Clients |-> {}]
  /\ command = [c \in Clients |-> "idle"]
  /\ target = [c \in Clients |-> c]
  /\ goal = [c \in Clients |-> None]
  /\ victims = [c \in Clients |-> {}]
  /\ kick = [c \in Clients |-> "none"]
  /\ flush = [c \in Clients |-> "none"]

Dropped == {"DISCONNECTING", "DISCONNECTED"}
-----------------------------------------------------------------------------
(* Operations under channel_tree_mutex                                     *)

TreeFree == channel_tree = Free

\* Mutant: the target channel may have been deleted meanwhile.
AllowedAnywhere(t, h) == currentChannel[t] # h

\* client_move returns early otherwise.
Allowed(t, h) == currentChannel[t] # h /\ channel[h] # "deleted"

\* A join that has noted the channel of c and not cleared it yet
Noted(c) == command[c] \in {"joining", "connected", "read"}

\* client_move of the clients ts into channel h.  Each client's own view of the
\* tree is not modelled; nor is the early return if the target cannot be shown
\* in it, of which the code asserts that it does not happen.
client_move(ts, h) ==
  LET moved == {t \in ts : Allowed(t, h)} IN
  /\ members' = [g \in Channels |->
       (members[g] \ {t \in moved : currentChannel[t] = g})
         \cup (IF g = h THEN moved ELSE {})]
  /\ currentChannel' = [t \in Clients |-> IF t \in moved THEN h ELSE currentChannel[t]]
  /\ disturbed' = disturbed \cup {t \in moved : Noted(t)}

\* Mutant: the channel is not told.
LeaveUntold(t) ==
  /\ UNCHANGED members
  /\ currentChannel' = [currentChannel EXCEPT ![t] = None]

\* client_move to no channel, or unregister_client and currentChannel = nullptr
Leave(t) ==
  /\ members' = [g \in Channels |-> IF g = currentChannel[t] THEN members[g] \ {t}
                                                             ELSE members[g]]
  /\ currentChannel' = [currentChannel EXCEPT ![t] = None]

\* getClientsByChannel
Inhabitants(h) == {t \in members[h] : state[t] = "CONNECTED" /\ currentChannel[t] = h}
-----------------------------------------------------------------------------
(* Commands of client c                                                    *)

handle_command(c) ==
  /\ command_lock[c] = Free /\ state[c] \notin Dropped
  /\ command_lock' = [command_lock EXCEPT ![c] = Command(c)]
  /\ command' = [command EXCEPT ![c] = "handle"]
  /\ UNCHANGED <<state, placeVars, channel_tree, connected, target, goal,
                 victims, kick, flush>>

\* The command is over: it gives back the locks it has of its own client.
Over(c) ==
  /\ command' = [command EXCEPT ![c] = "idle"]
  /\ target' = [target EXCEPT ![c] = c]
  /\ goal' = [goal EXCEPT ![c] = None]
  /\ victims' = [victims EXCEPT ![c] = {}]

Unlocked(c) == [command_lock EXCEPT ![c] = Free]

Step(c, from, to) ==
  /\ command[c] = from
  /\ command' = [command EXCEPT ![c] = to]
  /\ UNCHANGED <<disturbed, kick, flush>>

\* processJoin: registerClient and assignDefaultChannel, which only notes the
\* channel that the client proposed or the default channel ...
JoinChannel(c, h) ==
  /\ Step(c, "handle", "joining")
  /\ state[c] = "INIT_HIGH" /\ TreeFree /\ channel[h] = "present"
  /\ registered' = [registered EXCEPT ![c] = TRUE]
  /\ currentChannel' = [currentChannel EXCEPT ![c] = h]
  /\ UNCHANGED <<state, channel, members, lockVars, target, goal, victims>>

\* ... the state ...
JoinState(c) ==
  /\ Step(c, "joining", "connected")
  /\ state' = [state EXCEPT ![c] = "CONNECTED"]
  /\ UNCHANGED <<placeVars, lockVars, target, goal, victims>>

\* ... "trick the join method": the noted channel is read and cleared ...
JoinRead(c) ==
  /\ Step(c, "connected", "read")
  /\ goal' = [goal EXCEPT ![c] = currentChannel[c]]
  /\ UNCHANGED <<state, placeVars, lockVars, target, victims>>

JoinClear(c) ==
  /\ Step(c, "read", "move")
  /\ currentChannel' = [currentChannel EXCEPT ![c] = None]
  /\ UNCHANGED <<state, registered, channel, members, lockVars, target, goal, victims>>

\* ... and the client is moved, unless the channel was deleted meanwhile.  A
\* temporary channel that was created is entered in the same way.
MoveToGoal(c) ==
  /\ command[c] = "move" /\ TreeFree
  /\ client_move({c}, goal[c])
  /\ Over(c)
  /\ command_lock' = Unlocked(c)
  /\ UNCHANGED <<state, registered, channel, channel_tree, connected, kick, flush>>

channelcreate(c, h) ==
  /\ Step(c, "handle", "move") \/ Step(c, "handle", "done")
  /\ registered[c] /\ TreeFree /\ channel[h] = "unused"
  /\ channel' = [channel EXCEPT ![h] = "present"]
  /\ goal' = [goal EXCEPT ![c] = h]
  /\ UNCHANGED <<state, registered, currentChannel, members, lockVars, target, victims>>

\* ConnectedLockedClient: the client is registered and connected.
Resolves(t) == registered[t] /\ state[t] = "CONNECTED"

\* clientmove, which has channel_tree_mutex all the time.  The channel that was
\* left is deleted if it is temporary, without a delay, and empty.
clientmove(c, t, h) ==
  LET left == currentChannel[t] IN
  /\ command[c] = "handle" /\ registered[c] /\ TreeFree
  /\ Resolves(t) /\ left \notin {None, h} /\ channel[h] = "present"
  /\ client_move({t}, h)
  /\ \/ UNCHANGED channel
     \/ /\ left # Default /\ Inhabitants(left) \subseteq {t}
        /\ channel' = [channel EXCEPT ![left] = "deleted"]
  /\ Over(c)
  /\ command_lock' = Unlocked(c)
  /\ UNCHANGED <<state, registered, channel_tree, connected, kick, flush>>

\* clientkick: from the channel, or from the server
clientkick(c, t) ==
  /\ Step(c, "handle", "kick") \/ Step(c, "handle", "remove")
  /\ registered[c] /\ Resolves(t) /\ currentChannel[t] # None
  /\ connected' = [connected EXCEPT ![t] = @ \cup {Command(c)}]
  /\ target' = [target EXCEPT ![c] = t]
  /\ UNCHANGED <<state, placeVars, command_lock, channel_tree, goal, victims>>

\* banclient takes any registered client and does not share its lock.
banclient(c, t) ==
  /\ Step(c, "handle", "remove")
  /\ registered[c] /\ registered[t]
  /\ target' = [target EXCEPT ![c] = t]
  /\ UNCHANGED <<state, placeVars, lockVars, goal, victims>>

\* The command is over, and with it the lock shared with the target.
Released(c) == connected' = [connected EXCEPT ![target[c]] = @ \ {Command(c)}]

\* notify_client_kick with the default channel
KickToDefault(c) ==
  /\ command[c] = "kick" /\ TreeFree
  /\ client_move({target[c]}, Default)
  /\ Released(c) /\ Over(c)
  /\ command_lock' = Unlocked(c)
  /\ UNCHANGED <<state, registered, channel, channel_tree, kick, flush>>

\* command_lock is recursive.
Locks(p, t) == command_lock[t] \in {Free, p}

\* notify_client_kick without a channel, notify_client_ban: first command_lock
\* of the target ...
RemoveLock(c) ==
  /\ Step(c, "remove", "removing")
  /\ Locks(Command(c), target[c])
  /\ command_lock' = [command_lock EXCEPT ![target[c]] = Command(c)]
  /\ UNCHANGED <<state, placeVars, channel_tree, connected, target, goal, victims>>

\* Mutant: the client's own command_lock is given back one time too much.
UnlocksEarly(t) == [command_lock EXCEPT ![t] = Free]

\* A recursive lock is given back only by the outer owner.
UnlocksTarget(t) == IF command_lock[t] = Command(t) THEN command_lock
                    ELSE [command_lock EXCEPT ![t] = Free]

\* ... then channel_tree_mutex.  The target leaves its channel; what follows is
\* close_connection.
Remove(c) ==
  /\ Step(c, "removing", "done")
  /\ TreeFree
  /\ Leave(target[c])
  /\ command_lock' = UnlocksTarget(target[c])
  /\ UNCHANGED <<state, registered, channel, channel_tree, connected, target,
                 goal, victims>>

\* The command returns; a command that is refused or moves nobody at once.
Done(c) ==
  /\ command[c] \in {"handle", "done"}
  /\ Released(c) /\ Over(c)
  /\ command_lock' = Unlocked(c)
  /\ UNCHANGED <<state, placeVars, channel_tree, kick, flush>>

\* delete_channel: with channel_tree_mutex ...
channeldelete(c, h) ==
  /\ Step(c, "handle", "delete")
  /\ registered[c] /\ TreeFree /\ channel[h] = "present" /\ h # Default
  /\ channel_tree' = Command(c)
  /\ channel' = [channel EXCEPT ![h] = "deleted"]
  /\ goal' = [goal EXCEPT ![c] = h]
  /\ victims' = [victims EXCEPT ![c] = Inhabitants(h)]
  /\ UNCHANGED <<state, registered, currentChannel, members, command_lock,
                 connected, target>>

\* ... the command_lock of everybody who is there ...
DeleteLock(c, t) ==
  /\ Step(c, "delete", "delete")
  /\ t \in victims[c] /\ command_lock[t] = Free
  /\ command_lock' = [command_lock EXCEPT ![t] = Command(c)]
  /\ UNCHANGED <<state, placeVars, channel_tree, connected, target, goal, victims>>

\* ... and when all are locked, they are moved to the default channel.
DeleteMove(c) ==
  /\ command[c] = "delete"
  /\ \A t \in victims[c] : command_lock[t] = Command(c)
  /\ client_move(victims[c], Default)
  /\ Over(c)
  /\ command_lock' = [t \in Clients |-> IF t \in victims[c] \cup {c} THEN Free
                                                                    ELSE command_lock[t]]
  /\ channel_tree' = Free
  /\ UNCHANGED <<state, registered, channel, connected, kick, flush>>

\* The heartbeat deletes temporary channels that nobody is in.
Heartbeat(h) ==
  /\ TreeFree /\ channel[h] = "present" /\ h # Default
  /\ \A t \in members[h] : currentChannel[t] # h
  /\ channel' = [channel EXCEPT ![h] = "deleted"]
  /\ UNCHANGED <<state, registered, currentChannel, members, disturbed, lockVars,
                 commandVars, kick, flush>>
-----------------------------------------------------------------------------
(* The tasks of client c                                                   *)

TaskStep == UNCHANGED <<channel, disturbed, channel_tree, connected, commandVars>>

\* disconnect(): the state ...
KickState(c) ==
  /\ kick[c] = "none" /\ state[c] \notin Dropped
  /\ kick' = [kick EXCEPT ![c] = "lock"]
  /\ state' = [state EXCEPT ![c] = "DISCONNECTING"]
  /\ TaskStep /\ UNCHANGED <<registered, currentChannel, members, command_lock, flush>>

\* ... command_lock ...
KickLock(c) ==
  /\ kick[c] = "lock" /\ command_lock[c] = Free
  /\ kick' = [kick EXCEPT ![c] = "move"]
  /\ command_lock' = [command_lock EXCEPT ![c] = KickTask(c)]
  /\ TaskStep /\ UNCHANGED <<state, registered, currentChannel, members, flush>>

\* ... and the client leaves its channel.
KickMove(c) ==
  /\ kick[c] = "move" /\ TreeFree
  /\ Leave(c)
  /\ kick' = [kick EXCEPT ![c] = "none"]
  /\ command_lock' = Unlocked(c)
  /\ TaskStep /\ UNCHANGED <<state, registered, flush>>

\* The flush task ...
FlushBegin(c) ==
  /\ flush[c] = "none" /\ command_lock[c] = Free /\ state[c] # "DISCONNECTED"
  /\ flush' = [flush EXCEPT ![c] = "flush"]
  /\ command_lock' = [command_lock EXCEPT ![c] = FlushTask(c)]
  /\ state' = [state EXCEPT ![c] = "DISCONNECTING"]
  /\ TaskStep /\ UNCHANGED <<registered, currentChannel, members, kick>>

\* ... tries again later ...
FlushAgain(c) ==
  /\ flush[c] = "flush"
  /\ flush' = [flush EXCEPT ![c] = "none"]
  /\ command_lock' = Unlocked(c)
  /\ TaskStep /\ UNCHANGED <<state, registered, currentChannel, members, kick>>

\* ... or finalDisconnect: the state ...
FinalState(c) ==
  /\ flush[c] = "flush"
  /\ flush' = [flush EXCEPT ![c] = "final"]
  /\ state' = [state EXCEPT ![c] = "DISCONNECTED"]
  /\ TaskStep /\ UNCHANGED <<registered, currentChannel, members, command_lock, kick>>

\* Mutant: "TODO: Remove? (legacy)"
NobodyAsked(c) == TRUE

\* Nobody shares the lock: lock_guard disconnect_lock_final
NobodyHas(c) == connected[c] = {}

\* ... finalDisconnectLock ...
FinalLock(c) ==
  /\ flush[c] = "final" /\ NobodyHas(c)
  /\ flush' = [flush EXCEPT ![c] = "leave"]
  /\ TaskStep /\ UNCHANGED <<state, registered, currentChannel, members, command_lock, kick>>

\* ... unregisterClient: the channel, then the list of clients.
FinalLeave(c) ==
  /\ flush[c] = "leave" /\ TreeFree
  /\ Leave(c)
  /\ flush' = [flush EXCEPT ![c] = "unregister"]
  /\ TaskStep /\ UNCHANGED <<state, registered, command_lock, kick>>

FinalUnregister(c) ==
  /\ flush[c] = "unregister"
  /\ registered' = [registered EXCEPT ![c] = FALSE]
  /\ flush' = [flush EXCEPT ![c] = "gone"]
  /\ command_lock' = Unlocked(c)
  /\ TaskStep /\ UNCHANGED <<state, currentChannel, members, kick>>

Next ==
  \/ \E c \in Clients :
       \/ handle_command(c)
       \/ JoinState(c) \/ JoinRead(c) \/ JoinClear(c) \/ MoveToGoal(c)
       \/ KickToDefault(c) \/ RemoveLock(c) \/ Remove(c) \/ Done(c)
       \/ DeleteMove(c)
       \/ \E t \in Clients : \/ clientkick(c, t) \/ banclient(c, t)
                             \/ DeleteLock(c, t)
                             \/ \E h \in Channels : clientmove(c, t, h)
       \/ \E h \in Channels : \/ JoinChannel(c, h) \/ channelcreate(c, h)
                              \/ channeldelete(c, h)
       \/ KickState(c) \/ KickLock(c) \/ KickMove(c)
       \/ FlushBegin(c) \/ FlushAgain(c) \/ FinalState(c) \/ FinalLock(c)
       \/ FinalLeave(c) \/ FinalUnregister(c)
  \/ \E h \in Channels : Heartbeat(h)

Spec == Init /\ [][Next]_vars
-----------------------------------------------------------------------------
(***************************************************************************)
(* The types, and what the recursive command_lock is for: while a command  *)
(* of a client, its disconnect task or its flush task is between lock and  *)
(* unlock, nobody else has the lock, even after a client kicked, banned or *)
(* evicted itself.                                                         *)
(***************************************************************************)
LockedByOwner ==
  \A c \in Clients :
    /\ command[c] # "idle" => command_lock[c] = Command(c)
    /\ kick[c] = "move" => command_lock[c] = KickTask(c)
    /\ flush[c] \notin {"none", "gone"} => command_lock[c] = FlushTask(c)

TypeOK ==
  /\ state \in [Clients -> {"INIT_HIGH", "CONNECTED", "DISCONNECTING", "DISCONNECTED"}]
  /\ registered \in [Clients -> BOOLEAN]
  /\ currentChannel \in [Clients -> Channels \cup {None}]
  /\ channel \in [Channels -> {"unused", "present", "deleted"}]
  /\ members \in [Channels -> SUBSET Clients] /\ disturbed \subseteq Clients
  /\ command_lock \in [Clients -> Threads \cup {Free}]
  /\ channel_tree \in Threads \cup {Free}
  /\ connected \in [Clients -> SUBSET Threads]
  /\ command \in [Clients -> {"idle", "handle", "joining", "connected", "read",
                              "move", "kick", "remove", "removing", "done", "delete"}]
  /\ target \in [Clients -> Clients] /\ goal \in [Clients -> Channels \cup {None}]
  /\ victims \in [Clients -> SUBSET Clients]
  /\ kick \in [Clients -> {"none", "lock", "move"}]
  /\ flush \in [Clients -> {"none", "flush", "final", "leave", "unregister", "gone"}]
  /\ LockedByOwner

(***************************************************************************)
(* The channel a client believes to be in and the channels' lists of       *)
(* clients agree, apart from the time in which the join has noted the      *)
(* channel, for every client that nobody has moved during that time.       *)
(***************************************************************************)
MembersAgree ==
  \A c \in Clients \ disturbed : ~Noted(c) =>
    \A h \in Channels : c \in members[h] <=> currentChannel[c] = h

(***************************************************************************)
(* "This should not happen!" in getClientsByChannel: a connected client    *)
(* that executes no command is in the list of no other channel than its    *)
(* own.  It does happen to a client that was moved during its join.        *)
(***************************************************************************)
ListedIsThere ==
  \A h \in Channels : \A c \in members[h] :
    state[c] = "CONNECTED" /\ command[c] = "idle" => currentChannel[c] = h

(***************************************************************************)
(* A client that finalDisconnect is done with is in no channel and in no   *)
(* list, whatever command has resolved it while it was connected; only a   *)
(* client that was moved during its join remains in the list of a channel, *)
(* and even that one is not registered and has no channel of its own.      *)
(***************************************************************************)
GoneHasLeft ==
  \A c \in Clients : flush[c] = "gone" =>
    /\ ~registered[c] /\ currentChannel[c] = None
    /\ c \notin disturbed => \A h \in Channels : c \notin members[h]

(***************************************************************************)
(* No connected client is left behind in a deleted channel, once the       *)
(* command that deletes it is over.                                        *)
(***************************************************************************)
NobodyLeftBehind ==
  \A h \in Channels :
    channel[h] = "deleted" /\ channel_tree = Free =>
      \A c \in Inhabitants(h) : Noted(c)

(***************************************************************************)
(* "3. Unlock channel tree and lock client locks": delete_channel does not *)
(* wait for the command_lock of somebody who waits for channel_tree_mutex. *)
(***************************************************************************)
WaitsForTree(p) ==
  \E c \in Clients :
    \/ p = Command(c) /\ command[c] \in {"move", "kick", "removing"}
    \/ p = KickTask(c) /\ kick[c] = "move"
    \/ p = FlushTask(c) /\ flush[c] = "leave"
TreeUnlocked ==
  \A c \in Clients : command[c] = "delete" =>
    \A t \in victims[c] : ~WaitsForTree(command_lock[t])
=============================================================================
