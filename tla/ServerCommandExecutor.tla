------------------------ MODULE ServerCommandExecutor ------------------------
(***************************************************************************)
(* The thread pool that executes the commands of all clients               *)
(* (server/src/client/shared/ServerCommandExecutor.{h,cpp}).               *)
(*                                                                         *)
(* Every client owns a ServerCommandHandler with a queue of pending        *)
(* commands, guarded by the spin lock pending_commands_lock.  The executor *)
(* keeps a linked list of handlers that have work, guarded by              *)
(* handler_mutex together with each handler's flags executing and          *)
(* reschedule.  Producers (IO threads, query and web sockets) append to    *)
(* the pending queue under one lock and announce the handler under the     *)
(* other, so everything may happen in between.                             *)
(*                                                                         *)
(* One action is one critical section, from the acquisition of its lock to *)
(* the release (or to the condition variable's wait, which releases it).   *)
(* A command is the number it has in its client's stream.                  *)
(***************************************************************************)
EXTENDS Naturals, Sequences, FiniteSets

CONSTANTS Handlers,      \* clients' command handlers
          Threads,       \* executor threads
          Producers,     \* threads that enqueue commands
          NoHandler,     \* null pointer
          NoCommand,     \* null pointer
          MaxCommands    \* bound: commands enqueued per handler

ASSUME ThreadsAssumption == IsFiniteSet(Threads)
ASSUME MaxCommandsAssumption == MaxCommands \in Nat
ASSUME NullAssumption == NoHandler \notin Handlers /\ NoCommand \notin Nat

VARIABLES
  pending,           \* pending_commands_head..tail of each handler's inner
  scheduled,         \* has_command_handling_scheduled
  handlerList,       \* handler_head..handler_tail
  executing,         \* ServerCommandHandler::executing
  reschedule,        \* ServerCommandHandler::reschedule
  handler_shutdown,
  announcing,        \* per producer: handler it is about to enqueue_handler
  pc,                \* per executor thread
  executor,          \* per executor thread: its local `executor`
  command,           \* per executor thread: its local `pending_command`
  more_pending,      \* per executor thread: its local `more_pending`
  disconnecting,     \* the client's state is >= DISCONNECTING (or it is gone)
  accepted           \* history: commands enqueued so far

queueVars == <<pending, scheduled, accepted>>
listVars == <<handlerList, executing, reschedule, handler_shutdown>>
threadVars == <<pc, executor, command, more_pending>>
vars == <<queueVars, listVars, threadVars, announcing, disconnecting>>

Init ==
  /\ pending = [h \in Handlers |-> <<>>]
  /\ scheduled = [h \in Handlers |-> FALSE]
  /\ accepted = [h \in Handlers |-> 0]
  /\ handlerList = <<>>
  /\ executing = [h \in Handlers |-> FALSE]
  /\ reschedule = [h \in Handlers |-> FALSE]
  /\ handler_shutdown = FALSE
  /\ announcing = [p \in Producers |-> NoHandler]
  /\ pc = [t \in Threads |-> "start"]
  /\ executor = [t \in Threads |-> NoHandler]
  /\ command = [t \in Threads |-> NoCommand]
  /\ more_pending = [t \in Threads |-> FALSE]
  /\ disconnecting = [h \in Handlers |-> FALSE]

Waiting == {t \in Threads : pc[t] = "waiting"}

\* A handler is in the list iff it has a successor or is the tail's owner.
InList(q, h) == \E i \in 1..Len(q) : q[i] = h

Listed(h) == InList(handlerList, h)
-----------------------------------------------------------------------------
(***************************************************************************)
(* Producers                                                               *)
(***************************************************************************)
\* ServerCommandQueueInner::enqueue; its result, the old value of
\* has_command_handling_scheduled, decides whether the handler is announced.
EnqueueCommand(p, h) ==
  /\ announcing[p] = NoHandler
  /\ accepted[h] < MaxCommands
  /\ accepted' = [accepted EXCEPT ![h] = @ + 1]
  /\ pending' = [pending EXCEPT ![h] = Append(@, accepted[h] + 1)]
  /\ scheduled' = [scheduled EXCEPT ![h] = TRUE]
  /\ announcing' = [announcing EXCEPT ![p] = IF scheduled[h] THEN NoHandler
                                                             ELSE h]
  /\ UNCHANGED <<listVars, threadVars, disconnecting>>

\* Mutant: handler_notify.notify_one() forgotten.
NotifyNobody == pc' = pc

\* condition_variable::notify_one: some waiting thread, if there is one.
NotifyOne ==
  IF Waiting = {}
  THEN pc' = pc
  ELSE \E t \in Waiting : pc' = [pc EXCEPT ![t] = "notified"]

\* Mutant: a handler that is executing counts as idle.
BusyIgnoringExecuting(h) == reschedule[h]

\* The handler is executing: it must be re-run, not listed a second time.
HandlerBusy(h) == executing[h] \/ reschedule[h]

\* ServerCommandExecutor::enqueue_handler
EnqueueHandler(p) ==
  LET h == announcing[p] IN
  /\ h # NoHandler
  /\ announcing' = [announcing EXCEPT ![p] = NoHandler]
  /\ \/ /\ Listed(h)
        /\ UNCHANGED <<handlerList, reschedule, pc>>
     \/ /\ ~Listed(h)
        /\ HandlerBusy(h)
        /\ reschedule' = [reschedule EXCEPT ![h] = TRUE]
        /\ UNCHANGED <<handlerList, pc>>
     \/ /\ ~Listed(h)
        /\ ~HandlerBusy(h)
        /\ handlerList' = Append(handlerList, h)
        /\ NotifyOne
        /\ UNCHANGED reschedule
  /\ UNCHANGED <<queueVars, executing, handler_shutdown, executor, command,
                 more_pending, disconnecting>>

\* ServerCommandQueueInner::reset
ResetQueue(h) ==
  /\ pending' = [pending EXCEPT ![h] = <<>>]
  /\ scheduled' = [scheduled EXCEPT ![h] = FALSE]
  /\ UNCHANGED accepted

\* ServerCommandQueue::reset, called by the owner of the queue at any time.
Reset(h) == /\ ResetQueue(h)
            /\ UNCHANGED <<listVars, threadVars, announcing, disconnecting>>

\* The client starts to disconnect, or is destroyed.
Disconnect(h) == /\ ~disconnecting[h]
                 /\ disconnecting' = [disconnecting EXCEPT ![h] = TRUE]
                 /\ UNCHANGED <<queueVars, listVars, threadVars, announcing>>
-----------------------------------------------------------------------------
(***************************************************************************)
(* Executor threads                                                        *)
(***************************************************************************)
\* The head of the loop of ServerCommandExecutor::executor, reached with the
\* mutex held, with list q, and flags ex, rs: leave, wait, or take the head.
LoopHead(t, q, ex, rs) ==
  \/ /\ handler_shutdown
     /\ pc' = [pc EXCEPT ![t] = "done"]
     /\ executor' = [executor EXCEPT ![t] = NoHandler]
     /\ handlerList' = q /\ executing' = ex /\ reschedule' = rs
  \/ /\ ~handler_shutdown
     /\ q = <<>>
     /\ pc' = [pc EXCEPT ![t] = "waiting"]
     /\ executor' = [executor EXCEPT ![t] = NoHandler]
     /\ handlerList' = q /\ executing' = ex /\ reschedule' = rs
  \/ /\ ~handler_shutdown
     /\ q # <<>>
     /\ pc' = [pc EXCEPT ![t] = "pop"]
     /\ executor' = [executor EXCEPT ![t] = Head(q)]
     /\ handlerList' = Tail(q)
     /\ executing' = [ex EXCEPT ![Head(q)] = TRUE]
     /\ reschedule' = [rs EXCEPT ![Head(q)] = FALSE]

\* A new thread, or one whose wait returns, acquires the mutex.
Wake(t) ==
  /\ pc[t] \in {"start", "notified"}
  /\ LoopHead(t, handlerList, executing, reschedule)
  /\ UNCHANGED <<queueVars, handler_shutdown, command, more_pending,
                 announcing, disconnecting>>

\* A condition variable may return from a wait without a notification.
SpuriousWakeup(t) ==
  /\ pc[t] = "waiting"
  /\ pc' = [pc EXCEPT ![t] = "notified"]
  /\ UNCHANGED <<queueVars, listVars, executor, command, more_pending,
                 announcing, disconnecting>>

\* Mutant: no more commands are expected after the last one.
MorePendingIfRest(q) == Len(q) > 1

\* The value pop_command gives more_pending: true whenever it returns a
\* command, because new ones may come while that one is handled.
MorePending(q) == q # <<>>

\* ServerCommandQueueInner::pop_command
PopCommand(t) ==
  LET h == executor[t] IN
  /\ pc[t] = "pop"
  /\ \/ /\ pending[h] = <<>>
        /\ scheduled' = [scheduled EXCEPT ![h] = FALSE]
        /\ pc' = [pc EXCEPT ![t] = "finish"]
        /\ UNCHANGED <<pending, command>>
     \/ /\ pending[h] # <<>>
        /\ pending' = [pending EXCEPT ![h] = Tail(@)]
        /\ command' = [command EXCEPT ![t] = Head(pending[h])]
        /\ pc' = [pc EXCEPT ![t] = "handle"]
        /\ UNCHANGED scheduled
  /\ more_pending' = [more_pending EXCEPT ![t] = MorePending(pending[h])]
  /\ UNCHANGED <<accepted, listVars, executor, announcing, disconnecting>>

\* Mutant: the handled command is kept (pending_command is not freed).
HandleCommandLeaks(t) ==
  /\ pc[t] = "handle"
  /\ pc' = [pc EXCEPT ![t] = IF disconnecting[executor[t]] THEN "flush"
                                                           ELSE "finish"]
  /\ UNCHANGED <<queueVars, listVars, executor, command, more_pending,
                 announcing, disconnecting>>

\* handle_command; an exception is caught and has the effect of `true`.
HandleCommand(t) ==
  /\ pc[t] = "handle"
  /\ \/ /\ disconnecting[executor[t]]
        /\ pc' = [pc EXCEPT ![t] = "flush"]
        /\ UNCHANGED command
     \/ /\ ~disconnecting[executor[t]]
        /\ pc' = [pc EXCEPT ![t] = "finish"]
        /\ command' = [command EXCEPT ![t] = NoCommand]
  /\ UNCHANGED <<queueVars, listVars, executor, more_pending, announcing,
                 disconnecting>>

\* handle_command returned false: "flush all commands".
FlushCommands(t) ==
  /\ pc[t] = "flush"
  /\ ResetQueue(executor[t])
  /\ more_pending' = [more_pending EXCEPT ![t] = FALSE]
  /\ command' = [command EXCEPT ![t] = NoCommand]
  /\ pc' = [pc EXCEPT ![t] = "finish"]
  /\ UNCHANGED <<listVars, executor, announcing, disconnecting>>

\* Mutant: a request made while the handler was executing is ignored.
RunAgainIfMore(t) == more_pending[t]

\* `reschedule` after it absorbed the handler's flag.
RunAgain(t) == more_pending[t] \/ reschedule[executor[t]]

\* execute_handling has returned: the thread takes the mutex again, appends
\* its handler when it has to run again (notifying nobody) and loops.
FinishHandling(t) ==
  LET h == executor[t] IN
  /\ pc[t] = "finish"
  /\ LoopHead(t, IF RunAgain(t) THEN Append(handlerList, h) ELSE handlerList,
                 [executing EXCEPT ![h] = FALSE],
                 [reschedule EXCEPT ![h] = FALSE])
  /\ more_pending' = [more_pending EXCEPT ![t] = FALSE]
  /\ UNCHANGED <<queueVars, handler_shutdown, command, announcing,
                 disconnecting>>

\* condition_variable::notify_all
NotifyAll ==
  pc' = [t \in Threads |-> IF pc[t] = "waiting" THEN "notified" ELSE pc[t]]

\* ServerCommandExecutor::shutdown, up to the joins.
Shutdown ==
  /\ ~handler_shutdown
  /\ handler_shutdown' = TRUE
  /\ NotifyAll
  /\ UNCHANGED <<queueVars, handlerList, executing, reschedule, executor,
                 command, more_pending, announcing, disconnecting>>

ThreadStep(t) == \/ Wake(t)
                 \/ PopCommand(t)
                 \/ HandleCommand(t)
                 \/ FlushCommands(t)
                 \/ FinishHandling(t)

Next == \/ \E p \in Producers, h \in Handlers : EnqueueCommand(p, h)
        \/ \E p \in Producers : EnqueueHandler(p)
        \/ \E h \in Handlers : Reset(h) \/ Disconnect(h)
        \/ \E t \in Threads : ThreadStep(t) \/ SpuriousWakeup(t)
        \/ Shutdown

Spec == Init /\ [][Next]_vars

\* A running thread is not suspended for ever and gets a mutex it asks for.
Fairness == /\ \A t \in Threads : WF_vars(ThreadStep(t))
            /\ \A p \in Producers : WF_vars(EnqueueHandler(p))

FairSpec == Spec /\ Fairness
-----------------------------------------------------------------------------
(***************************************************************************)
(* Properties                                                              *)
(***************************************************************************)
Busy == {"pop", "handle", "flush", "finish"}

TypeOK ==
  /\ pending \in [Handlers -> Seq(Nat)]
  /\ scheduled \in [Handlers -> BOOLEAN]
  /\ accepted \in [Handlers -> 0..MaxCommands]
  /\ handlerList \in Seq(Handlers)
  /\ executing \in [Handlers -> BOOLEAN]
  /\ reschedule \in [Handlers -> BOOLEAN]
  /\ handler_shutdown \in BOOLEAN
  /\ announcing \in [Producers -> Handlers \cup {NoHandler}]
  /\ pc \in [Threads -> {"start", "waiting", "notified", "done"} \cup Busy]
  /\ executor \in [Threads -> Handlers \cup {NoHandler}]
  /\ \A t \in Threads : executor[t] \in Handlers <=> pc[t] \in Busy
  /\ command \in [Threads -> Nat \cup {NoCommand}]
  /\ \A t \in Threads : command[t] \in Nat <=> pc[t] \in {"handle", "flush"}
  /\ more_pending \in [Threads -> BOOLEAN]
  /\ disconnecting \in [Handlers -> BOOLEAN]

(***************************************************************************)
(* Two threads never execute the same client's handler: what makes         *)
(* executor() safe although a handler is re-announced while it runs.       *)
(***************************************************************************)
ExclusiveExecution ==
  \A s, t \in Threads :
     pc[s] \in Busy /\ executor[s] = executor[t] => s = t

(***************************************************************************)
(* No command is forgotten in a queue: while a client has pending commands *)
(* its handler is in the executor's list, or a producer is about to put it *)
(* there, or a thread is executing it and will look at the queue again     *)
(* (enqueue / pop_command / enqueue_handler / the re-append of executor()).*)
(***************************************************************************)
WillLookAgain(h) ==
  \/ Listed(h)
  \/ \E p \in Producers : announcing[p] = h
  \/ \E t \in Threads :
       /\ executor[t] = h
       /\ \/ pc[t] \in {"pop", "handle", "flush"}
          \/ pc[t] = "finish" /\ (more_pending[t] \/ reschedule[h])

NoForgottenCommand == \A h \in Handlers : pending[h] # <<>> => WillLookAgain(h)

(***************************************************************************)
(* No lost wake-up: as long as a thread sleeps in handler_notify.wait,     *)
(* every listed handler has a woken thread of its own on the way to it,    *)
(* although the re-append of executor() notifies nobody.                   *)
(***************************************************************************)
Awake == {t \in Threads : pc[t] \in {"start", "notified"}}

NoMissedWakeup == Waiting # {} => Len(handlerList) <= Cardinality(Awake)

(***************************************************************************)
(* The executor implements SerialCommands: per client, commands run one at *)
(* a time, in order, none twice, and are dropped only by a whole flush.    *)
(***************************************************************************)
Running(h) ==
  IF \E t \in Threads : executor[t] = h /\ pc[t] \in {"handle", "flush"}
  THEN command[CHOOSE t \in Threads :
                 executor[t] = h /\ pc[t] \in {"handle", "flush"}]
  ELSE NoCommand

Serial == INSTANCE SerialCommands
            WITH running <- [h \in Handlers |-> Running(h)]

SerialExecution == Serial!Spec

(***************************************************************************)
(* Every accepted command eventually leaves the queue (it is started or    *)
(* flushed), unless the executor is shut down.                             *)
(***************************************************************************)
EveryCommandTaken ==
  \A h \in Handlers : \A n \in 1..MaxCommands :
    InList(pending[h], n) ~> ~InList(pending[h], n) \/ handler_shutdown

(***************************************************************************)
(* shutdown() returns: after the flag is set every thread leaves its loop, *)
(* so the joins end.                                                       *)
(***************************************************************************)
ShutdownCompletes == handler_shutdown ~> \A t \in Threads : pc[t] = "done"
=============================================================================
