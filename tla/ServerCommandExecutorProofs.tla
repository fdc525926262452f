--------------------- MODULE ServerCommandExecutorProofs ---------------------
(***************************************************************************)
(* Proofs about ServerCommandExecutor, for any number of clients, executor *)
(* threads and producers and any number of commands.                       *)
(***************************************************************************)
EXTENDS ServerCommandExecutor, FiniteSetTheorems, TLAPS

Unique(q) == \A i, j \in 1..Len(q) : q[i] = q[j] => i = j

(***************************************************************************)
(* Facts about the handler list: taking its head, appending to it.         *)
(***************************************************************************)
\* Removing the head of a duplicate-free list (executor() takes a handler)
\* leaves exactly the other members, again without duplicates.
LEMMA TailOfList ==
  ASSUME NEW q \in Seq(Handlers), q # <<>>, Unique(q)
  PROVE  /\ Tail(q) \in Seq(Handlers)
         /\ Head(q) \in Handlers
         /\ Unique(Tail(q))
         /\ \A h : InList(Tail(q), h) <=> InList(q, h) /\ h # Head(q)
<1>1. Tail(q) \in Seq(Handlers) /\ Head(q) \in Handlers /\ Len(q) \in Nat /\ Len(q) > 0
  OBVIOUS
<1>2. Len(Tail(q)) = Len(q) - 1
  OBVIOUS
<1>3. \A i \in 1..Len(Tail(q)) : Tail(q)[i] = q[i + 1]
  OBVIOUS
<1>4. Unique(Tail(q))
  BY <1>1, <1>2, <1>3 DEF Unique
<1>5. Head(q) = q[1]
  OBVIOUS
<1>6. ASSUME NEW h PROVE InList(Tail(q), h) <=> InList(q, h) /\ h # Head(q)
  <2>1. ASSUME InList(Tail(q), h) PROVE InList(q, h) /\ h # Head(q)
    <3>1. PICK i \in 1..Len(Tail(q)) : Tail(q)[i] = h
      BY <2>1 DEF InList
    <3>2. i + 1 \in 1..Len(q) /\ q[i + 1] = h /\ i + 1 # 1 /\ 1 \in 1..Len(q)
      BY <3>1, <1>1, <1>2, <1>3
    <3>3. QED BY <3>2, <1>5 DEF InList, Unique
  <2>2. ASSUME InList(q, h), h # Head(q) PROVE InList(Tail(q), h)
    <3>1. PICK i \in 1..Len(q) : q[i] = h
      BY <2>2 DEF InList
    <3>2. i # 1
      BY <3>1, <2>2, <1>5
    <3>3. i - 1 \in 1..Len(Tail(q)) /\ Tail(q)[i - 1] = h
      BY <3>1, <3>2, <1>1, <1>2, <1>3
    <3>4. QED BY <3>3 DEF InList
  <2>3. QED BY <2>1, <2>2
<1>7. QED BY <1>1, <1>4, <1>6

\* Appending a handler that is not listed (enqueue_handler, the re-append of
\* executor()) keeps the list free of duplicates.
LEMMA AppendToList ==
  ASSUME NEW q \in Seq(Handlers), NEW h \in Handlers
  PROVE  /\ Append(q, h) \in Seq(Handlers)
         /\ Append(q, h) # <<>>
         /\ \A g : InList(Append(q, h), g) <=> InList(q, g) \/ g = h
         /\ Unique(q) /\ ~InList(q, h) => Unique(Append(q, h))
<1> DEFINE a == Append(q, h)
<1>1. a \in Seq(Handlers) /\ Len(a) = Len(q) + 1 /\ Len(q) \in Nat
  OBVIOUS
<1>2. \A i \in 1..Len(q) : a[i] = q[i]
  OBVIOUS
<1>3. a[Len(q) + 1] = h
  OBVIOUS
<1>4. a # <<>>
  BY <1>1
<1> HIDE DEF a
<1>5. ASSUME NEW g PROVE InList(a, g) <=> InList(q, g) \/ g = h
  BY <1>1, <1>2, <1>3 DEF InList
<1>6. ASSUME Unique(q), ~InList(q, h) PROVE Unique(a)
  BY <1>1, <1>2, <1>3, <1>6 DEF InList, Unique
<1>7. QED BY <1>1, <1>4, <1>5, <1>6 DEF a
-----------------------------------------------------------------------------
(***************************************************************************)
(* Type correctness                                                        *)
(***************************************************************************)
\* The assumptions about a list and two flag tables with which the head of
\* the executor's loop is reached.
ListTypes(q, ex, rs) == /\ q \in Seq(Handlers)
                        /\ ex \in [Handlers -> BOOLEAN]
                        /\ rs \in [Handlers -> BOOLEAN]

\* The head of the executor's loop keeps the types of what it assigns.
LEMMA LoopHeadTypes ==
  ASSUME TypeOK, NEW t \in Threads, NEW q, NEW ex, NEW rs,
         ListTypes(q, ex, rs), LoopHead(t, q, ex, rs)
  PROVE  /\ ListTypes(handlerList', executing', reschedule')
         /\ pc' \in [Threads -> {"start", "waiting", "notified", "done"} \cup Busy]
         /\ executor' \in [Threads -> Handlers \cup {NoHandler}]
         /\ \A s \in Threads : executor'[s] \in Handlers <=> pc'[s] \in Busy
         /\ pc'[t] \notin {"handle", "flush"}
         /\ \A s \in Threads \ {t} : pc'[s] = pc[s] /\ executor'[s] = executor[s]
<1> USE DEF TypeOK, ListTypes
<1>1. CASE handler_shutdown \/ q = <<>>
  <2>1. /\ handlerList' = q /\ executing' = ex /\ reschedule' = rs
        /\ pc' = [pc EXCEPT ![t] = "done"] \/ pc' = [pc EXCEPT ![t] = "waiting"]
        /\ executor' = [executor EXCEPT ![t] = NoHandler]
    BY <1>1 DEF LoopHead
  <2>2. pc' \in [Threads -> {"start", "waiting", "notified", "done"} \cup Busy]
    BY <2>1
  <2>3. executor' \in [Threads -> Handlers \cup {NoHandler}]
    BY <2>1
  <2>4. executor'[t] = NoHandler /\ pc'[t] \in {"done", "waiting"}
    BY <2>1
  <2>5. \A s \in Threads \ {t} : pc'[s] = pc[s] /\ executor'[s] = executor[s]
    BY <2>1
  <2>6. QED BY <2>1, <2>2, <2>3, <2>4, <2>5, NullAssumption DEF Busy
<1>2. CASE q # <<>> /\ ~handler_shutdown
  <2>1. Head(q) \in Handlers /\ Tail(q) \in Seq(Handlers)
    BY <1>2
  <2>2. /\ handlerList' = Tail(q)
        /\ executing' = [ex EXCEPT ![Head(q)] = TRUE]
        /\ reschedule' = [rs EXCEPT ![Head(q)] = FALSE]
        /\ pc' = [pc EXCEPT ![t] = "pop"]
        /\ executor' = [executor EXCEPT ![t] = Head(q)]
    BY <1>2 DEF LoopHead
  <2>3. pc' \in [Threads -> {"start", "waiting", "notified", "done"} \cup Busy]
    BY <2>2 DEF Busy
  <2>4. executor' \in [Threads -> Handlers \cup {NoHandler}]
    BY <2>1, <2>2
  <2>5. executor'[t] \in Handlers /\ pc'[t] = "pop"
    BY <2>1, <2>2
  <2>6. \A s \in Threads \ {t} : pc'[s] = pc[s] /\ executor'[s] = executor[s]
    BY <2>2
  <2>7. QED BY <2>1, <2>2, <2>3, <2>4, <2>5, <2>6 DEF Busy
<1>3. QED BY <1>1, <1>2

\* Every action of the executor keeps the type invariant.
LEMMA TypeStep == TypeOK /\ [Next]_vars => TypeOK'
<1> SUFFICES ASSUME TypeOK, [Next]_vars PROVE TypeOK'
  OBVIOUS
<1> USE MaxCommandsAssumption, NullAssumption
<1>1. ASSUME NEW p \in Producers, NEW h \in Handlers, EnqueueCommand(p, h)
      PROVE  TypeOK'
  <2>1. Append(pending[h], accepted[h] + 1) \in Seq(Nat)
    BY DEF TypeOK
  <2>2. QED BY <1>1, <2>1 DEF TypeOK, EnqueueCommand, listVars, threadVars
<1>2. ASSUME NEW p \in Producers, EnqueueHandler(p) PROVE TypeOK'
  <2> DEFINE h == announcing[p]
  <2>1. h \in Handlers
    BY <1>2 DEF EnqueueHandler, TypeOK
  <2>2. handlerList' \in Seq(Handlers) /\ reschedule' \in [Handlers -> BOOLEAN]
    <3>1. Append(handlerList, h) \in Seq(Handlers)
      BY <2>1 DEF TypeOK
    <3>2. [reschedule EXCEPT ![h] = TRUE] \in [Handlers -> BOOLEAN]
      BY <2>1 DEF TypeOK
    <3>3. QED BY <1>2, <3>1, <3>2 DEF EnqueueHandler, TypeOK
  <2>3. /\ pc' \in [Threads -> {"start", "waiting", "notified", "done"} \cup Busy]
        /\ \A t \in Threads : pc'[t] # pc[t] =>
              pc[t] = "waiting" /\ pc'[t] = "notified"
    BY <1>2 DEF EnqueueHandler, NotifyOne, Waiting, TypeOK
  <2>4. QED BY <1>2, <2>1, <2>2, <2>3 DEF EnqueueHandler, TypeOK, queueVars, Busy
<1>3. ASSUME NEW h \in Handlers, Reset(h) PROVE TypeOK'
  BY <1>3 DEF TypeOK, Reset, ResetQueue, listVars, threadVars
<1>4. ASSUME NEW h \in Handlers, Disconnect(h) PROVE TypeOK'
  BY <1>4 DEF TypeOK, Disconnect, queueVars, listVars, threadVars
<1>5. ASSUME NEW t \in Threads, Wake(t) PROVE TypeOK'
  <2>1. ListTypes(handlerList, executing, reschedule)
    BY DEF TypeOK, ListTypes
  <2>2. pc[t] \notin {"handle", "flush"}
    BY <1>5 DEF Wake
  <2>3. QED BY <1>5, <2>1, <2>2, LoopHeadTypes
            DEF Wake, TypeOK, ListTypes, queueVars
<1>6. ASSUME NEW t \in Threads, PopCommand(t) PROVE TypeOK'
  <2>1. executor[t] \in Handlers
    BY <1>6 DEF PopCommand, TypeOK, Busy
  <2>2. CASE pending[executor[t]] = <<>>
    BY <1>6, <2>1, <2>2 DEF PopCommand, TypeOK, Busy, listVars, MorePending
  <2>3. CASE pending[executor[t]] # <<>>
    <3>1. /\ Head(pending[executor[t]]) \in Nat
          /\ Tail(pending[executor[t]]) \in Seq(Nat)
      BY <2>1, <2>3 DEF TypeOK
    <3> DEFINE h == executor[t]
               hd == Head(pending[h])
               tl == Tail(pending[h])
    <3>0. /\ pending' = [pending EXCEPT ![h] = tl]
          /\ command' = [command EXCEPT ![t] = hd]
          /\ scheduled' = scheduled
      BY <1>6, <2>3 DEF PopCommand
    <3> HIDE DEF h, hd, tl
    <3>2. pending' \in [Handlers -> Seq(Nat)]
      BY <2>1, <3>0, <3>1 DEF TypeOK, h, tl
    <3>3. /\ pc' \in [Threads -> {"start", "waiting", "notified", "done"} \cup Busy]
          /\ pc'[t] = "handle"
          /\ \A s \in Threads \ {t} : pc'[s] = pc[s]
      BY <1>6, <2>3 DEF PopCommand, TypeOK, Busy
    <3>4. /\ command' \in [Threads -> Nat \cup {NoCommand}]
          /\ command'[t] \in Nat
          /\ \A s \in Threads \ {t} : command'[s] = command[s]
      BY <3>0, <3>1 DEF TypeOK, h, hd
    <3>5. more_pending' \in [Threads -> BOOLEAN]
      BY <1>6 DEF PopCommand, TypeOK, MorePending
    <3>6. QED BY <1>6, <2>1, <3>0, <3>2, <3>3, <3>4, <3>5
              DEF PopCommand, TypeOK, Busy, listVars
  <2>4. QED BY <2>2, <2>3
<1>7. ASSUME NEW t \in Threads, HandleCommand(t) PROVE TypeOK'
  BY <1>7 DEF HandleCommand, TypeOK, Busy, queueVars, listVars
<1>8. ASSUME NEW t \in Threads, FlushCommands(t) PROVE TypeOK'
  BY <1>8 DEF FlushCommands, ResetQueue, TypeOK, Busy, listVars
<1>9. ASSUME NEW t \in Threads, FinishHandling(t) PROVE TypeOK'
  <2> DEFINE h == executor[t]
             q == IF RunAgain(t) THEN Append(handlerList, h) ELSE handlerList
             ex == [executing EXCEPT ![h] = FALSE]
             rs == [reschedule EXCEPT ![h] = FALSE]
  <2>1. h \in Handlers /\ pc[t] \notin {"handle", "flush"}
    BY <1>9 DEF FinishHandling, TypeOK, Busy
  <2>2. ListTypes(q, ex, rs)
    BY <2>1, AppendToList DEF TypeOK, ListTypes
  <2>3. LoopHead(t, q, ex, rs)
    BY <1>9 DEF FinishHandling
  <2> HIDE DEF q, ex, rs
  <2>4. QED BY <1>9, <2>1, <2>2, <2>3, LoopHeadTypes
            DEF FinishHandling, TypeOK, ListTypes, queueVars
<1>10. ASSUME NEW t \in Threads, SpuriousWakeup(t) PROVE TypeOK'
  BY <1>10 DEF SpuriousWakeup, TypeOK, Busy, queueVars, listVars
<1>11. ASSUME Shutdown PROVE TypeOK'
  BY <1>11 DEF Shutdown, NotifyAll, TypeOK, Busy, queueVars
<1>12. CASE UNCHANGED vars
  BY <1>12 DEF vars, TypeOK, queueVars, listVars, threadVars
<1>13. QED
  BY <1>1, <1>2, <1>3, <1>4, <1>5, <1>6, <1>7, <1>8, <1>9, <1>10, <1>11,
     <1>12 DEF Next, ThreadStep

\* All variables of the executor always have their types, in every thread's
\* program position (a thread owns a handler exactly while it is busy).
THEOREM TypeCorrect == Spec => []TypeOK
<1>1. ASSUME Init PROVE TypeOK
  <2>1. pending \in [Handlers -> Seq(Nat)] /\ handlerList \in Seq(Handlers)
    BY <1>1 DEF Init
  <2>2. accepted \in [Handlers -> 0..MaxCommands]
    BY <1>1, MaxCommandsAssumption DEF Init
  <2>3. QED BY <1>1, <2>1, <2>2, NullAssumption DEF Init, TypeOK, Busy
<1>2. QED BY <1>1, TypeStep, PTL DEF Spec
-----------------------------------------------------------------------------
(***************************************************************************)
(* Mutual exclusion                                                        *)
(*                                                                         *)
(* ExclusiveExecution alone is not inductive: it needs the agreement of    *)
(* the handler list, the executing and reschedule flags and the threads.   *)
(* Core states it for the values q, ex, rs, e and the set B of threads     *)
(* that are busy, so that it also describes the middle of executor()'s     *)
(* critical section, where thread t has given up one handler and not yet   *)
(* taken the next.                                                         *)
(***************************************************************************)
Core(q, ex, rs, e, B) ==
  /\ Unique(q)
  /\ \A h \in Handlers : InList(q, h) => ~ex[h]
  /\ \A s \in B : ex[e[s]]
  /\ \A r, s \in B : e[r] = e[s] => r = s
  /\ \A h \in Handlers : rs[h] => ex[h]
  /\ \A h \in Handlers : ex[h] => \E s \in B : e[s] = h

BusyThreads == {t \in Threads : pc[t] \in Busy}

ListCoherent == Core(handlerList, executing, reschedule, executor, BusyThreads)

\* The head of the executor's loop establishes Core for all busy threads
\* from Core for the threads other than t.
LEMMA LoopHeadCore ==
  ASSUME TypeOK, NEW t \in Threads, NEW q, NEW ex, NEW rs,
         ListTypes(q, ex, rs), LoopHead(t, q, ex, rs),
         Core(q, ex, rs, executor, BusyThreads \ {t})
  PROVE  ListCoherent'
<1>0. /\ \A s \in Threads \ {t} : pc'[s] = pc[s] /\ executor'[s] = executor[s]
      /\ ListTypes(handlerList', executing', reschedule')
  BY LoopHeadTypes
<1>1. CASE handler_shutdown \/ q = <<>>
  <2>1. /\ handlerList' = q /\ executing' = ex /\ reschedule' = rs
        /\ pc'[t] \in {"done", "waiting"}
    BY <1>1 DEF LoopHead, TypeOK
  <2>2. BusyThreads' = BusyThreads \ {t}
    BY <1>0, <2>1 DEF BusyThreads, Busy
  <2>3. \A s \in BusyThreads \ {t} : executor'[s] = executor[s]
    BY <1>0 DEF BusyThreads
  <2>4. QED BY <2>1, <2>2, <2>3 DEF ListCoherent, Core
<1>2. CASE q # <<>> /\ ~handler_shutdown
  <2> DEFINE g == Head(q)
  <2>1. /\ handlerList' = Tail(q)
        /\ executing' = [ex EXCEPT ![g] = TRUE]
        /\ reschedule' = [rs EXCEPT ![g] = FALSE]
        /\ pc'[t] = "pop"
        /\ executor'[t] = g
    BY <1>2 DEF LoopHead, TypeOK
  <2>2. /\ g \in Handlers
        /\ Unique(Tail(q))
        /\ \A h : InList(Tail(q), h) <=> InList(q, h) /\ h # g
        /\ InList(q, g)
    <3>1. q \in Seq(Handlers) /\ Unique(q)
      BY DEF ListTypes, Core
    <3>2. InList(q, g)
      BY <1>2, <3>1 DEF InList
    <3>3. QED BY <1>2, <3>1, <3>2, TailOfList
  <2>3. BusyThreads' = (BusyThreads \ {t}) \cup {t}
    BY <1>0, <2>1 DEF BusyThreads, Busy
  <2>4. \A s \in BusyThreads \ {t} : executor'[s] = executor[s]
    BY <1>0 DEF BusyThreads
  <2>5. ~ex[g] /\ \A s \in BusyThreads \ {t} : executor[s] # g
    BY <2>2 DEF Core
  <2> HIDE DEF g
  <2>6. \A h \in Handlers : InList(handlerList', h) => ~executing'[h]
    BY <2>1, <2>2 DEF Core, ListTypes
  <2>7. \A s \in BusyThreads' : executing'[executor'[s]]
    <3>1. \A s \in BusyThreads \ {t} : executor[s] \in Handlers
      BY DEF BusyThreads, TypeOK
    <3>2. QED BY <2>1, <2>2, <2>3, <2>4, <2>5, <3>1 DEF Core, ListTypes
  <2>8. \A r, s \in BusyThreads' : executor'[r] = executor'[s] => r = s
    BY <2>1, <2>3, <2>4, <2>5 DEF Core
  <2>9. \A h \in Handlers : reschedule'[h] => executing'[h]
    BY <2>1, <2>2 DEF Core, ListTypes
  <2>10. \A h \in Handlers : executing'[h] => \E s \in BusyThreads' : executor'[s] = h
    BY <2>1, <2>2, <2>3, <2>4 DEF Core, ListTypes
  <2>11. QED BY <2>1, <2>2, <2>6, <2>7, <2>8, <2>9, <2>10 DEF ListCoherent, Core
<1>3. QED BY <1>1, <1>2

\* Leaving a handler (FinishHandling before it loops): Core holds for the
\* remaining threads, whether or not the handler is listed again.
LEMMA LeaveHandlerCore ==
  ASSUME TypeOK, ListCoherent, NEW t \in Threads, pc[t] = "finish",
         NEW q, q = handlerList \/ q = Append(handlerList, executor[t])
  PROVE  /\ executor[t] \in Handlers
         /\ ~Listed(executor[t])
         /\ ListTypes(q, [executing EXCEPT ![executor[t]] = FALSE],
                         [reschedule EXCEPT ![executor[t]] = FALSE])
         /\ Core(q, [executing EXCEPT ![executor[t]] = FALSE],
                 [reschedule EXCEPT ![executor[t]] = FALSE],
                 executor, BusyThreads \ {t})
<1> DEFINE h == executor[t]
           ex == [executing EXCEPT ![h] = FALSE]
           rs == [reschedule EXCEPT ![h] = FALSE]
<1>1. h \in Handlers /\ t \in BusyThreads
  BY DEF TypeOK, BusyThreads, Busy
<1>2. ~Listed(h)
  BY <1>1 DEF ListCoherent, Core, Listed
<1>3. /\ q \in Seq(Handlers)
      /\ Unique(q)
      /\ \A g : InList(q, g) => InList(handlerList, g) \/ g = h
  <2>1. handlerList \in Seq(Handlers) /\ Unique(handlerList)
    BY DEF TypeOK, ListCoherent, Core
  <2>2. /\ Append(handlerList, h) \in Seq(Handlers)
        /\ Unique(Append(handlerList, h))
        /\ \A g : InList(Append(handlerList, h), g) => InList(handlerList, g) \/ g = h
    BY <1>1, <1>2, <2>1, AppendToList DEF Listed
  <2>3. QED BY <2>1, <2>2
<1>4. ListTypes(q, ex, rs)
  BY <1>1, <1>3 DEF ListTypes, TypeOK
<1> HIDE DEF h
<1>5. \A s \in BusyThreads \ {t} : executor[s] # h /\ executor[s] \in Handlers
  BY <1>1 DEF ListCoherent, Core, h, BusyThreads, TypeOK
<1>6. \A g \in Handlers : ex[g] = (IF g = h THEN FALSE ELSE executing[g])
  BY <1>1 DEF TypeOK
<1>7. \A g \in Handlers : rs[g] = (IF g = h THEN FALSE ELSE reschedule[g])
  BY <1>1 DEF TypeOK
<1>8. Core(q, ex, rs, executor, BusyThreads \ {t})
  <2> HIDE DEF ex, rs
  <2>1. \A g \in Handlers : InList(q, g) => ~ex[g]
    BY <1>3, <1>6 DEF ListCoherent, Core
  <2>2. \A s \in BusyThreads \ {t} : ex[executor[s]]
    BY <1>5, <1>6 DEF ListCoherent, Core
  <2>3. \A r, s \in BusyThreads \ {t} : executor[r] = executor[s] => r = s
    BY DEF ListCoherent, Core
  <2>4. \A g \in Handlers : rs[g] => ex[g]
    BY <1>6, <1>7 DEF ListCoherent, Core
  <2>5. \A g \in Handlers : ex[g] => \E s \in BusyThreads \ {t} : executor[s] = g
    BY <1>6 DEF ListCoherent, Core, h
  <2>6. QED BY <1>3, <2>1, <2>2, <2>3, <2>4, <2>5 DEF Core
<1>9. QED BY <1>1, <1>2, <1>4, <1>8 DEF h

\* Every action keeps the list, the flags and the threads in agreement.
LEMMA CoherentStep == TypeOK /\ ListCoherent /\ [Next]_vars => ListCoherent'
<1> SUFFICES ASSUME TypeOK, ListCoherent, [Next]_vars PROVE ListCoherent'
  OBVIOUS
\* Steps that change neither the list nor the flags, and no busy thread.
<1>0. ASSUME UNCHANGED <<handlerList, executing, reschedule, executor>>,
             BusyThreads' = BusyThreads
      PROVE  ListCoherent'
  BY <1>0 DEF ListCoherent
<1>1. ASSUME NEW p \in Producers, NEW h \in Handlers, EnqueueCommand(p, h)
      PROVE  ListCoherent'
  BY <1>0, <1>1 DEF EnqueueCommand, listVars, threadVars, BusyThreads
<1>2. ASSUME NEW p \in Producers, EnqueueHandler(p) PROVE ListCoherent'
  <2> DEFINE h == announcing[p]
  <2>1. h \in Handlers
    BY <1>2 DEF EnqueueHandler, TypeOK
  <2>2. BusyThreads' = BusyThreads
    <3>1. \A t \in Threads : pc'[t] # pc[t] => pc[t] = "waiting" /\ pc'[t] = "notified"
      <4>1. pc' = pc \/ \E s \in Waiting : pc' = [pc EXCEPT ![s] = "notified"]
        BY <1>2 DEF EnqueueHandler, NotifyOne
      <4>2. QED BY <4>1 DEF Waiting, TypeOK
    <3>2. QED BY <3>1 DEF BusyThreads, Busy
  <2>3. executing' = executing /\ executor' = executor
    BY <1>2 DEF EnqueueHandler
  <2>4. CASE Listed(h)
    BY <1>2, <2>2, <2>3, <2>4, <1>0 DEF EnqueueHandler
  <2>5. CASE ~Listed(h) /\ HandlerBusy(h)
    <3>1. executing[h]
      BY <2>1, <2>5 DEF HandlerBusy, ListCoherent, Core
    <3>2. handlerList' = handlerList /\ reschedule' = [reschedule EXCEPT ![h] = TRUE]
      BY <1>2, <2>5 DEF EnqueueHandler
    <3>3. QED BY <2>1, <2>2, <2>3, <3>1, <3>2 DEF ListCoherent, Core, TypeOK
  <2>6. CASE ~Listed(h) /\ ~HandlerBusy(h)
    <3>1. handlerList' = Append(handlerList, h) /\ reschedule' = reschedule
      BY <1>2, <2>6 DEF EnqueueHandler
    <3>2. /\ Unique(handlerList')
          /\ \A g : InList(handlerList', g) <=> InList(handlerList, g) \/ g = h
      <4>1. handlerList \in Seq(Handlers) /\ Unique(handlerList)
        BY DEF ListCoherent, Core, TypeOK
      <4>2. QED BY <2>1, <2>6, <3>1, <4>1, AppendToList DEF Listed
    <3>3. \A g \in Handlers : InList(handlerList', g) => ~executing[g]
      BY <2>6, <3>2 DEF ListCoherent, Core, HandlerBusy
    <3> HIDE DEF h
    <3>4. QED BY <2>2, <2>3, <3>1, <3>2, <3>3 DEF ListCoherent, Core
  <2>7. QED BY <2>4, <2>5, <2>6
<1>3. ASSUME NEW h \in Handlers, Reset(h) \/ Disconnect(h) PROVE ListCoherent'
  BY <1>0, <1>3 DEF Reset, Disconnect, listVars, threadVars, BusyThreads
<1>4. ASSUME NEW t \in Threads, Wake(t) PROVE ListCoherent'
  <2>1. BusyThreads \ {t} = BusyThreads
    BY <1>4 DEF Wake, BusyThreads, Busy
  <2>2. ListTypes(handlerList, executing, reschedule)
    BY DEF TypeOK, ListTypes
  <2>3. Core(handlerList, executing, reschedule, executor, BusyThreads \ {t})
    BY <2>1 DEF ListCoherent
  <2>4. QED BY <1>4, <2>2, <2>3, LoopHeadCore DEF Wake
<1>5. ASSUME NEW t \in Threads,
             PopCommand(t) \/ HandleCommand(t) \/ FlushCommands(t)
      PROVE  ListCoherent'
  <2>1. /\ UNCHANGED <<handlerList, executing, reschedule, executor>>
        /\ pc[t] \in Busy /\ pc'[t] \in Busy
        /\ \A s \in Threads \ {t} : pc'[s] = pc[s]
    BY <1>5 DEF PopCommand, HandleCommand, FlushCommands, listVars, TypeOK, Busy
  <2>2. BusyThreads' = BusyThreads
    BY <2>1 DEF BusyThreads
  <2>3. QED BY <1>0, <2>1, <2>2
<1>6. ASSUME NEW t \in Threads, FinishHandling(t) PROVE ListCoherent'
  <2>1. pc[t] = "finish"
    BY <1>6 DEF FinishHandling
  <2> DEFINE h == executor[t]
             q == IF RunAgain(t) THEN Append(handlerList, h) ELSE handlerList
             ex == [executing EXCEPT ![h] = FALSE]
             rs == [reschedule EXCEPT ![h] = FALSE]
  <2>2. LoopHead(t, q, ex, rs)
    BY <1>6 DEF FinishHandling
  <2>3. ListTypes(q, ex, rs) /\ Core(q, ex, rs, executor, BusyThreads \ {t})
    BY <2>1, LeaveHandlerCore
  <2> HIDE DEF q, ex, rs
  <2>4. QED BY <2>2, <2>3, LoopHeadCore
<1>7. ASSUME NEW t \in Threads, SpuriousWakeup(t) PROVE ListCoherent'
  BY <1>0, <1>7 DEF SpuriousWakeup, listVars, BusyThreads, Busy, TypeOK
<1>8. ASSUME Shutdown PROVE ListCoherent'
  BY <1>0, <1>8 DEF Shutdown, NotifyAll, BusyThreads, Busy, TypeOK
<1>9. CASE UNCHANGED vars
  BY <1>0, <1>9 DEF vars, listVars, threadVars, BusyThreads
<1>10. QED
  BY <1>1, <1>2, <1>3, <1>4, <1>5, <1>6, <1>7, <1>8, <1>9 DEF Next, ThreadStep

\* In the initial state no handler is listed, executing or owned.
LEMMA CoherentInit == Init => ListCoherent
<1> SUFFICES ASSUME Init PROVE ListCoherent
  OBVIOUS
<1>1. BusyThreads = {}
  BY DEF Init, BusyThreads, Busy
<1>2. Unique(handlerList) /\ \A h : ~InList(handlerList, h)
  BY DEF Init, Unique, InList
<1>3. QED BY <1>1, <1>2 DEF Init, ListCoherent, Core

\* No client's handler is ever executed by two threads at once.
THEOREM MutualExclusion == Spec => []ExclusiveExecution
<1>1. TypeOK /\ ListCoherent => ExclusiveExecution
  BY DEF TypeOK, ListCoherent, Core, BusyThreads, ExclusiveExecution, Busy
<1>2. QED
  BY <1>1, CoherentInit, CoherentStep, TypeCorrect, PTL DEF Spec
-----------------------------------------------------------------------------
(***************************************************************************)
(* No command is forgotten                                                 *)
(*                                                                         *)
(* The flag has_command_handling_scheduled carries the argument: it is set *)
(* while a queue is not empty, and while it is set somebody is going to    *)
(* look at the queue.                                                      *)
(***************************************************************************)
Served == /\ \A h \in Handlers : pending[h] # <<>> => scheduled[h]
          /\ \A h \in Handlers : scheduled[h] => WillLookAgain(h)
          /\ \A t \in Threads : pc[t] = "handle" => more_pending[t]

\* What the head of the executor's loop does for the pending handlers: one
\* that was in the list q is in the new list or has just been taken; the
\* other threads, and the reschedule flags of their handlers, are untouched.
LEMMA LoopHeadServed ==
  ASSUME TypeOK, NEW t \in Threads, NEW q, NEW ex, NEW rs,
         ListTypes(q, ex, rs), LoopHead(t, q, ex, rs),
         Core(q, ex, rs, executor, BusyThreads \ {t})
  PROVE  /\ \A h \in Handlers : InList(q, h) =>
               Listed(h)' \/ (executor'[t] = h /\ pc'[t] = "pop")
         /\ \A s \in BusyThreads \ {t} :
               /\ pc'[s] = pc[s] /\ executor'[s] = executor[s]
               /\ reschedule'[executor[s]] = rs[executor[s]]
         /\ pc'[t] # "handle"
         /\ \A s \in Threads \ {t} : pc'[s] = pc[s]
<1>0. /\ \A s \in Threads \ {t} : pc'[s] = pc[s] /\ executor'[s] = executor[s]
      /\ pc'[t] # "handle"
      /\ \A s \in BusyThreads \ {t} : s \in Threads \ {t}
      /\ \A s \in BusyThreads \ {t} : executor[s] \in Handlers
  BY LoopHeadTypes DEF BusyThreads, TypeOK
<1>1. CASE handler_shutdown \/ q = <<>>
  <2>1. handlerList' = q /\ reschedule' = rs
    BY <1>1 DEF LoopHead
  <2>2. QED BY <1>0, <2>1 DEF Listed
<1>2. CASE q # <<>> /\ ~handler_shutdown
  <2> DEFINE g == Head(q)
  <2>1. /\ handlerList' = Tail(q)
        /\ reschedule' = [rs EXCEPT ![g] = FALSE]
        /\ pc'[t] = "pop"
        /\ executor'[t] = g
    BY <1>2 DEF LoopHead, TypeOK
  <2>2. q \in Seq(Handlers) /\ Unique(q)
    BY DEF ListTypes, Core
  <2>3. InList(q, g) /\ g \in Handlers
    BY <1>2, <2>2 DEF InList
  <2>4. \A h : InList(Tail(q), h) <=> InList(q, h) /\ h # g
    BY <1>2, <2>2, TailOfList
  <2>5. \A s \in BusyThreads \ {t} : executor[s] # g
    BY <2>3 DEF Core
  <2> HIDE DEF g
  <2>6. \A s \in BusyThreads \ {t} : reschedule'[executor[s]] = rs[executor[s]]
    BY <1>0, <2>1, <2>5 DEF ListTypes
  <2>7. QED BY <1>0, <2>1, <2>4, <2>6 DEF Listed
<1>3. QED BY <1>1, <1>2

\* Every action keeps Served: no interleaving of a producer between its two
\* critical sections with the executor loses the handler.
LEMMA ServedStep ==
  TypeOK /\ ListCoherent /\ Served /\ [Next]_vars => Served'
<1> SUFFICES ASSUME TypeOK, ListCoherent, Served, [Next]_vars PROVE Served'
  OBVIOUS
<1>1. ASSUME NEW p \in Producers, NEW h \in Handlers, EnqueueCommand(p, h)
      PROVE  Served'
  <2>1. UNCHANGED <<handlerList, reschedule, pc, executor, more_pending>>
    BY <1>1 DEF EnqueueCommand, listVars, threadVars
  <2>2. /\ announcing[p] = NoHandler
        /\ announcing' = [announcing EXCEPT ![p] = IF scheduled[h] THEN NoHandler ELSE h]
        /\ scheduled' = [scheduled EXCEPT ![h] = TRUE]
        /\ pending' = [pending EXCEPT ![h] = Append(@, accepted[h] + 1)]
    BY <1>1 DEF EnqueueCommand
  <2>3. \A g \in Handlers : WillLookAgain(g) => WillLookAgain(g)'
    BY <2>1, <2>2, NullAssumption DEF WillLookAgain, Listed, TypeOK
  <2>4. ~scheduled[h] => WillLookAgain(h)'
    BY <2>2 DEF WillLookAgain, TypeOK
  <2>5. \A g \in Handlers : scheduled'[g] => WillLookAgain(g)'
    BY <2>2, <2>3, <2>4 DEF Served, TypeOK
  <2>6. \A g \in Handlers : pending'[g] # <<>> => scheduled'[g]
    BY <2>2 DEF Served, TypeOK
  <2>7. QED BY <2>1, <2>5, <2>6 DEF Served
<1>2. ASSUME NEW p \in Producers, NEW h \in Handlers, h = announcing[p],
             EnqueueHandler(p)
      PROVE  Served'
  <2>1. /\ announcing' = [announcing EXCEPT ![p] = NoHandler]
        /\ UNCHANGED <<pending, scheduled, executor, more_pending>>
    BY <1>2 DEF EnqueueHandler, queueVars, TypeOK
  <2>2. \A t \in Threads : pc'[t] # pc[t] => pc[t] = "waiting" /\ pc'[t] = "notified"
    <3>1. pc' = pc \/ \E s \in Waiting : pc' = [pc EXCEPT ![s] = "notified"]
      BY <1>2 DEF EnqueueHandler, NotifyOne
    <3>2. QED BY <3>1 DEF Waiting, TypeOK
  <2>3. /\ \A g \in Handlers : Listed(g) => Listed(g)'
        /\ \A g \in Handlers : reschedule[g] => reschedule'[g]
        /\ Listed(h)' \/ (executing[h] /\ reschedule'[h])
    <3>1. CASE Listed(h)
      <4>1. handlerList' = handlerList /\ reschedule' = reschedule
        BY <1>2, <3>1 DEF EnqueueHandler
      <4>2. QED BY <3>1, <4>1 DEF Listed
    <3>2. CASE ~Listed(h) /\ HandlerBusy(h)
      <4>1. handlerList' = handlerList /\ reschedule' = [reschedule EXCEPT ![h] = TRUE]
        BY <1>2, <3>2 DEF EnqueueHandler
      <4>2. executing[h]
        BY <2>1, <3>2 DEF HandlerBusy, ListCoherent, Core
      <4>3. QED BY <2>1, <4>1, <4>2 DEF Listed, TypeOK
    <3>3. CASE ~Listed(h) /\ ~HandlerBusy(h)
      <4>1. handlerList' = Append(handlerList, h) /\ reschedule' = reschedule
        BY <1>2, <3>3 DEF EnqueueHandler
      <4>2. \A g : InList(handlerList', g) <=> InList(handlerList, g) \/ g = h
        BY <2>1, <4>1, AppendToList DEF TypeOK
      <4>3. QED BY <4>1, <4>2 DEF Listed
    <3>4. QED BY <3>1, <3>2, <3>3
  <2>4. WillLookAgain(h)'
    <3>1. CASE Listed(h)'
      BY <3>1 DEF WillLookAgain
    <3>2. CASE executing[h] /\ reschedule'[h]
      <4>1. PICK t \in Threads : pc[t] \in Busy /\ executor[t] = h
        BY <2>1, <3>2 DEF ListCoherent, Core, BusyThreads
      <4>2. pc'[t] = pc[t] /\ executor'[t] = h
        BY <2>1, <2>2, <4>1 DEF Busy
      <4>3. QED BY <3>2, <4>1, <4>2 DEF WillLookAgain, Busy
    <3>3. QED BY <2>3, <3>1, <3>2
  <2>5. ASSUME NEW g \in Handlers, WillLookAgain(g), g # h PROVE WillLookAgain(g)'
    <3>1. CASE Listed(g)
      BY <2>3, <3>1 DEF WillLookAgain
    <3>2. CASE \E r \in Producers : announcing[r] = g
      BY <1>2, <2>1, <2>5, <3>2 DEF WillLookAgain, TypeOK
    <3>3. ASSUME NEW t \in Threads, executor[t] = g,
                 \/ pc[t] \in {"pop", "handle", "flush"}
                 \/ pc[t] = "finish" /\ (more_pending[t] \/ reschedule[g])
          PROVE  WillLookAgain(g)'
      <4>1. pc'[t] = pc[t] /\ executor'[t] = g /\ more_pending'[t] = more_pending[t]
        BY <2>1, <2>2, <3>3
      <4>2. reschedule[g] => reschedule'[g]
        BY <2>3
      <4>3. QED BY <3>3, <4>1, <4>2 DEF WillLookAgain
    <3>4. QED BY <2>5, <3>1, <3>2, <3>3 DEF WillLookAgain
  <2>6. QED BY <2>1, <2>2, <2>4, <2>5 DEF Served
<1>3. ASSUME NEW h \in Handlers, ResetQueue(h), pc' = pc, more_pending' = more_pending,
             UNCHANGED <<handlerList, reschedule, executor, announcing>>
      PROVE  Served'
  <2>1. \A g \in Handlers : WillLookAgain(g)' <=> WillLookAgain(g)
    BY <1>3 DEF WillLookAgain, Listed
  <2>2. QED BY <1>3, <2>1 DEF Served, ResetQueue, TypeOK
<1>4. ASSUME NEW h \in Handlers, Reset(h) PROVE Served'
  BY <1>3, <1>4 DEF Reset, listVars, threadVars
<1>5. ASSUME UNCHANGED <<pending, scheduled, handlerList, reschedule, executor,
                         more_pending, announcing>>,
             \A t \in Threads : pc'[t] # pc[t] => {pc[t], pc'[t]} \cap Busy = {}
      PROVE  Served'
  <2>1. \A g \in Handlers : WillLookAgain(g) => WillLookAgain(g)'
    BY <1>5 DEF WillLookAgain, Listed, Busy
  <2>2. \A t \in Threads : pc'[t] = "handle" => pc[t] = "handle"
    BY <1>5 DEF Busy
  <2>3. QED BY <1>5, <2>1, <2>2 DEF Served
<1>6. ASSUME NEW h \in Handlers, Disconnect(h) PROVE Served'
  BY <1>5, <1>6 DEF Disconnect, queueVars, listVars, threadVars
<1>7. ASSUME NEW t \in Threads, SpuriousWakeup(t) PROVE Served'
  BY <1>5, <1>7 DEF SpuriousWakeup, queueVars, listVars, Busy, TypeOK
<1>8. ASSUME Shutdown PROVE Served'
  BY <1>5, <1>8 DEF Shutdown, NotifyAll, queueVars, Busy, TypeOK
<1>9. CASE UNCHANGED vars
  BY <1>5, <1>9 DEF vars, queueVars, listVars, threadVars
<1>10. ASSUME NEW t \in Threads, NEW h \in Handlers, h = executor[t], PopCommand(t)
       PROVE  Served'
  <2>1. /\ UNCHANGED <<handlerList, reschedule, executor, announcing>>
        /\ more_pending' = [more_pending EXCEPT ![t] = MorePending(pending[h])]
        /\ \A s \in Threads \ {t} : pc'[s] = pc[s] /\ more_pending'[s] = more_pending[s]
    BY <1>10 DEF PopCommand, listVars, TypeOK
  <2>2. ASSUME NEW g \in Handlers, g # h, WillLookAgain(g) PROVE WillLookAgain(g)'
    BY <1>10, <2>1, <2>2 DEF WillLookAgain, Listed
  <2>3. CASE pending[h] = <<>>
    <3>1. scheduled' = [scheduled EXCEPT ![h] = FALSE] /\ pending' = pending
      BY <1>10, <2>3 DEF PopCommand
    <3>2. pc'[t] = "finish"
      BY <1>10, <2>3 DEF PopCommand, TypeOK
    <3>3. \A g \in Handlers : pending'[g] # <<>> => scheduled'[g]
      BY <2>3, <3>1 DEF Served, TypeOK
    <3>4. \A g \in Handlers : scheduled'[g] => WillLookAgain(g)'
      BY <2>2, <3>1 DEF Served, TypeOK
    <3>5. QED BY <2>1, <3>2, <3>3, <3>4 DEF Served
  <2>4. CASE pending[h] # <<>>
    <3>1. scheduled' = scheduled /\ pending' = [pending EXCEPT ![h] = Tail(@)]
      BY <1>10, <2>4 DEF PopCommand
    <3>2. pc'[t] = "handle" /\ more_pending'[t] = TRUE
      BY <1>10, <2>1, <2>4 DEF PopCommand, TypeOK, MorePending
    <3>3. scheduled[h]
      BY <2>4 DEF Served
    <3>4. \A g \in Handlers : pending'[g] # <<>> => scheduled'[g]
      BY <3>1, <3>3 DEF Served, TypeOK
    <3>5. WillLookAgain(h)'
      BY <1>10, <2>1, <3>2 DEF WillLookAgain
    <3>6. QED BY <2>1, <2>2, <3>1, <3>2, <3>4, <3>5 DEF Served
  <2>5. QED BY <2>3, <2>4
<1>11. ASSUME NEW t \in Threads, HandleCommand(t) PROVE Served'
  <2>1. /\ UNCHANGED <<pending, scheduled, handlerList, reschedule, executor,
                        announcing, more_pending>>
        /\ \A s \in Threads \ {t} : pc'[s] = pc[s]
        /\ pc[t] = "handle" /\ pc'[t] \in {"flush", "finish"}
    BY <1>11 DEF HandleCommand, queueVars, listVars, TypeOK
  <2>2. more_pending'[t]
    BY <2>1 DEF Served
  <2>3. \A g \in Handlers : WillLookAgain(g) => WillLookAgain(g)'
    BY <2>1, <2>2 DEF WillLookAgain, Listed
  <2>4. QED BY <2>1, <2>3 DEF Served
<1>12. ASSUME NEW t \in Threads, NEW h \in Handlers, h = executor[t], FlushCommands(t)
       PROVE  Served'
  <2>1. /\ UNCHANGED <<handlerList, reschedule, executor, announcing>>
        /\ pending' = [pending EXCEPT ![h] = <<>>]
        /\ scheduled' = [scheduled EXCEPT ![h] = FALSE]
        /\ \A s \in Threads \ {t} : pc'[s] = pc[s] /\ more_pending'[s] = more_pending[s]
        /\ pc'[t] = "finish"
    BY <1>12 DEF FlushCommands, ResetQueue, listVars, TypeOK
  <2>2. ASSUME NEW g \in Handlers, g # h, WillLookAgain(g) PROVE WillLookAgain(g)'
    BY <1>12, <2>1, <2>2 DEF WillLookAgain, Listed
  <2>3. QED BY <2>1, <2>2 DEF Served, TypeOK
\* The two actions that reach the head of the loop, with the list q.
<1>13. ASSUME NEW t \in Threads, NEW q, NEW ex, NEW rs,
              ListTypes(q, ex, rs), LoopHead(t, q, ex, rs),
              Core(q, ex, rs, executor, BusyThreads \ {t}),
              \A h \in Handlers : Listed(h) => InList(q, h),
              \A h \in Handlers : reschedule[h] => rs[h] \/ executor[t] = h,
              pc[t] \in {"start", "notified", "finish"},
              pc[t] = "finish" /\ RunAgain(t) => InList(q, executor[t]),
              executor[t] \in Handlers => pc[t] = "finish",
              UNCHANGED <<pending, scheduled, announcing>>,
              \A s \in Threads \ {t} : more_pending'[s] = more_pending[s]
       PROVE  Served'
  <2>1. /\ \A h \in Handlers : InList(q, h) =>
               Listed(h)' \/ (executor'[t] = h /\ pc'[t] = "pop")
        /\ \A s \in BusyThreads \ {t} :
               /\ pc'[s] = pc[s] /\ executor'[s] = executor[s]
               /\ reschedule'[executor[s]] = rs[executor[s]]
        /\ pc'[t] # "handle"
        /\ \A s \in Threads \ {t} : pc'[s] = pc[s]
    BY <1>13, LoopHeadServed
  <2>2. ASSUME NEW h \in Handlers, WillLookAgain(h) PROVE WillLookAgain(h)'
    <3>1. CASE Listed(h)
      BY <1>13, <2>1, <3>1 DEF WillLookAgain
    <3>2. CASE \E p \in Producers : announcing[p] = h
      BY <1>13, <3>2 DEF WillLookAgain
    <3>3. ASSUME NEW s \in Threads, executor[s] = h,
                 \/ pc[s] \in {"pop", "handle", "flush"}
                 \/ pc[s] = "finish" /\ (more_pending[s] \/ reschedule[h])
          PROVE  WillLookAgain(h)'
      <4>1. CASE s = t
        <5>1. InList(q, h)
          BY <1>13, <3>3, <4>1 DEF RunAgain
        <5>2. QED BY <2>1, <5>1 DEF WillLookAgain
      <4>2. CASE s # t
        <5>1. s \in BusyThreads \ {t}
          BY <3>3, <4>2 DEF BusyThreads, Busy
        <5>2. executor[t] # h \/ t \notin BusyThreads
          BY <3>3, <4>2, <5>1 DEF ListCoherent, Core
        <5>3. executor[t] # h
          BY <1>13, <5>2 DEF BusyThreads, Busy
        <5>4. reschedule[h] => reschedule'[h]
          BY <1>13, <2>1, <3>3, <5>1, <5>3
        <5>5. QED BY <1>13, <2>1, <3>3, <4>2, <5>1, <5>4 DEF WillLookAgain
      <4>3. QED BY <4>1, <4>2
    <3>4. QED BY <2>2, <3>1, <3>2, <3>3 DEF WillLookAgain
  <2>3. \A s \in Threads : pc'[s] = "handle" => more_pending'[s]
    BY <1>13, <2>1 DEF Served
  <2>4. QED BY <1>13, <2>2, <2>3 DEF Served
<1>14. ASSUME NEW t \in Threads, Wake(t) PROVE Served'
  <2>1. ListTypes(handlerList, executing, reschedule)
    BY DEF TypeOK, ListTypes
  <2>2. BusyThreads \ {t} = BusyThreads
    BY <1>14 DEF Wake, BusyThreads, Busy
  <2>3. Core(handlerList, executing, reschedule, executor, BusyThreads \ {t})
    BY <2>2 DEF ListCoherent
  <2>4. executor[t] \notin Handlers
    BY <1>14 DEF Wake, TypeOK, Busy
  <2>5. pc[t] \in {"start", "notified"} /\ UNCHANGED <<pending, scheduled, announcing, more_pending>>
        /\ LoopHead(t, handlerList, executing, reschedule)
    BY <1>14 DEF Wake, queueVars
  <2>6. QED BY <1>13, <2>1, <2>3, <2>4, <2>5 DEF Listed
<1>17. ASSUME NEW t \in Threads, FinishHandling(t) PROVE Served'
  <2> DEFINE h == executor[t]
             q == IF RunAgain(t) THEN Append(handlerList, h) ELSE handlerList
             ex == [executing EXCEPT ![h] = FALSE]
             rs == [reschedule EXCEPT ![h] = FALSE]
  <2>1. /\ pc[t] = "finish"
        /\ UNCHANGED <<pending, scheduled, announcing>>
        /\ \A s \in Threads \ {t} : more_pending'[s] = more_pending[s]
    BY <1>17 DEF FinishHandling, queueVars, TypeOK
  <2>2. LoopHead(t, q, ex, rs)
    BY <1>17 DEF FinishHandling
  <2>3. /\ ListTypes(q, ex, rs) /\ h \in Handlers
        /\ Core(q, ex, rs, executor, BusyThreads \ {t})
    BY <2>1, LeaveHandlerCore
  <2>4. \A g : InList(Append(handlerList, h), g) <=> InList(handlerList, g) \/ g = h
    BY <2>3, AppendToList DEF TypeOK
  <2>5. /\ \A g \in Handlers : Listed(g) => InList(q, g)
        /\ RunAgain(t) => InList(q, executor[t])
    BY <2>4 DEF Listed
  <2>6. \A g \in Handlers : reschedule[g] => rs[g] \/ executor[t] = g
    BY <2>3 DEF TypeOK
  <2> HIDE DEF h, q, ex, rs
  <2>7. QED BY <1>13, <2>1, <2>2, <2>3, <2>5, <2>6
<1>15. ASSUME NEW p \in Producers, EnqueueHandler(p) PROVE Served'
  <2>1. announcing[p] \in Handlers
    BY <1>15 DEF EnqueueHandler, TypeOK
  <2>2. QED BY <1>2, <1>15, <2>1
<1>16. ASSUME NEW t \in Threads, PopCommand(t) \/ FlushCommands(t) PROVE Served'
  <2>1. executor[t] \in Handlers
    BY <1>16 DEF PopCommand, FlushCommands, TypeOK, Busy
  <2>2. QED BY <1>10, <1>12, <1>16, <2>1
<1>18. QED
  BY <1>1, <1>15, <1>4, <1>6, <1>7, <1>8, <1>9, <1>11, <1>14, <1>16, <1>17
     DEF Next, ThreadStep

\* A client's pending commands are never forgotten by the executor.
THEOREM NothingForgotten == Spec => []NoForgottenCommand
<1>1. Init => Served
  BY DEF Init, Served
<1>2. Served => NoForgottenCommand
  BY DEF Served, NoForgottenCommand
<1>3. Spec => [](TypeOK /\ ListCoherent)
  BY CoherentInit, CoherentStep, TypeCorrect, PTL DEF Spec
<1>4. QED BY <1>1, <1>2, <1>3, ServedStep, PTL DEF Spec
-----------------------------------------------------------------------------
(***************************************************************************)
(* No lost wake-up                                                         *)
(***************************************************************************)
\* Once the executor is shut down nobody sleeps: the flag is set and everybody
\* is notified in one critical section, and a thread looks at the flag before
\* it waits.
WokenForShutdown == handler_shutdown => Waiting = {}

\* The threads on their way to the list are finitely many.
LEMMA AwakeFinite ==
  ASSUME NEW p PROVE LET A == {t \in Threads : p[t] \in {"start", "notified"}}
                     IN  IsFiniteSet(A) /\ Cardinality(A) \in Nat
<1> DEFINE A == {t \in Threads : p[t] \in {"start", "notified"}}
<1>1. A \subseteq Threads
  OBVIOUS
<1>2. IsFiniteSet(A)
  BY <1>1, ThreadsAssumption, FS_Subset
<1> QED BY <1>2, FS_CardinalityType

\* Every action keeps a woken thread for every listed handler while somebody
\* sleeps.  The re-append of executor() needs none: the thread that appends
\* takes the head of the list itself.
LEMMA WakeupStep ==
  TypeOK /\ WokenForShutdown /\ NoMissedWakeup /\ [Next]_vars
    => WokenForShutdown' /\ NoMissedWakeup'
<1> SUFFICES ASSUME TypeOK, WokenForShutdown, NoMissedWakeup, [Next]_vars
             PROVE  WokenForShutdown' /\ NoMissedWakeup'
  OBVIOUS
<1>f. /\ IsFiniteSet(Awake) /\ Cardinality(Awake) \in Nat
      /\ IsFiniteSet(Awake') /\ Cardinality(Awake') \in Nat
  BY AwakeFinite DEF Awake
\* One thread more is awake, or one less.
<1>m. \A t : t \notin Awake => Cardinality(Awake \cup {t}) = Cardinality(Awake) + 1
  BY <1>f, FS_AddElement
<1>l. \A t \in Awake : Cardinality(Awake \ {t}) = Cardinality(Awake) - 1
  BY <1>f, FS_RemoveElement
<1>t. handlerList \in Seq(Handlers) /\ Len(handlerList) \in Nat
  BY DEF TypeOK
\* Steps that touch neither the list nor a thread that waits or is awake
<1>q. ASSUME UNCHANGED <<handlerList, handler_shutdown>>, Waiting' = Waiting, Awake' = Awake
      PROVE  WokenForShutdown' /\ NoMissedWakeup'
  BY <1>q DEF WokenForShutdown, NoMissedWakeup
<1>1. ASSUME NEW p \in Producers, NEW h \in Handlers, EnqueueCommand(p, h)
      PROVE  WokenForShutdown' /\ NoMissedWakeup'
  BY <1>1, <1>q DEF EnqueueCommand, listVars, threadVars, Waiting, Awake
<1>2. ASSUME NEW p \in Producers, EnqueueHandler(p)
      PROVE  WokenForShutdown' /\ NoMissedWakeup'
  <2> DEFINE h == announcing[p]
  <2>1. h \in Handlers /\ handler_shutdown' = handler_shutdown
    BY <1>2 DEF EnqueueHandler, TypeOK
  <2>2. CASE UNCHANGED <<handlerList, pc>>
    BY <1>q, <2>1, <2>2 DEF Waiting, Awake
  <2>3. CASE handlerList' = Append(handlerList, h) /\ NotifyOne
    <3>1. Len(handlerList') = Len(handlerList) + 1
      BY <1>t, <2>1, <2>3
    <3>2. CASE Waiting = {}
      <4>1. Waiting' = {}
        BY <2>3, <3>2 DEF NotifyOne, Waiting
      <4> QED BY <4>1 DEF WokenForShutdown, NoMissedWakeup
    <3>3. CASE Waiting # {}
      <4>1. PICK t \in Waiting : pc' = [pc EXCEPT ![t] = "notified"]
        BY <2>3, <3>3 DEF NotifyOne
      <4>2. Awake' = Awake \cup {t} /\ t \notin Awake
        BY <4>1 DEF Awake, Waiting, TypeOK
      <4>3. Cardinality(Awake') = Cardinality(Awake) + 1
        BY <4>2, <1>m
      <4>4. Len(handlerList) <= Cardinality(Awake) /\ ~handler_shutdown
        BY <3>3 DEF NoMissedWakeup, WokenForShutdown
      <4> QED BY <1>f, <1>t, <2>1, <3>1, <4>3, <4>4 DEF WokenForShutdown, NoMissedWakeup
    <3> QED BY <3>2, <3>3
  <2> QED BY <1>2, <2>2, <2>3 DEF EnqueueHandler
<1>3. ASSUME NEW h \in Handlers, Reset(h) \/ Disconnect(h)
      PROVE  WokenForShutdown' /\ NoMissedWakeup'
  BY <1>3, <1>q DEF Reset, Disconnect, listVars, threadVars, Waiting, Awake
<1>4. ASSUME NEW t \in Threads, Wake(t)
      PROVE  WokenForShutdown' /\ NoMissedWakeup'
  <2>1. t \in Awake /\ handler_shutdown' = handler_shutdown
    BY <1>4 DEF Wake, Awake
  <2>2. LoopHead(t, handlerList, executing, reschedule)
    BY <1>4 DEF Wake
  <2>3. CASE handler_shutdown
    <3>1. pc' = [pc EXCEPT ![t] = "done"]
      BY <2>2, <2>3 DEF LoopHead
    <3>2. Waiting' = {}
      BY <2>3, <3>1 DEF Waiting, WokenForShutdown, TypeOK
    <3> QED BY <3>2 DEF WokenForShutdown, NoMissedWakeup
  <2>4. CASE ~handler_shutdown /\ handlerList = <<>>
    <3>1. handlerList' = <<>>
      BY <2>2, <2>4 DEF LoopHead
    <3>2. Len(handlerList') = 0
      BY <3>1
    <3> QED BY <1>f, <2>1, <2>4, <3>2 DEF WokenForShutdown, NoMissedWakeup
  <2>5. CASE ~handler_shutdown /\ handlerList # <<>>
    <3>1. pc' = [pc EXCEPT ![t] = "pop"] /\ handlerList' = Tail(handlerList)
      BY <2>2, <2>5 DEF LoopHead
    <3>2. Len(handlerList') = Len(handlerList) - 1
      BY <1>t, <2>5, <3>1
    <3>3. Waiting' = Waiting /\ Awake' = Awake \ {t}
      BY <2>1, <3>1 DEF Waiting, Awake, TypeOK
    <3>4. Cardinality(Awake') = Cardinality(Awake) - 1
      BY <1>l, <2>1, <3>3
    <3> QED BY <1>f, <1>t, <2>1, <2>5, <3>2, <3>3, <3>4 DEF WokenForShutdown, NoMissedWakeup
  <2> QED BY <2>3, <2>4, <2>5
<1>5. ASSUME NEW t \in Threads, SpuriousWakeup(t)
      PROVE  WokenForShutdown' /\ NoMissedWakeup'
  <2>1. /\ Awake' = Awake \cup {t} /\ t \notin Awake /\ t \in Waiting
        /\ UNCHANGED <<handlerList, handler_shutdown>>
    BY <1>5 DEF SpuriousWakeup, listVars, Awake, Waiting, TypeOK
  <2>2. Cardinality(Awake') = Cardinality(Awake) + 1
    BY <1>m, <2>1
  <2>3. Len(handlerList) <= Cardinality(Awake) /\ ~handler_shutdown
    BY <2>1 DEF NoMissedWakeup, WokenForShutdown
  <2> QED BY <1>f, <1>t, <2>1, <2>2, <2>3 DEF WokenForShutdown, NoMissedWakeup
<1>6. ASSUME NEW t \in Threads, PopCommand(t) \/ HandleCommand(t) \/ FlushCommands(t)
      PROVE  WokenForShutdown' /\ NoMissedWakeup'
  <2>1. /\ UNCHANGED <<handlerList, handler_shutdown>>
        /\ pc[t] \in Busy
        /\ \E l \in Busy : pc' = [pc EXCEPT ![t] = l]
    BY <1>6 DEF PopCommand, HandleCommand, FlushCommands, listVars, Busy
  <2> QED BY <1>q, <2>1 DEF Waiting, Awake, Busy, TypeOK
<1>7. ASSUME NEW t \in Threads, FinishHandling(t)
      PROVE  WokenForShutdown' /\ NoMissedWakeup'
  <2> DEFINE h == executor[t]
             q == IF RunAgain(t) THEN Append(handlerList, h) ELSE handlerList
             ex == [executing EXCEPT ![h] = FALSE]
             rs == [reschedule EXCEPT ![h] = FALSE]
  <2>1. /\ pc[t] = "finish" /\ h \in Handlers /\ handler_shutdown' = handler_shutdown
        /\ LoopHead(t, q, ex, rs)
    BY <1>7 DEF FinishHandling, TypeOK, Busy
  <2>2. q \in Seq(Handlers) /\ Len(q) <= Len(handlerList) + 1
    BY <1>t, <2>1
  <2> HIDE DEF q, ex, rs
  <2>3. CASE handler_shutdown
    <3>1. pc' = [pc EXCEPT ![t] = "done"]
      BY <2>1, <2>3 DEF LoopHead
    <3>2. Waiting' = {}
      BY <2>3, <3>1 DEF Waiting, WokenForShutdown, TypeOK
    <3> QED BY <3>2 DEF WokenForShutdown, NoMissedWakeup
  <2>4. CASE ~handler_shutdown /\ q = <<>>
    <3>1. handlerList' = <<>>
      BY <2>1, <2>4 DEF LoopHead
    <3>2. Len(handlerList') = 0
      BY <3>1
    <3> QED BY <1>f, <2>1, <2>4, <3>2 DEF WokenForShutdown, NoMissedWakeup
  <2>5. CASE ~handler_shutdown /\ q # <<>>
    <3>1. pc' = [pc EXCEPT ![t] = "pop"] /\ handlerList' = Tail(q)
      BY <2>1, <2>5 DEF LoopHead
    <3>2. Len(handlerList') <= Len(handlerList) /\ Len(handlerList') \in Nat
      BY <1>t, <2>2, <2>5, <3>1
    <3>3. Waiting' = Waiting /\ Awake' = Awake
      BY <2>1, <3>1 DEF Waiting, Awake, TypeOK
    <3> QED BY <1>f, <1>t, <2>1, <2>5, <3>2, <3>3 DEF WokenForShutdown, NoMissedWakeup
  <2> QED BY <2>3, <2>4, <2>5
<1>8. CASE Shutdown
  <2>1. Waiting' = {}
    BY <1>8 DEF Shutdown, NotifyAll, Waiting
  <2> QED BY <2>1 DEF WokenForShutdown, NoMissedWakeup
<1>9. CASE UNCHANGED vars
  BY <1>9, <1>q DEF vars, listVars, threadVars, Waiting, Awake
<1> QED
  BY <1>1, <1>2, <1>3, <1>4, <1>5, <1>6, <1>7, <1>8, <1>9 DEF Next, ThreadStep

\* While a thread sleeps in handler_notify.wait, every listed handler has a woken
\* thread on the way to it.
THEOREM NoLostWakeup == Spec => []NoMissedWakeup
<1>1. Init => WokenForShutdown /\ NoMissedWakeup
  BY DEF Init, WokenForShutdown, NoMissedWakeup, Waiting
<1> QED BY <1>1, WakeupStep, TypeCorrect, PTL DEF Spec
-----------------------------------------------------------------------------
(***************************************************************************)
(* Refinement: the executor implements SerialCommands                      *)
(***************************************************************************)
\* A thread with a command of handler h in its hands, for a table p of the
\* threads' places and a table e of their handlers.
Runs(p, e, t, h) == e[t] = h /\ p[t] \in {"handle", "flush"}

\* The refinement mapping for such tables: Running(h) is RunOf(pc, executor,
\* command, h).
RunOf(p, e, c, h) == IF \E t \in Threads : Runs(p, e, t, h)
                     THEN c[CHOOSE t \in Threads : Runs(p, e, t, h)]
                     ELSE NoCommand

\* At most one thread runs a command of a client.
OneRuns(p, e) == \A s, t \in Threads : \A h \in Handlers :
                   Runs(p, e, s, h) /\ Runs(p, e, t, h) => s = t

\* The CHOOSE of the mapping picks the one thread there is.
LEMMA RunOfThread ==
  ASSUME NEW p, NEW e, NEW c, OneRuns(p, e), NEW h \in Handlers
  PROVE  /\ \A t \in Threads : Runs(p, e, t, h) => RunOf(p, e, c, h) = c[t]
         /\ (\A t \in Threads : ~Runs(p, e, t, h)) => RunOf(p, e, c, h) = NoCommand
<1>1. ASSUME NEW t \in Threads, Runs(p, e, t, h) PROVE RunOf(p, e, c, h) = c[t]
  <2>1. (CHOOSE s \in Threads : Runs(p, e, s, h)) = t
    BY <1>1 DEF OneRuns
  <2> QED BY <1>1, <2>1 DEF RunOf
<1>2. ASSUME \A t \in Threads : ~Runs(p, e, t, h) PROVE RunOf(p, e, c, h) = NoCommand
  BY <1>2 DEF RunOf
<1> QED BY <1>1, <1>2

\* Running is the mapping for the current tables, before and after a step.
LEMMA RunningIsRunOf ==
  \A h \in Handlers : /\ Running(h) = RunOf(pc, executor, command, h)
                      /\ Running(h)' = RunOf(pc', executor', command', h)
  BY DEF Running, RunOf, Runs

\* Mutual exclusion in the form the mapping needs.
LEMMA CoherentOneRuns ==
  TypeOK /\ ListCoherent => OneRuns(pc, executor)
  BY DEF TypeOK, ListCoherent, Core, OneRuns, Runs, BusyThreads, Busy

\* A client whose running threads keep their command keeps what it runs.
LEMMA SameRun ==
  ASSUME OneRuns(pc, executor), OneRuns(pc, executor)', NEW h \in Handlers,
         \A t \in Threads : Runs(pc', executor', t, h) <=> Runs(pc, executor, t, h),
         \A t \in Threads : Runs(pc, executor, t, h) => command'[t] = command[t]
  PROVE  Running(h)' = Running(h)
<1>1. CASE \E t \in Threads : Runs(pc, executor, t, h)
  <2>1. PICK t \in Threads : Runs(pc, executor, t, h)
    BY <1>1
  <2>2. Runs(pc', executor', t, h) /\ command'[t] = command[t]
    BY <2>1
  <2>3. Running(h) = command[t] /\ Running(h)' = command'[t]
    BY <2>1, <2>2, RunOfThread, RunningIsRunOf DEF OneRuns
  <2> QED BY <2>2, <2>3
<1>2. CASE \A t \in Threads : ~Runs(pc, executor, t, h)
  <2>1. Running(h) = NoCommand /\ Running(h)' = NoCommand
    BY <1>2, RunOfThread, RunningIsRunOf DEF OneRuns
  <2> QED BY <2>1
<1> QED BY <1>1, <1>2

\* A step that leaves the queues and the running commands alone is a stutter of
\* SerialCommands.
LEMMA StutterStep ==
  ASSUME UNCHANGED <<pending, accepted>>, \A h \in Handlers : Running(h)' = Running(h)
  PROVE  UNCHANGED Serial!vars
<1>1. [h \in Handlers |-> Running(h)]' = [h \in Handlers |-> Running(h)]
  OBVIOUS
<1> QED BY <1>1 DEF Serial!vars

\* Every step of the executor is one step of SerialCommands or none: a producer
\* accepts, pop_command starts, the return of handle_command completes, a flush
\* aborts; everything about lists, flags and sleep is invisible.
LEMMA SerialStep ==
  ASSUME TypeOK, ListCoherent, TypeOK', ListCoherent', [Next]_vars
  PROVE  [Serial!Next]_(Serial!vars)
<1>o. OneRuns(pc, executor)
  BY CoherentOneRuns
<1>p. OneRuns(pc, executor)'
  BY DEF TypeOK, ListCoherent, Core, OneRuns, Runs, BusyThreads, Busy
\* What a client runs, when thread t is the one that may change it.
<1>h. ASSUME NEW h \in Handlers, UNCHANGED <<pc, executor, command>>
      PROVE  Running(h)' = Running(h)
  BY <1>h DEF Running
<1>s. ASSUME NEW t \in Threads, NEW h \in Handlers,
             \A s \in Threads \ {t} : /\ pc'[s] = pc[s] /\ executor'[s] = executor[s]
                                      /\ command'[s] = command[s],
             ~Runs(pc, executor, t, h), ~Runs(pc', executor', t, h)
      PROVE  Running(h)' = Running(h)
  BY <1>s, <1>o, <1>p, SameRun DEF Runs
<1>1. ASSUME NEW p \in Producers, NEW h \in Handlers, EnqueueCommand(p, h)
      PROVE  Serial!Accept(h)
  <2>1. \A g \in Handlers : Running(g)' = Running(g)
    BY <1>1, <1>h DEF EnqueueCommand, threadVars
  <2>2. [g \in Handlers |-> Running(g)]' = [g \in Handlers |-> Running(g)]
    BY <2>1
  <2> QED BY <1>1, <2>2 DEF EnqueueCommand, Serial!Accept
<1>2. ASSUME NEW p \in Producers, EnqueueHandler(p) PROVE UNCHANGED Serial!vars
  <2>1. /\ UNCHANGED <<pending, accepted, executor, command>>
        /\ \A t \in Threads : pc'[t] = pc[t] \/ (pc[t] = "waiting" /\ pc'[t] = "notified")
    BY <1>2 DEF EnqueueHandler, NotifyOne, Waiting, queueVars, TypeOK
  <2>2. \A h \in Handlers : Running(h)' = Running(h)
    BY <1>o, <1>p, <2>1, SameRun DEF Runs
  <2> QED BY <2>1, <2>2, StutterStep
<1>3. ASSUME NEW h \in Handlers, Reset(h) PROVE Serial!Flush(h)
  <2>1. \A g \in Handlers : Running(g)' = Running(g)
    BY <1>3, <1>h DEF Reset, threadVars
  <2>2. [g \in Handlers |-> Running(g)]' = [g \in Handlers |-> Running(g)]
    BY <2>1
  <2> QED BY <1>3, <2>2 DEF Reset, ResetQueue, Serial!Flush
<1>4. ASSUME NEW h \in Handlers, Disconnect(h) PROVE UNCHANGED Serial!vars
  <2>1. \A g \in Handlers : Running(g)' = Running(g)
    BY <1>4, <1>h DEF Disconnect, threadVars
  <2> QED BY <1>4, <2>1, StutterStep DEF Disconnect, queueVars
\* The head of the loop is reached by a thread without a command, and left so.
<1>5. ASSUME NEW t \in Threads, Wake(t) \/ FinishHandling(t) PROVE UNCHANGED Serial!vars
  <2>1. /\ UNCHANGED <<pending, accepted, command>>
        /\ pc[t] \notin {"handle", "flush"}
    BY <1>5 DEF Wake, FinishHandling, queueVars
  <2>2. PICK q, ex, rs : LoopHead(t, q, ex, rs)
    BY <1>5 DEF Wake, FinishHandling
  <2>3. /\ pc'[t] \notin {"handle", "flush"}
        /\ \A s \in Threads \ {t} : pc'[s] = pc[s] /\ executor'[s] = executor[s]
    BY <2>2 DEF LoopHead, TypeOK
  <2>4. \A h \in Handlers : Running(h)' = Running(h)
    BY <1>s, <2>1, <2>3 DEF Runs
  <2> QED BY <2>1, <2>4, StutterStep
<1>6. ASSUME NEW t \in Threads, SpuriousWakeup(t) PROVE UNCHANGED Serial!vars
  <2>1. /\ UNCHANGED <<pending, accepted, executor, command>>
        /\ \A s \in Threads : pc'[s] = pc[s] \/ (pc[s] = "waiting" /\ pc'[s] = "notified")
    BY <1>6 DEF SpuriousWakeup, queueVars, TypeOK
  <2>2. \A h \in Handlers : Running(h)' = Running(h)
    BY <1>o, <1>p, <2>1, SameRun DEF Runs
  <2> QED BY <2>1, <2>2, StutterStep
<1>7. CASE Shutdown
  <2>1. /\ UNCHANGED <<pending, accepted, executor, command>>
        /\ \A s \in Threads : pc'[s] = pc[s] \/ (pc[s] = "waiting" /\ pc'[s] = "notified")
    BY <1>7 DEF Shutdown, NotifyAll, queueVars, TypeOK
  <2>2. \A h \in Handlers : Running(h)' = Running(h)
    BY <1>o, <1>p, <2>1, SameRun DEF Runs
  <2> QED BY <2>1, <2>2, StutterStep
\* The other steps are those of thread t at handler h, its executor.
<1>8. ASSUME NEW t \in Threads, NEW h \in Handlers, executor[t] = h, pc[t] \in Busy,
             executor' = executor,
             \A s \in Threads \ {t} : pc'[s] = pc[s] /\ command'[s] = command[s]
      PROVE  /\ \A g \in Handlers : g # h => Running(g)' = Running(g)
             /\ Running(h) = IF pc[t] \in {"handle", "flush"}
                             THEN command[t] ELSE NoCommand
             /\ pc'[t] \in Busy =>
                  Running(h)' = IF pc'[t] \in {"handle", "flush"}
                                THEN command'[t] ELSE NoCommand
  <2>2. ASSUME NEW g \in Handlers, g # h PROVE Running(g)' = Running(g)
    BY <1>s, <1>8, <2>2 DEF Runs
  <2>3. \A s \in Threads : Runs(pc, executor, s, h) <=> s = t /\ pc[t] \in {"handle", "flush"}
    BY <1>8 DEF Runs, ListCoherent, Core, BusyThreads, Busy
  <2>4. Running(h) = IF pc[t] \in {"handle", "flush"} THEN command[t] ELSE NoCommand
    BY <1>o, <2>3, RunOfThread, RunningIsRunOf
  <2>5. ASSUME pc'[t] \in Busy
        PROVE  Running(h)' = IF pc'[t] \in {"handle", "flush"} THEN command'[t] ELSE NoCommand
    <3>1. \A s \in Threads : Runs(pc', executor', s, h) <=> s = t /\ pc'[t] \in {"handle", "flush"}
      BY <1>8, <2>5 DEF Runs, ListCoherent, Core, BusyThreads, Busy
    <3>2. OneRuns(pc', executor')
      BY <1>p DEF OneRuns, Runs
    <3>3. Running(h)' = RunOf(pc', executor', command', h)
      BY RunningIsRunOf
    <3>4. CASE pc'[t] \in {"handle", "flush"}
      <4>1. RunOf(pc', executor', command', h) = command'[t]
        BY <3>1, <3>2, <3>4, RunOfThread
      <4> QED BY <3>3, <3>4, <4>1
    <3>5. CASE pc'[t] \notin {"handle", "flush"}
      <4>1. RunOf(pc', executor', command', h) = NoCommand
        BY <3>1, <3>2, <3>5, RunOfThread
      <4> QED BY <3>3, <3>5, <4>1
    <3> QED BY <3>4, <3>5
  <2> QED BY <2>2, <2>4, <2>5
<1>9. ASSUME NEW t \in Threads, PopCommand(t) PROVE [Serial!Next]_(Serial!vars)
  <2>0. PICK h \in Handlers : h = executor[t]
    BY <1>9 DEF PopCommand, TypeOK, Busy
  <2>1. /\ pc[t] = "pop" /\ executor' = executor
        /\ \A s \in Threads \ {t} : pc'[s] = pc[s] /\ command'[s] = command[s]
    BY <1>9, <2>0 DEF PopCommand, TypeOK
  <2>2. CASE pending[h] = <<>>
    <3>1. /\ pc'[t] = "finish" /\ UNCHANGED <<pending, accepted>>
      BY <1>9, <2>0, <2>2 DEF PopCommand, TypeOK
    <3>2. \A g \in Handlers : Running(g)' = Running(g)
      BY <1>8, <2>0, <2>1, <3>1 DEF Busy
    <3> QED BY <3>1, <3>2, StutterStep
  <2>3. CASE pending[h] # <<>>
    <3>1. /\ pc'[t] = "handle" /\ command'[t] = Head(pending[h])
          /\ pending' = [pending EXCEPT ![h] = Tail(@)] /\ accepted' = accepted
      BY <1>9, <2>0, <2>3 DEF PopCommand, TypeOK
    <3>2. /\ Running(h) = NoCommand /\ Running(h)' = Head(pending[h])
          /\ \A g \in Handlers : g # h => Running(g)' = Running(g)
      BY <1>8, <2>0, <2>1, <3>1 DEF Busy
    <3>3. [g \in Handlers |-> Running(g)]' =
            [[g \in Handlers |-> Running(g)] EXCEPT ![h] = Head(pending[h])]
      BY <3>2
    <3>4. Serial!Start(h)
      BY <2>3, <3>1, <3>2, <3>3 DEF Serial!Start
    <3> QED BY <3>4 DEF Serial!Next
  <2> QED BY <2>2, <2>3
<1>10. ASSUME NEW t \in Threads, HandleCommand(t) PROVE [Serial!Next]_(Serial!vars)
  <2>0. PICK h \in Handlers : h = executor[t]
    BY <1>10 DEF HandleCommand, TypeOK, Busy
  <2>1. /\ pc[t] = "handle" /\ executor' = executor /\ UNCHANGED <<pending, accepted>>
        /\ \A s \in Threads \ {t} : pc'[s] = pc[s] /\ command'[s] = command[s]
    BY <1>10 DEF HandleCommand, queueVars, TypeOK
  <2>2. CASE disconnecting[h]
    <3>1. pc'[t] = "flush" /\ command' = command
      BY <1>10, <2>0, <2>2 DEF HandleCommand, TypeOK
    <3>2. \A g \in Handlers : Running(g)' = Running(g)
      BY <1>8, <2>0, <2>1, <3>1 DEF Busy
    <3> QED BY <2>1, <3>2, StutterStep
  <2>3. CASE ~disconnecting[h]
    <3>1. pc'[t] = "finish"
      BY <1>10, <2>0, <2>3 DEF HandleCommand, TypeOK
    <3>2. /\ Running(h) = command[t] /\ Running(h)' = NoCommand
          /\ \A g \in Handlers : g # h => Running(g)' = Running(g)
      BY <1>8, <2>0, <2>1, <3>1 DEF Busy
    <3>3. [g \in Handlers |-> Running(g)]' =
            [[g \in Handlers |-> Running(g)] EXCEPT ![h] = NoCommand]
      BY <3>2
    <3>4. Running(h) # NoCommand
      BY <2>1, <3>2, NullAssumption DEF TypeOK
    <3>5. Serial!Complete(h)
      BY <2>1, <3>2, <3>3, <3>4 DEF Serial!Complete
    <3> QED BY <3>5 DEF Serial!Next
  <2> QED BY <2>2, <2>3
<1>11. ASSUME NEW t \in Threads, FlushCommands(t) PROVE [Serial!Next]_(Serial!vars)
  <2>0. PICK h \in Handlers : h = executor[t]
    BY <1>11 DEF FlushCommands, TypeOK, Busy
  <2>1. /\ pc[t] = "flush" /\ pc'[t] = "finish" /\ executor' = executor
        /\ pending' = [pending EXCEPT ![h] = <<>>] /\ accepted' = accepted
        /\ \A s \in Threads \ {t} : pc'[s] = pc[s] /\ command'[s] = command[s]
    BY <1>11, <2>0 DEF FlushCommands, ResetQueue, TypeOK
  <2>2. /\ Running(h) = command[t] /\ Running(h)' = NoCommand
        /\ \A g \in Handlers : g # h => Running(g)' = Running(g)
    BY <1>8, <2>0, <2>1 DEF Busy
  <2>3. [g \in Handlers |-> Running(g)]' =
          [[g \in Handlers |-> Running(g)] EXCEPT ![h] = NoCommand]
    BY <2>2
  <2>4. Running(h) # NoCommand
    BY <2>1, <2>2, NullAssumption DEF TypeOK
  <2>5. Serial!Abort(h)
    BY <2>1, <2>2, <2>3, <2>4 DEF Serial!Abort
  <2> QED BY <2>5 DEF Serial!Next
<1>12. CASE UNCHANGED vars
  <2>1. UNCHANGED <<pending, accepted, pc, executor, command>>
    BY <1>12 DEF vars, queueVars, threadVars
  <2>2. \A h \in Handlers : Running(h)' = Running(h)
    BY <1>h, <2>1
  <2> QED BY <2>1, <2>2, StutterStep
<1> QED
  BY <1>1, <1>2, <1>3, <1>4, <1>5, <1>6, <1>7, <1>9, <1>10, <1>11, <1>12
     DEF Next, ThreadStep, Serial!Next

\* The executor implements SerialCommands: the commands of one client run one at
\* a time, in the order in which they entered the queue, none twice, and are
\* dropped only by a whole flush, for any number of clients and threads.
THEOREM ExecutorIsSerial == Spec => SerialExecution
<1>1. Init => Serial!Init
  <2> SUFFICES ASSUME Init PROVE Serial!Init
    OBVIOUS
  <2>1. \A h \in Handlers : Running(h) = NoCommand
    BY DEF Init, Running
  <2> QED BY <2>1 DEF Init, Serial!Init
<1>2. (TypeOK /\ ListCoherent) /\ (TypeOK /\ ListCoherent)' /\ [Next]_vars
        => [Serial!Next]_(Serial!vars)
  BY SerialStep
<1>3. Spec => [](TypeOK /\ ListCoherent)
  BY CoherentInit, CoherentStep, TypeCorrect, PTL DEF Spec
<1> QED BY <1>1, <1>2, <1>3, PTL DEF Spec, SerialExecution, Serial!Spec
=============================================================================
