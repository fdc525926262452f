------------------------- MODULE MultiShotTaskProofs -------------------------
(***************************************************************************)
(* multi_shot_task keeps its promise for any numbers of requesting and     *)
(* executing threads: whoever begins the callback finds the task           *)
(* scheduled, and the callback never runs twice at a time.                 *)
(***************************************************************************)
EXTENDS MultiShotTask, TLAPS

Threads == Callers \cup Runners

\* Threads that hold the one scheduled or running call.
Holds(t) == pc[t] \in {"schedule", "failed", "wrapper", "callback"}

\* There is one call at most: it is held by one thread or waits in the queue.
OneHolder == /\ \A s, t \in Threads : Holds(s) /\ Holds(t) => s = t
             /\ queue = 1 => \A t \in Threads : ~Holds(t)

\* schedule_kind tells whether there is a call, and whether it is running.
KindMatches ==
  /\ schedule_kind # 3
  /\ queue = 1 => schedule_kind = 1
  /\ \A t \in Threads : /\ pc[t] = "callback" => schedule_kind = 2
                        /\ Holds(t) /\ pc[t] # "callback" => schedule_kind = 1

TaskInvariant == TypeOK /\ OneHolder /\ KindMatches

\* Initially nothing is scheduled.
LEMMA TaskInit ==
  ASSUME TaskAssumption
  PROVE  Init => TaskInvariant
<1> SUFFICES ASSUME Init PROVE TaskInvariant
  OBVIOUS
<1>1. /\ schedule_kind = 0 /\ queue = 0 /\ closed = FALSE /\ late = FALSE
      /\ version = 0 /\ published = 0
      /\ pc = [t \in Callers \cup Runners |-> "idle"]
  BY DEF Init
<1>b. closed \in BOOLEAN /\ late \in BOOLEAN
  BY DEF Init
<1>2. TypeOK
  <2>1. schedule_kind \in 0..3 /\ queue \in 0..1
    BY <1>1
  <2>2. version \in 0..MaxRequests /\ published \in 0..version
    BY <1>1 DEF TaskAssumption
  <2>3. pc \in [Callers \cup Runners ->
               {"idle", "cas", "schedule", "failed", "wrapper", "callback"}]
    BY <1>1
  <2> QED BY <1>b, <2>1, <2>2, <2>3 DEF TypeOK
<1>3. OneHolder /\ KindMatches
  BY <1>1 DEF OneHolder, KindMatches, Holds, Threads
<1> QED BY <1>2, <1>3 DEF TaskInvariant

\* Every step of a caller, a runner or the executor preserves the invariant.
LEMMA TaskStep ==
  ASSUME TaskAssumption
  PROVE  TaskInvariant /\ [Next]_vars => TaskInvariant'
<1> SUFFICES ASSUME TaskInvariant, [Next]_vars PROVE TaskInvariant'
  OBVIOUS
<1> USE DEF TaskAssumption, TaskInvariant, TypeOK, OneHolder, KindMatches, Holds,
        Threads, Goto
<1>1. ASSUME NEW c \in Callers, Request(c) PROVE TaskInvariant'
  BY <1>1 DEF Request, Switch
<1>2. ASSUME NEW c \in Callers, CompareAndSwap(c) PROVE TaskInvariant'
  <2>1. CASE schedule_kind = 0
    <3>1. /\ schedule_kind' = 1 /\ pc' = [pc EXCEPT ![c] = "schedule"]
          /\ UNCHANGED <<queue, closed, version, published, late>>
      BY <1>2, <2>1 DEF CompareAndSwap, SwapSucceeds
    <3>2. queue = 0 /\ \A t \in Threads : ~Holds(t)
      BY <2>1
    <3> QED BY <3>1, <3>2
  <2>2. CASE schedule_kind # 0
    BY <1>2, <2>2 DEF CompareAndSwap, SwapSucceeds, Switch
  <2> QED BY <2>1, <2>2
<1>3. ASSUME NEW t \in Threads, Schedule(t) PROVE TaskInvariant'
  BY <1>3 DEF Schedule
<1>4. ASSUME NEW t \in Threads, ScheduleFailed(t) PROVE TaskInvariant'
  <2>1. queue = 0 /\ \A s \in Threads : s # t => ~Holds(s)
    BY <1>4 DEF ScheduleFailed
  <2> QED BY <1>4, <2>1 DEF ScheduleFailed
<1>5. ASSUME NEW r \in Runners, Take(r) PROVE TaskInvariant'
  BY <1>5 DEF Take
<1>6. ASSUME NEW r \in Runners, Start(r) PROVE TaskInvariant'
  <2>1. queue = 0 /\ \A s \in Threads : s # r => ~Holds(s)
    BY <1>6 DEF Start
  <2>2. closed' \in BOOLEAN /\ late' \in BOOLEAN
    BY <1>6 DEF Start
  <2>3. /\ schedule_kind' = 2 /\ queue' = queue /\ version' = version
        /\ published' = version /\ pc' = [pc EXCEPT ![r] = "callback"]
    BY <1>6 DEF Start
  <2>4. TypeOK'
    BY <2>2, <2>3
  <2>5. OneHolder' /\ KindMatches'
    BY <2>1, <2>3
  <2> QED BY <2>4, <2>5
<1>7. ASSUME NEW r \in Runners, Finish(r) PROVE TaskInvariant'
  <2>1. queue = 0 /\ \A s \in Threads : s # r => ~Holds(s)
    BY <1>7 DEF Finish
  <2>2. schedule_kind' = 0 /\ pc' = [pc EXCEPT ![r] = "idle"]
    BY <1>7 DEF Finish, Finished
  <2> QED BY <1>7, <2>1, <2>2 DEF Finish
<1>8. CASE Shutdown
  BY <1>8 DEF Shutdown
<1>9. CASE UNCHANGED vars
  BY <1>9 DEF vars
<1> QED BY <1>1, <1>2, <1>3, <1>4, <1>5, <1>6, <1>7, <1>8, <1>9 DEF Next

\* The invariant implies the assertion in callback_wrapper.
LEMMA TaskInvariantImplies == TaskInvariant => FoundScheduled
  BY DEF TaskInvariant, OneHolder, KindMatches, Holds, Threads, FoundScheduled

\* Of any number of requests and executor threads, the thread that begins the
\* callback finds the task scheduled, and no two run it at once.
THEOREM NeverTwice ==
  ASSUME TaskAssumption
  PROVE  Spec => []FoundScheduled
<1>1. Init => TaskInvariant
  BY TaskInit
<1>2. TaskInvariant /\ [Next]_vars => TaskInvariant'
  BY TaskStep
<1>3. TaskInvariant => FoundScheduled
  BY TaskInvariantImplies
<1> QED BY <1>1, <1>2, <1>3, PTL DEF Spec

\* schedule_kind and the queue of the executor keep their ranges: at most one
\* call is ever scheduled.
THEOREM TaskTypeCorrect ==
  ASSUME TaskAssumption
  PROVE  Spec => []TypeOK
<1>1. Init => TaskInvariant
  BY TaskInit
<1>2. TaskInvariant /\ [Next]_vars => TaskInvariant'
  BY TaskStep
<1>3. TaskInvariant => TypeOK
  BY DEF TaskInvariant
<1> QED BY <1>1, <1>2, <1>3, PTL DEF Spec
-----------------------------------------------------------------------------
\* A thread that has yet to bring about a call of the callback.
Brings(t) == pc[t] \in {"cas", "schedule", "failed", "wrapper"}

\* A task that claims to be scheduled has a call in the queue or in the hands of
\* a thread, and only a closed executor refuses a call.
CallExists ==
  /\ schedule_kind = 1 => \/ queue = 1
                          \/ \E t \in Threads : Brings(t) /\ pc[t] # "cas"
  /\ \A t \in Threads : pc[t] = "failed" => closed

\* A change that is not published is still going to be, or late or refused.
Underway == \/ published = version \/ closed \/ late \/ queue = 1
            \/ \E t \in Threads : Brings(t)

\* Every step keeps unpublished changes underway: a request that returns at once
\* has met a scheduled call (which begins later) or an execution (late).
LEMMA UnderwayStep ==
  ASSUME TaskAssumption
  PROVE  TaskInvariant /\ CallExists /\ Underway /\ [Next]_vars
           => CallExists' /\ Underway'
<1> SUFFICES ASSUME TaskInvariant, CallExists, Underway, [Next]_vars
             PROVE  CallExists' /\ Underway'
  OBVIOUS
<1> USE DEF TaskAssumption, TaskInvariant, TypeOK, KindMatches, CallExists, Underway,
        Brings, Threads, Goto
<1>1. ASSUME NEW c \in Callers, Request(c) PROVE CallExists' /\ Underway'
  <2>1. CASE schedule_kind = 0
    <3>1. pc'[c] = "cas" /\ schedule_kind' = 0
      BY <1>1, <2>1 DEF Request, Switch
    <3>2. \A t \in Threads : pc'[t] = "failed" => closed'
      BY <1>1, <2>1 DEF Request, Switch
    <3> QED BY <3>1, <3>2
  <2>2. CASE schedule_kind = 1
    <3>1. /\ \A t \in Threads : pc'[t] = pc[t] \/ (t = c /\ pc[t] = "idle" /\ pc'[t] = "idle")
          /\ UNCHANGED <<schedule_kind, queue, closed>>
      BY <1>1, <2>2 DEF Request, Switch
    <3> QED BY <2>2, <3>1
  <2>3. CASE schedule_kind = 2
    <3>1. late' = TRUE /\ schedule_kind' = 2
      BY <1>1, <2>3 DEF Request
    <3>2. \A t \in Threads : pc'[t] = "failed" => closed'
      BY <1>1, <2>3 DEF Request, Switch
    <3> QED BY <3>1, <3>2
  <2> QED BY <2>1, <2>2, <2>3
<1>2. ASSUME NEW c \in Callers, CompareAndSwap(c) PROVE CallExists' /\ Underway'
  <2>1. CASE schedule_kind = 0
    <3>1. pc'[c] = "schedule"
      BY <1>2, <2>1 DEF CompareAndSwap, SwapSucceeds
    <3>2. \A t \in Threads : pc'[t] = "failed" => closed'
      BY <1>2, <2>1 DEF CompareAndSwap, SwapSucceeds
    <3> QED BY <3>1, <3>2
  <2>2. CASE schedule_kind = 1
    <3>1. /\ \A t \in Threads : t # c => pc'[t] = pc[t]
          /\ pc[c] = "cas" /\ pc'[c] = "idle"
          /\ UNCHANGED <<schedule_kind, queue, closed>>
      BY <1>2, <2>2 DEF CompareAndSwap, SwapSucceeds, Switch
    <3> QED BY <2>2, <3>1
  <2>3. CASE schedule_kind = 2
    <3>0. schedule_kind' = schedule_kind /\ late' = (late \/ schedule_kind = 2)
      BY <1>2, <2>3 DEF CompareAndSwap, SwapSucceeds
    <3>1. late' = TRUE /\ schedule_kind' = 2
      BY <2>3, <3>0
    <3>2. \A t \in Threads : pc'[t] = "failed" => closed'
      BY <1>2, <2>3 DEF CompareAndSwap, SwapSucceeds, Switch
    <3> QED BY <3>1, <3>2
  <2> QED BY <2>1, <2>2, <2>3
<1>3. ASSUME NEW t \in Threads, Schedule(t) PROVE CallExists' /\ Underway'
  <2>1. CASE closed
    <3>1. pc'[t] = "failed" /\ closed' = TRUE
      BY <1>3, <2>1 DEF Schedule
    <3> QED BY <3>1
  <2>2. CASE ~closed
    <3>1. queue = 0
      BY <1>3 DEF Schedule, OneHolder, Holds
    <3>2. queue' = 1
      BY <1>3, <2>2, <3>1 DEF Schedule
    <3>3. \A s \in Threads : pc'[s] = "failed" => closed'
      BY <1>3, <2>2 DEF Schedule
    <3> QED BY <3>2, <3>3
  <2> QED BY <2>1, <2>2
<1>4. ASSUME NEW t \in Threads, ScheduleFailed(t) PROVE CallExists' /\ Underway'
  BY <1>4 DEF ScheduleFailed
<1>5. ASSUME NEW r \in Runners, Take(r) PROVE CallExists' /\ Underway'
  BY <1>5 DEF Take
<1>6. ASSUME NEW r \in Runners, Start(r) PROVE CallExists' /\ Underway'
  BY <1>6 DEF Start
<1>7. ASSUME NEW r \in Runners, Finish(r) PROVE CallExists' /\ Underway'
  BY <1>7 DEF Finish, Finished
<1>8. CASE Shutdown
  BY <1>8 DEF Shutdown
<1>9. CASE UNCHANGED vars
  BY <1>9 DEF vars
<1> QED BY <1>1, <1>2, <1>3, <1>4, <1>5, <1>6, <1>7, <1>8, <1>9 DEF Next

\* When everything has come to rest the latest change was published, unless the
\* executor was shut down or the request met an execution in progress: enqueue
\* loses a request in no other case.
THEOREM NothingElseIsLost ==
  ASSUME TaskAssumption
  PROVE  Spec => []PublishedUnlessLate
<1>1. Init => TaskInvariant /\ CallExists /\ Underway
  BY TaskInit DEF Init, CallExists, Underway, Brings, Threads
<1>2. TaskInvariant /\ [Next]_vars => TaskInvariant'
  BY TaskStep
<1>3. CallExists /\ Underway => PublishedUnlessLate
  BY DEF CallExists, Underway, Brings, Threads, PublishedUnlessLate, Quiet
<1> QED BY <1>1, <1>2, <1>3, UnderwayStep, PTL DEF Spec
=============================================================================
