---------------------------- MODULE MultiShotTask ----------------------------
(***************************************************************************)
(* multi_shot_task (misc/task_executor.h): a task that may be requested    *)
(* from any thread at any time, is scheduled at most once, and never runs  *)
(* twice at a time.  schedule_kind is its only shared state, changed by    *)
(* compare-and-swap loops; the task executor is modelled by what           *)
(* multi_shot_task uses of it: a queue of scheduled calls that rejects new *)
(* ones after shutdown, and threads that take calls until then.            *)
(*                                                                         *)
(* A request follows a change of the data the task publishes; `version`    *)
(* counts these changes and `published` is the version that the latest     *)
(* execution started with.                                                 *)
(***************************************************************************)
EXTENDS Integers, FiniteSets

CONSTANTS Callers, Runners,   \* threads that request, threads that execute
          MaxRequests         \* bound on the number of requests

\* What the theorems assume of the constants.
TaskAssumption == MaxRequests \in Nat /\ Callers \cap Runners = {}

VARIABLES schedule_kind,   \* 0 not scheduled, 1 scheduled, 2 executing,
                           \* 3 executing with reschedule
          queue,           \* number of scheduled calls in the executor
          closed,          \* the executor was shut down
          pc,              \* per thread
          version, published,
          late             \* history: a request since the latest start found
                           \* the task executing

vars == <<schedule_kind, queue, closed, pc, version, published, late>>

Init == /\ schedule_kind = 0
        /\ queue = 0
        /\ closed = FALSE
        /\ pc = [t \in Callers \cup Runners |-> "idle"]
        /\ version = 0 /\ published = 0
        /\ late = FALSE

Goto(t, l) == pc' = [pc EXCEPT ![t] = l]

\* enqueue's switch: only state 0 goes on to the compare-and-swap; in state 2
\* the function returns before it could store 3.
Switch(kind) == IF kind = 0 THEN "cas" ELSE "idle"

\* The data changes, enqueue() is called and loads the state.
Request(c) ==
  /\ pc[c] = "idle" /\ version < MaxRequests
  /\ version' = version + 1
  /\ late' = (late \/ schedule_kind = 2)
  /\ Goto(c, Switch(schedule_kind))
  /\ UNCHANGED <<schedule_kind, queue, closed, published>>

\* compare_exchange_weak(0, 1)
SwapSucceeds(kind) == kind = 0

CompareAndSwap(c) ==
  /\ pc[c] = "cas"
  /\ \/ /\ SwapSucceeds(schedule_kind)
        /\ schedule_kind' = 1
        /\ Goto(c, "schedule")
        /\ UNCHANGED late
     \/ /\ ~SwapSucceeds(schedule_kind)
        /\ late' = (late \/ schedule_kind = 2)
        /\ Goto(c, Switch(schedule_kind))
        /\ UNCHANGED schedule_kind
  /\ UNCHANGED <<queue, closed, version, published>>

\* task_executor::schedule
Schedule(t) ==
  /\ pc[t] = "schedule"
  /\ \/ ~closed /\ queue' = queue + 1 /\ Goto(t, "idle")
     \/ closed /\ Goto(t, "failed") /\ UNCHANGED queue
  /\ UNCHANGED <<schedule_kind, closed, version, published, late>>

\* "We failed to schedule it": schedule_kind = 0
ScheduleFailed(t) ==
  /\ pc[t] = "failed"
  /\ schedule_kind' = 0
  /\ Goto(t, "idle")
  /\ UNCHANGED <<queue, closed, version, published, late>>

\* An executor thread takes the call; callback_wrapper has not begun yet.
Take(r) ==
  /\ pc[r] = "idle" /\ ~closed /\ queue > 0
  /\ queue' = queue - 1
  /\ Goto(r, "wrapper")
  /\ UNCHANGED <<schedule_kind, closed, version, published, late>>

\* schedule_kind.exchange(2), and the callback begins.
Start(r) ==
  /\ pc[r] = "wrapper"
  /\ schedule_kind' = 2
  /\ published' = version
  /\ late' = FALSE
  /\ Goto(r, "callback")
  /\ UNCHANGED <<queue, closed, version>>

\* execute_finished: 2 becomes 0, 3 becomes 1
Finished(kind) == IF kind = 3 THEN 1 ELSE 0

\* The callback ends: execute_finished.
Finish(r) ==
  /\ pc[r] = "callback"
  /\ schedule_kind' = Finished(schedule_kind)
  /\ Goto(r, IF schedule_kind' = 1 THEN "schedule" ELSE "idle")
  /\ UNCHANGED <<queue, closed, version, published, late>>

\* task_executor::shutdown
Shutdown ==
  /\ ~closed
  /\ closed' = TRUE
  /\ UNCHANGED <<schedule_kind, queue, pc, version, published, late>>

Next == \/ \E c \in Callers : Request(c) \/ CompareAndSwap(c)
        \/ \E t \in Callers \cup Runners : Schedule(t) \/ ScheduleFailed(t)
        \/ \E r \in Runners : Take(r) \/ Start(r) \/ Finish(r)
        \/ Shutdown

Spec == Init /\ [][Next]_vars
-----------------------------------------------------------------------------
TypeOK ==
  /\ schedule_kind \in 0..3
  /\ queue \in 0..1
  /\ closed \in BOOLEAN
  /\ pc \in [Callers \cup Runners ->
               {"idle", "cas", "schedule", "failed", "wrapper", "callback"}]
  /\ version \in 0..MaxRequests /\ published \in 0..version
  /\ late \in BOOLEAN

(***************************************************************************)
(* assert(result == 1) in callback_wrapper: whoever is about to begin the  *)
(* callback finds the task scheduled; hence it never runs twice at a time. *)
(***************************************************************************)
FoundScheduled ==
  /\ \A r \in Runners : pc[r] = "wrapper" => schedule_kind = 1
  /\ \A r, s \in Runners : pc[r] = "callback" /\ pc[s] = "callback" => r = s

Quiet == queue = 0 /\ \A t \in Callers \cup Runners : pc[t] = "idle"

(***************************************************************************)
(* "we're already executing now but we need a new execute": when enqueue   *)
(* has returned TRUE and everything has come to rest, the task has been    *)
(* executed since.                                                         *)
(***************************************************************************)
LatestPublished == Quiet => published = version \/ closed

(***************************************************************************)
(* What is left of it: a request may be lost only if it met an execution   *)
(* in progress, since the latest start.                                    *)
(***************************************************************************)
PublishedUnlessLate == Quiet => published = version \/ closed \/ late
=============================================================================
