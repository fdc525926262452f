----------------------------- MODULE TaskExecutor -----------------------------
(***************************************************************************)
(* task_executor (misc/task_executor.cpp): a pool of threads that runs     *)
(* tasks once and recurring tasks again and again.  Pending tasks form a   *)
(* singly linked list with a pointer to the location of its last null      *)
(* pointer; pending recurring tasks form a list sorted by the time of      *)
(* their next invocation.  Both are guarded by one mutex, which a thread   *)
(* holds from the end of a callback to the take of the next task or to the *)
(* wait on the condition variable, so it is a variable of the model; the   *)
(* other critical sections are one step each.                              *)
(*                                                                         *)
(* Time is relative: wait[r] is the time left until scheduled_invoke, zero *)
(* when it has passed.  max(now, expected_next_invoke) is then just the    *)
(* time left of the interval that began when the task was taken.           *)
(***************************************************************************)
EXTENDS Integers, Sequences, FiniteSets

CONSTANTS Tasks, Recurring,  \* task objects: to run once, to run repeatedly
          Threads,
          Interval,          \* interval of a recurring task
          task_head,         \* the location task_head
          Null, Free

AllTasks == Tasks \cup Recurring
Locations == Tasks \cup {task_head}

ASSUME ExecutorAssumption ==
  /\ Tasks \cap Recurring = {} /\ task_head \notin AllTasks
  /\ Null \notin AllTasks \cup {task_head} /\ Free \notin Threads
  /\ Interval \in [Recurring -> Nat \ {0}]
  /\ IsFiniteSet(AllTasks) /\ IsFiniteSet(Threads) /\ Threads # {}

VARIABLES
  mutex,                 \* the executor thread that holds the mutex, or Free
  shutdown, destroyed,   \* shutdown() was called; the destructor has run
  next, task_tail,       \* content of a location; the location to append at
  task_count,
  lost,                  \* history: tasks that were appended to no list
  recurring,             \* the list of pending recurring tasks
  task_recurring_count,
  wait,
  life,                  \* of a task object
  canceled,              \* task::canceled, task_recurring::shutdown
  finish_callback,       \* "none"; "promised" to a joinable cancel; "kept"
  pc, executing, until   \* per thread; until: time left of its wait_until

listVars == <<next, task_tail, task_count, lost>>
recurringVars == <<recurring, task_recurring_count, wait>>
taskVars == <<life, canceled, finish_callback>>
threadVars == <<pc, executing, until>>
vars == <<mutex, shutdown, destroyed, listVars, recurringVars, taskVars,
          threadVars>>

Init ==
  /\ mutex = Free /\ shutdown = FALSE /\ destroyed = FALSE
  /\ next = [l \in Locations |-> Null] /\ task_tail = task_head /\ task_count = 0
  /\ lost = {}
  /\ recurring = <<>> /\ task_recurring_count = 0
  /\ wait = [r \in Recurring |-> 0]
  /\ life = [t \in AllTasks |-> "unborn"]
  /\ canceled = [t \in AllTasks |-> FALSE]
  /\ finish_callback = [t \in AllTasks |-> "none"]
  /\ pc = [e \in Threads |-> "lock"]
  /\ executing = [e \in Threads |-> Null]
  /\ until = [e \in Threads |-> 0]

\* delete; finish_callback stays as the record of the promise.
Delete(ts) ==
  /\ life' = [t \in AllTasks |-> IF t \in ts THEN "deleted" ELSE life[t]]
  /\ canceled' = [t \in AllTasks |-> t \notin ts /\ canceled[t]]

Sleeping == {e \in Threads : pc[e] \in {"wait", "wait_until"}}
Running(t) == \E e \in Threads : executing[e] = t

\* Mutant: the notification is missing.
NotifyNobody == UNCHANGED threadVars

\* notify_one: the condition variable does not tell who waits with a timeout.
NotifyOne == \/ /\ Sleeping = {}
                /\ UNCHANGED threadVars
             \/ \E e \in Sleeping : /\ pc' = [pc EXCEPT ![e] = "lock"]
                                    /\ until' = [until EXCEPT ![e] = 0]
                                    /\ UNCHANGED executing
-----------------------------------------------------------------------------
\* The tasks of the list: the least set that holds what task_head points to
\* and what the next fields of its members point to.
Linked(S) == \A l \in S \cup {task_head} : next[l] \in S \cup {Null}
Pending == {t \in Tasks : \A S \in SUBSET Tasks : Linked(S) => t \in S}

\* The caller of an operation holds the mutex for one step.
Callable == mutex = Free /\ ~destroyed

\* The task is appended where the tail points to.  After the last of several
\* tasks was cancelled that is a field of a deleted task: the write goes into
\* freed memory, and this task and the ones behind it are in no list.
schedule(t) ==
  /\ Callable /\ ~shutdown
  /\ life[t] = "unborn"
  /\ life' = [life EXCEPT ![t] = "live"]
  /\ task_count' = task_count + 1
  /\ next' = [next EXCEPT ![task_tail] = t]
  /\ task_tail' = t
  /\ lost' = IF task_tail \in Pending \cup {task_head} THEN lost ELSE lost \cup {t}
  /\ NotifyOne
  /\ UNCHANGED <<mutex, shutdown, destroyed, recurringVars, canceled,
                 finish_callback>>

\* next_task->scheduled_invoke > task->scheduled_invoke
Later(s, r) == wait[s] > wait[r]

\* The position of r in the list: before the first task that is due later.
InsertPosition(r) ==
  CHOOSE i \in 1..(Len(recurring) + 1) :
    /\ \A j \in 1..(i - 1) : ~Later(recurring[j], r)
    /\ i <= Len(recurring) => Later(recurring[i], r)

enqueue_recurring_task(r) ==
  recurring' = SubSeq(recurring, 1, InsertPosition(r) - 1) \o <<r>>
                 \o SubSeq(recurring, InsertPosition(r), Len(recurring))

\* scheduled_invoke is the current time.
schedule_repeating(r) ==
  /\ Callable /\ ~shutdown
  /\ life[r] = "unborn"
  /\ life' = [life EXCEPT ![r] = "live"]
  /\ task_recurring_count' = task_recurring_count + 1
  /\ enqueue_recurring_task(r)
  /\ NotifyOne
  /\ UNCHANGED <<mutex, shutdown, destroyed, listVars, wait, canceled,
                 finish_callback>>

PendingRecurring == {recurring[i] : i \in 1..Len(recurring)}
Previous(t) == CHOOSE l \in Pending \cup {task_head} : next[l] = t

\* Mutant: the tail of an emptied list keeps pointing at the removed task.
TailKept(t) == task_tail

\* task_tail after the front task t was taken out
TailWithoutFront(t) == IF next[t] = Null THEN task_head ELSE task_tail

\* Mutant: every cancelled task is taken for the front of the list.
CancelPendingAsFront(t) ==
  /\ t \in Pending
  /\ next' = [next EXCEPT ![task_head] = next[t]]
  /\ task_tail' = TailWithoutFront(t)
  /\ task_count' = task_count - 1
  /\ Delete({t})
  /\ UNCHANGED <<lost, recurringVars, finish_callback>>

\* A pending task is unlinked; behind another one the tail stays as it is,
\* even if it points into the task that is deleted.
CancelPending(t) ==
  /\ t \in Pending
  /\ next' = [next EXCEPT ![Previous(t)] = next[t]]
  /\ task_tail' = IF Previous(t) = task_head THEN TailWithoutFront(t) ELSE task_tail
  /\ task_count' = task_count - 1
  /\ Delete({t})
  /\ UNCHANGED <<lost, recurringVars, finish_callback>>

CancelPendingRecurring(r) ==
  /\ \E i \in 1..Len(recurring) :
       /\ recurring[i] = r
       /\ recurring' = SubSeq(recurring, 1, i - 1)
                         \o SubSeq(recurring, i + 1, Len(recurring))
  /\ task_recurring_count' = task_recurring_count - 1
  /\ wait' = [wait EXCEPT ![r] = 0]
  /\ Delete({r})
  /\ UNCHANGED <<listVars, finish_callback>>

\* Only a joinable cancel waits for the end of an execution.
PromiseOf(joinable) == IF joinable THEN "promised" ELSE "none"

\* Mutant: the count of pending tasks is decreased for a task that was taken.
CancelRunningCounted(t, joinable) ==
  /\ Running(t) /\ ~canceled[t]
  /\ canceled' = [canceled EXCEPT ![t] = TRUE]
  /\ finish_callback' = [finish_callback EXCEPT ![t] = PromiseOf(joinable)]
  /\ task_count' = task_count - 1
  /\ UNCHANGED <<next, task_tail, lost, recurringVars, life>>

\* A task that is executed is marked; the executor deletes it.
CancelRunning(t, joinable) ==
  /\ Running(t) /\ ~canceled[t]
  /\ canceled' = [canceled EXCEPT ![t] = TRUE]
  /\ finish_callback' = [finish_callback EXCEPT ![t] = PromiseOf(joinable)]
  /\ task_recurring_count' = IF t \in Recurring THEN task_recurring_count - 1
                                                 ELSE task_recurring_count
  /\ UNCHANGED <<listVars, recurring, wait, life>>

\* Neither pending nor executed, or cancelled while it is executed: nothing
\* is done, and a joinable cancel returns a future that is ready already.
CancelNotFound(t) ==
  /\ t \notin Pending \cup PendingRecurring
  /\ Running(t) => canceled[t]
  /\ UNCHANGED <<listVars, recurringVars, taskVars>>

\* cancel_task and cancel_task_joinable of a task the caller knows
cancel_task(t, joinable) ==
  /\ Callable /\ life[t] # "unborn"
  /\ \/ t \in Tasks /\ CancelPending(t)
     \/ t \in Recurring /\ CancelPendingRecurring(t)
     \/ CancelRunning(t, joinable)
     \/ CancelNotFound(t)
  /\ UNCHANGED <<mutex, shutdown, destroyed, threadVars>>

\* shutdown(): the flag and notify_all.  The join of the threads that follows
\* changes nothing.
Shutdown ==
  /\ Callable /\ ~shutdown
  /\ shutdown' = TRUE
  /\ pc' = [e \in Threads |-> IF e \in Sleeping THEN "lock" ELSE pc[e]]
  /\ until' = [e \in Threads |-> 0]
  /\ UNCHANGED <<mutex, destroyed, listVars, recurringVars, taskVars,
                 executing>>

\* The destructor marks the recurring tasks that are executed.
MarkedByDestructor(t) == canceled[t] \/ (t \in Recurring /\ Running(t))

\* ~task_executor, after a shutdown that may have given up on a thread
Destroy ==
  /\ Callable /\ shutdown
  /\ destroyed' = TRUE
  /\ canceled' = [t \in AllTasks |-> MarkedByDestructor(t)]
  /\ life' = [t \in AllTasks |->
                IF t \in Pending \cup PendingRecurring THEN "deleted" ELSE life[t]]
  /\ next' = [next EXCEPT ![task_head] = Null]
  /\ task_tail' = task_head /\ task_count' = 0 /\ UNCHANGED lost
  /\ recurring' = <<>> /\ task_recurring_count' = 0
  /\ wait' = [r \in Recurring |-> IF r \in PendingRecurring THEN 0 ELSE wait[r]]
  /\ UNCHANGED <<mutex, shutdown, finish_callback, threadVars>>
-----------------------------------------------------------------------------
Goto(e, l) == pc' = [pc EXCEPT ![e] = l]

\* The thread has the mutex (again): begin, end of a wait.
Lock(e) ==
  /\ mutex = Free /\ pc[e] = "lock"
  /\ mutex' = e
  /\ Goto(e, "loop")
  /\ UNCHANGED <<shutdown, destroyed, listVars, recurringVars, taskVars,
                 executing, until>>

\* The loop is left.
Stop(e) ==
  /\ mutex = e /\ shutdown
  /\ mutex' = Free
  /\ Goto(e, "stopped")
  /\ UNCHANGED <<shutdown, destroyed, listVars, recurringVars, taskVars,
                 executing, until>>

\* The callback of t is called without the mutex.
Execute(e, t) ==
  /\ mutex' = Free
  /\ Goto(e, "callback")
  /\ executing' = [executing EXCEPT ![e] = t]
  /\ UNCHANGED <<shutdown, destroyed, taskVars, until>>

TakeTask(e) ==
  LET t == next[task_head] IN
  /\ mutex = e /\ ~shutdown /\ t # Null
  /\ next' = [next EXCEPT ![task_head] = next[t]]
  /\ task_tail' = TailWithoutFront(t)
  /\ task_count' = task_count - 1
  /\ Execute(e, t)
  /\ UNCHANGED <<lost, recurringVars>>

\* The time to the next invocation starts when the task is taken.
TakeRecurring(e) ==
  /\ mutex = e /\ ~shutdown /\ next[task_head] = Null
  /\ recurring # <<>> /\ wait[Head(recurring)] = 0
  /\ recurring' = Tail(recurring)
  /\ wait' = [wait EXCEPT ![Head(recurring)] = Interval[Head(recurring)]]
  /\ Execute(e, Head(recurring))
  /\ UNCHANGED <<listVars, task_recurring_count>>

\* wait_until the next invocation, or wait
WaitForWork(e) ==
  /\ mutex = e /\ ~shutdown /\ next[task_head] = Null
  /\ mutex' = Free
  /\ \/ /\ recurring = <<>>
        /\ Goto(e, "wait")
        /\ UNCHANGED until
     \/ /\ recurring # <<>> /\ wait[Head(recurring)] > 0
        /\ Goto(e, "wait_until")
        /\ until' = [until EXCEPT ![e] = wait[Head(recurring)]]
  /\ UNCHANGED <<shutdown, destroyed, listVars, recurringVars, taskVars,
                 executing>>

\* Mutant: the promise of an execution that was cancelled is forgotten.
PromiseForgotten(t) == finish_callback

\* finish_callback->set_value()
PromiseKept(t) ==
  [finish_callback EXCEPT ![t] = IF @ = "promised" THEN "kept" ELSE @]

\* The callback has returned, or its exception was handled; the mutex is
\* taken for the next round of the loop.
Finish(e) ==
  /\ mutex = Free /\ pc[e] = "callback"
  /\ mutex' = e
  /\ Goto(e, "loop")
  /\ executing' = [executing EXCEPT ![e] = Null]
  /\ UNCHANGED <<shutdown, destroyed, listVars, task_recurring_count, until>>

\* set_value() comes before the delete; the mutex is held over both, and who
\* waits for the future knows the task by its id only.
FinishTask(e) ==
  /\ executing[e] \in Tasks
  /\ Finish(e)
  /\ finish_callback' = PromiseKept(executing[e])
  /\ Delete({executing[e]})
  /\ UNCHANGED <<recurring, wait>>

FinishRecurring(e) ==
  /\ executing[e] \in Recurring
  /\ Finish(e)
  /\ \/ /\ canceled[executing[e]]
        /\ finish_callback' = PromiseKept(executing[e])
        /\ Delete({executing[e]})
        /\ wait' = [wait EXCEPT ![executing[e]] = 0]
        /\ UNCHANGED recurring
     \/ /\ ~canceled[executing[e]]
        /\ enqueue_recurring_task(executing[e])
        /\ UNCHANGED <<finish_callback, wait, life, canceled>>

\* wait_until ends because the time has come.
TimeOut(e) ==
  /\ pc[e] = "wait_until" /\ until[e] = 0
  /\ Goto(e, "lock")
  /\ UNCHANGED <<mutex, shutdown, destroyed, listVars, recurringVars,
                 taskVars, executing, until>>

\* A condition variable may wake up for no reason.
SpuriousWake(e) ==
  /\ e \in Sleeping
  /\ Goto(e, "lock")
  /\ until' = [until EXCEPT ![e] = 0]
  /\ UNCHANGED <<mutex, shutdown, destroyed, listVars, recurringVars,
                 taskVars, executing>>

\* Time passes.
Tick ==
  /\ \/ \E r \in Recurring : wait[r] > 0
     \/ \E e \in Threads : until[e] > 0
  /\ wait' = [r \in Recurring |-> IF wait[r] > 0 THEN wait[r] - 1 ELSE 0]
  /\ until' = [e \in Threads |-> IF until[e] > 0 THEN until[e] - 1 ELSE 0]
  /\ UNCHANGED <<mutex, shutdown, destroyed, listVars, recurring,
                 task_recurring_count, taskVars, pc, executing>>

\* What a thread does while it has the mutex
Loop(e) == Stop(e) \/ TakeTask(e) \/ TakeRecurring(e) \/ WaitForWork(e)

Next ==
  \/ \E t \in Tasks : schedule(t)
  \/ \E r \in Recurring : schedule_repeating(r)
  \/ \E t \in AllTasks, joinable \in BOOLEAN : cancel_task(t, joinable)
  \/ Shutdown \/ Destroy \/ Tick
  \/ \E e \in Threads : \/ Lock(e) \/ Loop(e) \/ FinishTask(e)
                        \/ FinishRecurring(e) \/ TimeOut(e) \/ SpuriousWake(e)

Spec == Init /\ [][Next]_vars

\* Threads run on and get the mutex they ask for again and again, callbacks
\* return, and time passes.
Fairness ==
  /\ WF_vars(Tick)
  /\ \A e \in Threads : /\ WF_vars(Loop(e)) /\ WF_vars(TimeOut(e))
                        /\ SF_vars(Lock(e))
                        /\ SF_vars(FinishTask(e) \/ FinishRecurring(e))

FairSpec == Spec /\ Fairness
-----------------------------------------------------------------------------
TypeOK ==
  /\ mutex \in Threads \cup {Free}
  /\ shutdown \in BOOLEAN /\ destroyed \in BOOLEAN
  /\ next \in [Locations -> Tasks \cup {Null}]
  /\ task_tail \in Locations /\ task_count \in Nat /\ lost \subseteq Tasks
  /\ recurring \in Seq(Recurring) /\ task_recurring_count \in Nat
  /\ wait \in [Recurring -> Nat]
  /\ life \in [AllTasks -> {"unborn", "live", "deleted"}]
  /\ canceled \in [AllTasks -> BOOLEAN]
  /\ finish_callback \in [AllTasks -> {"none", "promised", "kept"}]
  /\ pc \in [Threads -> {"lock", "loop", "callback", "wait", "wait_until",
                         "stopped"}]
  /\ executing \in [Threads -> AllTasks \cup {Null}]
  /\ until \in [Threads -> Nat]

(***************************************************************************)
(* The places a task object can be in - pending, executed by one thread -  *)
(* exclude each other, a task is only there while it lives, and a live     *)
(* task is in one of them unless it is lost: no use after delete, no task  *)
(* that runs twice at a time.  The counters are exact, although a          *)
(* recurring task stays counted while it is executed and its cancel takes  *)
(* it out early; a lost task stays counted.  The recurring task that is    *)
(* looked at is the one due first.  A destroyed executor has no tasks, and *)
(* a thread that still executes a recurring one (shutdown timed out) is    *)
(* told not to enqueue it.                                                 *)
(***************************************************************************)
OnePlace ==
  /\ \A t \in AllTasks :
       life[t] = "live" <=> t \in Pending \cup PendingRecurring \cup lost \/ Running(t)
  /\ \A t \in Pending \cup PendingRecurring \cup lost : ~Running(t)
  /\ Pending \cap lost = {}
  /\ \A e, f \in Threads : executing[e] = executing[f] /\ e # f => executing[e] = Null
  /\ Cardinality(PendingRecurring) = Len(recurring)
  /\ ~destroyed =>
       /\ task_count = Cardinality(Pending \cup lost)
       /\ task_recurring_count =
            Cardinality({r \in Recurring : life[r] = "live" /\ ~canceled[r]})
  /\ \A i \in 1..(Len(recurring) - 1) : wait[recurring[i]] <= wait[recurring[i + 1]]
  /\ destroyed => /\ Pending = {} /\ recurring = <<>>
                  /\ \A e \in Threads : executing[e] \in Recurring => canceled[executing[e]]

(***************************************************************************)
(* The tail is the end of the list, or the last of several tasks was       *)
(* cancelled and the tail is the field of a task that is deleted or lost;  *)
(* it is right again as soon as the list is empty, so that a task can be   *)
(* lost only as long as an earlier one is still pending.                   *)
(***************************************************************************)
TailHeals ==
  /\ next[task_tail] = Null
  /\ Pending = {} => task_tail = task_head
  /\ \/ task_tail \in Pending \cup {task_head}
     \/ task_tail \in lost \/ life[task_tail] = "deleted"

(***************************************************************************)
(* Every task is eventually executed, or cancelled, or the executor is     *)
(* shut down: the wake-ups reach a thread, although the executor appends   *)
(* recurring tasks without a notification and notify_one may wake the only *)
(* thread that watches the clock.                                          *)
(***************************************************************************)
EveryTaskRuns ==
  /\ \A t \in Tasks : t \in Pending ~> (Running(t) \/ life[t] = "deleted" \/ shutdown)
  /\ \A r \in Recurring : r \in PendingRecurring ~> (Running(r) \/ life[r] = "deleted" \/ shutdown)

(***************************************************************************)
(* shutdown() without a timeout and the caller of cancel_task_joinable do  *)
(* not wait for ever: every thread leaves its loop, the sleeping ones too, *)
(* and every promise that was handed out has been kept by then.            *)
(***************************************************************************)
WaitsEnd ==
  shutdown ~> /\ \A e \in Threads : pc[e] = "stopped"
              /\ \A t \in AllTasks : finish_callback[t] # "promised"
=============================================================================
