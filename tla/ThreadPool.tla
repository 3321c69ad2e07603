----------------------------- MODULE ThreadPool -----------------------------
(***************************************************************************)
(* The thread pool of the select server (select/src/thread_pool.cpp).      *)
(*                                                                         *)
(* A critical section of mutex_ never blocks, so it is one action.  A      *)
(* condition variable is the set of threads whose control is "waiting";    *)
(* notify moves one of them, or all, to "ready", where the thread has to   *)
(* take mutex_ again before it re-evaluates its predicate.  Wake-ups may   *)
(* also be spurious.                                                       *)
(*                                                                         *)
(* The owner is the thread that destroys the pool: the program calls       *)
(* join() only from ~thread_pool().  Clients are the threads outside the   *)
(* pool that use it while it lives (the reactor's thread in the server).   *)
(***************************************************************************)
EXTENDS Naturals, Sequences, FiniteSets

CONSTANTS
  Workers,    \* the threads of workers_
  Clients,    \* threads outside the pool
  Tasks,      \* submissions: every call of operator() passes a task of its own
  NoTask      \* an empty task_t

ASSUME WorkersAssumption == IsFiniteSet(Workers) /\ Workers # {}
ASSUME ThreadsAssumption == Workers \cap Clients = {}
ASSUME NoTaskAssumption == NoTask \notin Tasks

VARIABLES
  tasks_,         \* the queue
  busy_workers_,  \* workers between taking a task and locking mutex_ again
  stopping_,      \* the atomic flag
  wpc,            \* control of each worker
  stack,          \* tasks a worker is executing, the innermost call first
  deferred_task,  \* the thread-local slot of each worker
  call,           \* a task past the stopping_ check of operator(), not yet queued
  owner,          \* control of the thread that destroys the pool
  submitted,      \* history: tasks passed to operator()
  finished,       \* history: tasks that ran to completion
  dropped         \* history: tasks destroyed without having run

vars == <<tasks_, busy_workers_, stopping_, wpc, stack, deferred_task, call,
          owner, submitted, finished, dropped>>

Threads == Workers \cup Clients
Kinds == {"dispatch", "post", "defer"}

WorkerControl == {"ready", "waiting", "running", "finishing", "exited"}
OwnerControl == {"idle", "waiting", "ready", "joining", "destroyed"}

WorkersAt(c) == {w \in Workers : wpc[w] = c}
Elements(s) == {s[i] : i \in 1..Len(s)}

TypeOK ==
  /\ tasks_ \in Seq(Tasks)
  /\ busy_workers_ \in Nat
  /\ stopping_ \in BOOLEAN
  /\ wpc \in [Workers -> WorkerControl]
  /\ stack \in [Workers -> Seq(Tasks)]
  /\ deferred_task \in [Workers -> Tasks \cup {NoTask}]
  /\ call \in [Threads -> Tasks \cup {NoTask}]
  /\ owner \in OwnerControl
  /\ submitted \in SUBSET Tasks
  /\ finished \in SUBSET Tasks
  /\ dropped \in SUBSET Tasks

Init ==
  /\ tasks_ = <<>>
  /\ busy_workers_ = 0
  /\ stopping_ = FALSE
  /\ wpc = [w \in Workers |-> "ready"]
  /\ stack = [w \in Workers |-> <<>>]
  /\ deferred_task = [w \in Workers |-> NoTask]
  /\ call = [th \in Threads |-> NoTask]
  /\ owner = "idle"
  /\ submitted = {}
  /\ finished = {}
  /\ dropped = {}

-----------------------------------------------------------------------------
(* Condition variables. *)

NotifyAllWorkers ==
  wpc' = [w \in Workers |-> IF wpc[w] = "waiting" THEN "ready" ELSE wpc[w]]

NotifyOneWorker ==
  \/ /\ WorkersAt("waiting") = {}
     /\ UNCHANGED wpc
  \/ \E w \in WorkersAt("waiting") : wpc' = [wpc EXCEPT ![w] = "ready"]

(* Notification of the thread in join(). *)
NotifyOwner == owner' = IF owner = "waiting" THEN "ready" ELSE owner

-----------------------------------------------------------------------------
(* The worker's loop. *)

(* Mutation: the last busy worker tells nobody. *)
ReleaseSilently(n) == UNCHANGED owner

(* The owner's view of busy_workers_ is only refreshed by this notification. *)
Release(n) == IF n = 0 THEN NotifyOwner ELSE UNCHANGED owner

(* Mutation: the worker drains the queue before it looks at stopping_. *)
LeavesWhenDrained == stopping_ /\ tasks_ = <<>>

LeavesLoop == stopping_

BusyWithThis(n) == n + 1

(* From the wait on queue_not_empty_ to lock.unlock(), entered holding     *)
(* mutex_ with n busy workers: leave, wait, or take the oldest task.       *)
Loop(w, n) ==
  \/ /\ LeavesLoop
     /\ wpc' = [wpc EXCEPT ![w] = "exited"]
     /\ busy_workers_' = n
     /\ UNCHANGED <<tasks_, stack>>
  \/ /\ ~LeavesLoop
     /\ tasks_ = <<>>
     /\ wpc' = [wpc EXCEPT ![w] = "waiting"]
     /\ busy_workers_' = n
     /\ UNCHANGED <<tasks_, stack>>
  \/ /\ ~LeavesLoop
     /\ tasks_ # <<>>
     /\ tasks_' = Tail(tasks_)
     /\ stack' = [stack EXCEPT ![w] = <<Head(tasks_)>>]
     /\ wpc' = [wpc EXCEPT ![w] = "running"]
     /\ busy_workers_' = BusyWithThis(n)

(* The first lock of a new thread, or the re-lock after a wake-up. *)
Wake(w) ==
  /\ wpc[w] = "ready"
  /\ Loop(w, busy_workers_)
  /\ UNCHANGED <<stopping_, deferred_task, call, owner, submitted, finished, dropped>>

SpuriousWake(w) ==
  /\ wpc[w] = "waiting"
  /\ wpc' = [wpc EXCEPT ![w] = "ready"]
  /\ UNCHANGED <<tasks_, busy_workers_, stopping_, stack, deferred_task, call,
                 owner, submitted, finished, dropped>>

(* The innermost task of w returns. *)
Return(w) ==
  /\ stack[w] # <<>>
  /\ call[w] = NoTask
  /\ finished' = finished \cup {Head(stack[w])}
  /\ stack' = [stack EXCEPT ![w] = Tail(stack[w])]
  /\ UNCHANGED <<tasks_, busy_workers_, stopping_, wpc, deferred_task, call,
                 owner, submitted, dropped>>

(* Mutation: the slot is run although the pool has been stopped. *)
ContinuesWithSlot(w) == deferred_task[w] # NoTask

(* The condition of the do-while. *)
MayContinue(w) == ~stopping_ /\ deferred_task[w] # NoTask

(* Run the deferred task, or destroy it and leave the inner loop. *)
Continue(w) ==
  /\ wpc[w] = "running"
  /\ stack[w] = <<>>
  /\ deferred_task' = [deferred_task EXCEPT ![w] = NoTask]
  /\ IF MayContinue(w)
     THEN /\ stack' = [stack EXCEPT ![w] = <<deferred_task[w]>>]
          /\ UNCHANGED <<wpc, dropped>>
     ELSE /\ wpc' = [wpc EXCEPT ![w] = "finishing"]
          /\ dropped' = dropped \cup ({deferred_task[w]} \ {NoTask})
          /\ UNCHANGED stack
  /\ UNCHANGED <<tasks_, busy_workers_, stopping_, call, owner, submitted, finished>>

(* lock.lock() after the task, and, without releasing mutex_, the top of   *)
(* the loop again.                                                         *)
Relock(w) ==
  /\ wpc[w] = "finishing"
  /\ Release(busy_workers_ - 1)
  /\ Loop(w, busy_workers_ - 1)
  /\ UNCHANGED <<stopping_, deferred_task, call, submitted, finished, dropped>>

-----------------------------------------------------------------------------
(* Calls from tasks and from clients. *)

(* th is executing code that may call the pool: a task on a worker, or any *)
(* client while the pool lives.                                            *)
MayCall(th) ==
  /\ call[th] = NoTask
  /\ IF th \in Workers THEN stack[th] # <<>> ELSE owner = "idle"

(* Outside the pool's own threads every kind means post. *)
EffectiveKind(th, kind) == IF th \in Workers THEN kind ELSE "post"

(* Mutation: a deferred task replaces the one in the slot. *)
SlotOverwritten(th, kind) == EffectiveKind(th, kind) = "defer"

UsesSlot(th, kind) == EffectiveKind(th, kind) = "defer" /\ deferred_task[th] = NoTask

(* operator() up to mutex_: refuse, run inside the caller, store in the    *)
(* slot, or go on to lock mutex_.                                          *)
Submit(th, kind, t) ==
  /\ MayCall(th)
  /\ t \notin submitted
  /\ submitted' = submitted \cup {t}
  /\ \/ /\ stopping_
        /\ dropped' = dropped \cup {t}
        /\ UNCHANGED <<stack, deferred_task, call>>
     \/ /\ ~stopping_
        /\ EffectiveKind(th, kind) = "dispatch"
        /\ stack' = [stack EXCEPT ![th] = <<t>> \o stack[th]]
        /\ UNCHANGED <<deferred_task, call, dropped>>
     \/ /\ ~stopping_
        /\ UsesSlot(th, kind)
        /\ deferred_task' = [deferred_task EXCEPT ![th] = t]
        /\ UNCHANGED <<stack, call, dropped>>
     \/ /\ ~stopping_
        /\ EffectiveKind(th, kind) # "dispatch"
        /\ ~UsesSlot(th, kind)
        /\ call' = [call EXCEPT ![th] = t]
        /\ UNCHANGED <<stack, deferred_task, dropped>>
  /\ UNCHANGED <<tasks_, busy_workers_, stopping_, wpc, owner, finished>>

(* Mutation: only a task that finds the queue empty wakes a worker. *)
NotifiesIfEmpty == tasks_ = <<>>

(* Mutation: the comparison is the wrong way round. *)
NotifiesIfBusy == busy_workers_ > 0

Notifies == busy_workers_ < Cardinality(Workers)

(* The critical section of operator().  stopping_ is not read again. *)
Enqueue(th) ==
  /\ call[th] # NoTask
  /\ tasks_' = Append(tasks_, call[th])
  /\ call' = [call EXCEPT ![th] = NoTask]
  /\ IF Notifies THEN NotifyOneWorker ELSE UNCHANGED wpc
  /\ UNCHANGED <<busy_workers_, stopping_, stack, deferred_task, owner, submitted,
                 finished, dropped>>

stop(th) ==
  /\ MayCall(th)
  /\ dropped' = dropped \cup Elements(tasks_)
  /\ tasks_' = <<>>
  /\ stopping_' = TRUE
  /\ NotifyAllWorkers
  /\ UNCHANGED <<busy_workers_, stack, deferred_task, call, owner, submitted, finished>>

-----------------------------------------------------------------------------
(* join(), called by the destructor. *)

(* The wait on no_busy_workers_ and what follows it under mutex_. *)
AwaitIdle ==
  \/ /\ busy_workers_ = 0
     /\ stopping_' = TRUE
     /\ NotifyAllWorkers
     /\ owner' = "joining"
  \/ /\ busy_workers_ # 0
     /\ owner' = "waiting"
     /\ UNCHANGED <<stopping_, wpc>>

(* No client may be inside the pool when its destructor starts. *)
JoinBegin ==
  /\ owner = "idle"
  /\ \A c \in Clients : call[c] = NoTask
  /\ \/ ~stopping_ /\ AwaitIdle
     \/ stopping_ /\ owner' = "joining" /\ UNCHANGED <<stopping_, wpc>>
  /\ UNCHANGED <<tasks_, busy_workers_, stack, deferred_task, call, submitted,
                 finished, dropped>>

JoinWake ==
  /\ owner = "ready"
  /\ AwaitIdle
  /\ UNCHANGED <<tasks_, busy_workers_, stack, deferred_task, call, submitted,
                 finished, dropped>>

SpuriousJoinWake ==
  /\ owner = "waiting"
  /\ owner' = "ready"
  /\ UNCHANGED <<tasks_, busy_workers_, stopping_, wpc, stack, deferred_task, call,
                 submitted, finished, dropped>>

AllJoined == \A w \in Workers : wpc[w] = "exited"

(* thread.join() has returned for every worker; the members are destroyed, *)
(* and with tasks_ whatever is still queued.                               *)
Destroy ==
  /\ owner = "joining"
  /\ AllJoined
  /\ owner' = "destroyed"
  /\ dropped' = dropped \cup Elements(tasks_)
  /\ tasks_' = <<>>
  /\ UNCHANGED <<busy_workers_, stopping_, wpc, stack, deferred_task, call, submitted,
                 finished>>

(* Nothing is left to do once the pool is gone. *)
Terminated == owner = "destroyed" /\ UNCHANGED vars

-----------------------------------------------------------------------------

WorkerStep(w) == Wake(w) \/ Return(w) \/ Continue(w) \/ Relock(w) \/ Enqueue(w)

OwnerStep == JoinWake \/ Destroy

Next ==
  \/ \E w \in Workers : Wake(w)
  \/ \E w \in Workers : SpuriousWake(w)
  \/ \E w \in Workers : Return(w)
  \/ \E w \in Workers : Continue(w)
  \/ \E w \in Workers : Relock(w)
  \/ \E th \in Threads, kind \in Kinds, t \in Tasks : Submit(th, kind, t)
  \/ \E th \in Threads : Enqueue(th)
  \/ \E th \in Threads : stop(th)
  \/ JoinBegin
  \/ JoinWake
  \/ SpuriousJoinWake
  \/ Destroy
  \/ Terminated

(* Every worker keeps running once it can, tasks return, and the owner     *)
(* goes on with a join() it has begun.  Nothing makes anybody submit,      *)
(* stop or join.                                                           *)
Fairness ==
  /\ \A w \in Workers : WF_vars(WorkerStep(w))
  /\ \A c \in Clients : WF_vars(Enqueue(c))
  /\ WF_vars(OwnerStep)

Spec == Init /\ [][Next]_vars

FairSpec == Spec /\ Fairness

-----------------------------------------------------------------------------
(* Safety. *)

(* busy_workers_ counts exactly the workers between ++busy_workers_ and    *)
(* --busy_workers_, at every interleaving: join() relies on its zero.      *)
BusyCount ==
  busy_workers_ = Cardinality(WorkersAt("running") \cup WorkersAt("finishing"))

(* No lost wake-up: as long as some worker sleeps in                       *)
(* queue_not_empty_.wait, every queued task has a worker of its own that   *)
(* is already awake and going to look at the queue.  The notify_one that   *)
(* operator() skips when all workers are busy is never missed.             *)
NoSleepOnBacklog ==
  ~stopping_ /\ WorkersAt("waiting") # {}
    => Len(tasks_) <= Cardinality(WorkersAt("ready"))

(* Tasks that some part of the pool still holds, and how many places hold one. *)
Pending ==
  (Elements(tasks_) \cup {deferred_task[w] : w \in Workers}
                    \cup {call[th] : th \in Threads}) \ {NoTask}
Running == UNION {Elements(stack[w]) : w \in Workers}

(* A submitted task is in exactly one of: waiting to run, running,         *)
(* finished, destroyed unrun.  Neither the slot, the queue, stop() nor the *)
(* destructor loses or duplicates a task, whatever they race with; when    *)
(* ~thread_pool() has returned, no worker and no task is left inside.      *)
Conservation ==
  /\ submitted = Pending \cup Running \cup finished \cup dropped
  /\ Pending \cap Running = {}
  /\ (Pending \cup Running) \cap (finished \cup dropped) = {}
  /\ finished \cap dropped = {}
  /\ Cardinality(Elements(tasks_)) = Len(tasks_)
  /\ owner = "destroyed" => /\ \A w \in Workers : wpc[w] = "exited"
                            /\ Pending \cup Running = {}

(* Once stopping_ is set, no worker takes a task from the queue or from    *)
(* its slot: what is executed is only what was being executed.             *)
NoStartAfterStop ==
  [][stopping_ => \A w \in Workers : Elements(stack'[w]) \subseteq Elements(stack[w])]_vars

(* The pool as an abstract executor. *)

StatusOf(t) ==
  CASE t \in finished -> "finished"
    [] t \in dropped -> "discarded"
    [] t \in Running -> "running"
    [] t \in Pending -> "pending"
    [] OTHER -> "new"

Executor == INSTANCE TaskExecutor WITH
              status <- [t \in Tasks |-> StatusOf(t)],
              closed <- stopping_

(* Whatever the interleaving of callers, workers, stop() and the           *)
(* destructor, a caller sees the life cycle of TaskExecutor: a task runs   *)
(* at most once, one step starts at most one task, and tasks are refused   *)
(* or destroyed unrun only once stopping_ is set.                          *)
ImplementsExecutor == Executor!ExecutorSpec

(* Liveness. *)

(* A task in the queue is taken by a worker, or the pool is stopped. *)
QueuedTaskRuns ==
  \A t \in Tasks : t \in Elements(tasks_) ~> (t \in Running \cup finished \/ stopping_)

(* ~thread_pool() returns: join() misses neither the last busy worker's    *)
(* notification nor a sleeping worker.                                     *)
JoinReturns == owner # "idle" ~> owner = "destroyed"
=============================================================================
