-------------------------- MODULE ThreadPoolProofs --------------------------
(***************************************************************************)
(* Proofs about ThreadPool, for any number of workers, clients and tasks:  *)
(* no wake-up is lost; every task is in exactly one place; the pool        *)
(* implements the abstract TaskExecutor.                                   *)
(***************************************************************************)
EXTENDS ThreadPool, FiniteSetTheorems, FunctionTheorems, TLAPS

(* The workers that busy_workers_ counts. *)
Busy == WorkersAt("running") \cup WorkersAt("finishing")

-----------------------------------------------------------------------------
(* Lemmas about the sets of workers. *)

(* The workers at any control point form a finite set, no larger than workers_. *)
LEMMA WorkersAtFinite ==
  \A c : /\ WorkersAt(c) \subseteq Workers
         /\ IsFiniteSet(WorkersAt(c))
         /\ Cardinality(WorkersAt(c)) \in Nat
  <1>1. \A c : WorkersAt(c) \subseteq Workers
    BY DEF WorkersAt
  <1>2. \A c : IsFiniteSet(WorkersAt(c))
    BY <1>1, WorkersAssumption, FS_Subset
  <1> QED
    BY <1>1, <1>2, FS_CardinalityType

(* The busy workers form a finite set. *)
LEMMA BusyFinite ==
  /\ Busy \subseteq Workers
  /\ IsFiniteSet(Busy)
  /\ Cardinality(Busy) \in Nat
  /\ Cardinality(Workers) \in Nat
  <1>1. Busy \subseteq Workers
    BY WorkersAtFinite DEF Busy
  <1>2. IsFiniteSet(Busy)
    BY <1>1, WorkersAssumption, FS_Subset
  <1> QED
    BY <1>1, <1>2, WorkersAssumption, FS_CardinalityType

(* Taking one element away makes a finite set smaller by one at most. *)
LEMMA RemoveOne ==
  ASSUME NEW S, IsFiniteSet(S), NEW x
  PROVE  /\ Cardinality(S) \in Nat
         /\ Cardinality(S \ {x}) \in Nat
         /\ Cardinality(S) <= Cardinality(S \ {x}) + 1
  <1>1. Cardinality(S) \in Nat /\ Cardinality(S \ {x}) \in Nat
    BY FS_CardinalityType, FS_Subset
  <1>2. CASE x \in S
    <2>1. Cardinality(S \ {x}) = Cardinality(S) - 1
      BY <1>2, FS_RemoveElement
    <2> QED
      BY <1>1, <2>1
  <1>3. CASE x \notin S
    <2>1. Cardinality(S \ {x}) = Cardinality(S)
      BY <1>3, FS_RemoveElement
    <2> QED
      BY <1>1, <2>1
  <1> QED
    BY <1>1, <1>2, <1>3

(* What moving one worker does to the workers at each control point. *)
LEMMA MoveWorker ==
  ASSUME TypeOK, NEW w \in Workers, NEW c \in WorkerControl,
         wpc' = [wpc EXCEPT ![w] = c]
  PROVE  /\ wpc' \in [Workers -> WorkerControl]
         /\ WorkersAt(c)' = WorkersAt(c) \cup {w}
         /\ \A d : d # c => WorkersAt(d)' = WorkersAt(d) \ {w}
  BY DEF TypeOK, WorkersAt

(* notify_all leaves no worker asleep and wakes nobody else. *)
LEMMA AllNotified ==
  ASSUME TypeOK, NotifyAllWorkers
  PROVE  /\ wpc' \in [Workers -> WorkerControl]
         /\ WorkersAt("waiting")' = {}
         /\ WorkersAt("ready")' = WorkersAt("ready") \cup WorkersAt("waiting")
         /\ \A d : d \notin {"ready", "waiting"} => WorkersAt(d)' = WorkersAt(d)
  <1>1. wpc' \in [Workers -> WorkerControl]
    BY DEF TypeOK, NotifyAllWorkers, WorkerControl
  <1>2. WorkersAt("waiting")' = {}
    BY DEF TypeOK, NotifyAllWorkers, WorkersAt
  <1>3. WorkersAt("ready")' = WorkersAt("ready") \cup WorkersAt("waiting")
    BY DEF TypeOK, NotifyAllWorkers, WorkersAt
  <1>4. \A d : d \notin {"ready", "waiting"} => WorkersAt(d)' = WorkersAt(d)
    BY DEF TypeOK, NotifyAllWorkers, WorkersAt
  <1> QED
    BY <1>1, <1>2, <1>3, <1>4

-----------------------------------------------------------------------------
(* Type correctness, with the workers that execute tasks. *)

(* A worker executes a task only while it is between the two locks of its *)
(* loop.                                                                   *)
StackMeansRunning == \A w \in Workers : stack[w] # <<>> => wpc[w] = "running"

IInv ==
  /\ TypeOK
  /\ StackMeansRunning
  /\ BusyCount
  /\ NoSleepOnBacklog

(* The worker's loop keeps the types of what it assigns. *)
LEMMA LoopType ==
  ASSUME TypeOK, NEW w \in Workers, NEW n \in Nat, Loop(w, n)
  PROVE  /\ tasks_' \in Seq(Tasks)
         /\ busy_workers_' \in Nat
         /\ wpc' \in [Workers -> WorkerControl]
         /\ stack' \in [Workers -> Seq(Tasks)]
  <1> USE DEF TypeOK, WorkerControl
  <1>1. CASE stopping_
    BY <1>1 DEF Loop, LeavesLoop, BusyWithThis
  <1>2. CASE ~stopping_ /\ tasks_ = <<>>
    BY <1>2 DEF Loop, LeavesLoop, BusyWithThis
  <1>3. CASE ~stopping_ /\ tasks_ # <<>>
    <2>1. Head(tasks_) \in Tasks /\ Tail(tasks_) \in Seq(Tasks)
      BY <1>3
    <2>2. <<Head(tasks_)>> \in Seq(Tasks)
      BY <2>1
    <2>3. /\ tasks_' = Tail(tasks_)
          /\ stack' = [stack EXCEPT ![w] = <<Head(tasks_)>>]
          /\ wpc' = [wpc EXCEPT ![w] = "running"]
          /\ busy_workers_' = n + 1
      BY <1>3 DEF Loop, LeavesLoop, BusyWithThis
    <2>4. tasks_' \in Seq(Tasks) /\ busy_workers_' \in Nat
      BY <2>1, <2>3
    <2>5. stack' \in [Workers -> Seq(Tasks)]
      BY <2>2, <2>3
    <2>6. wpc' \in [Workers -> WorkerControl]
      BY <2>3
    <2> QED
      BY <2>4, <2>5, <2>6
  <1> QED
    BY <1>1, <1>2, <1>3

(* The elements of a sequence of tasks are tasks. *)
LEMMA ElementsAreTasks ==
  ASSUME NEW s \in Seq(Tasks)
  PROVE  Elements(s) \in SUBSET Tasks
  BY DEF Elements

(* The critical section of the worker's loop keeps the invariant, when n   *)
(* counts the busy workers other than w.                                   *)
LEMMA LoopInv ==
  ASSUME IInv, NEW w \in Workers, NEW n \in Nat, Loop(w, n),
         wpc[w] \in {"ready", "finishing"},
         n = Cardinality(Busy \ {w}),
         stopping_' = stopping_
  PROVE  StackMeansRunning' /\ BusyCount' /\ NoSleepOnBacklog'
  <1> USE DEF IInv
  <1>b. IsFiniteSet(Busy \ {w}) /\ w \notin Busy \ {w}
    BY BusyFinite, FS_Subset
  <1>s. stack[w] = <<>>
    BY DEF StackMeansRunning
  <1>1. CASE stopping_
    <2>1. /\ wpc' = [wpc EXCEPT ![w] = "exited"]
          /\ busy_workers_' = n
          /\ stack' = stack
      BY <1>1 DEF Loop, LeavesLoop, BusyWithThis
    <2>2. \A d : d # "exited" => WorkersAt(d)' = WorkersAt(d) \ {w}
      BY <2>1, MoveWorker DEF WorkerControl
    <2>3. BusyCount'
      BY <2>1, <2>2 DEF Busy, BusyCount
    <2>4. StackMeansRunning'
      BY <2>1, <1>s DEF StackMeansRunning, TypeOK
    <2> QED
      BY <1>1, <2>3, <2>4 DEF NoSleepOnBacklog
  <1>2. CASE ~stopping_ /\ tasks_ = <<>>
    <2>1. /\ wpc' = [wpc EXCEPT ![w] = "waiting"]
          /\ busy_workers_' = n
          /\ stack' = stack
          /\ tasks_' = <<>>
      BY <1>2 DEF Loop, LeavesLoop, BusyWithThis
    <2>2. \A d : d # "waiting" => WorkersAt(d)' = WorkersAt(d) \ {w}
      BY <2>1, MoveWorker DEF WorkerControl
    <2>3. BusyCount'
      BY <2>1, <2>2 DEF Busy, BusyCount
    <2>4. StackMeansRunning'
      BY <2>1, <1>s DEF StackMeansRunning, TypeOK
    <2>5. IsFiniteSet(WorkersAt("ready")')
      BY <2>2, WorkersAtFinite, FS_Subset
    <2>6. Cardinality(WorkersAt("ready")') \in Nat
      BY <2>5, FS_CardinalityType
    <2>7. NoSleepOnBacklog'
      BY <2>1, <2>6 DEF NoSleepOnBacklog
    <2> QED
      BY <2>3, <2>4, <2>7
  <1>3. CASE ~stopping_ /\ tasks_ # <<>>
    <2>1. /\ wpc' = [wpc EXCEPT ![w] = "running"]
          /\ busy_workers_' = n + 1
          /\ stack' = [stack EXCEPT ![w] = <<Head(tasks_)>>]
          /\ tasks_' = Tail(tasks_)
      BY <1>3 DEF Loop, LeavesLoop, BusyWithThis
    <2>2. /\ WorkersAt("running")' = WorkersAt("running") \cup {w}
          /\ \A d : d # "running" => WorkersAt(d)' = WorkersAt(d) \ {w}
      BY <2>1, MoveWorker DEF WorkerControl
    <2>3. Busy' = (Busy \ {w}) \cup {w}
      BY <2>2 DEF Busy
    <2>4. BusyCount'
      BY <2>1, <2>3, <1>b, FS_AddElement DEF Busy, BusyCount
    <2>5. StackMeansRunning'
      BY <2>1 DEF StackMeansRunning, TypeOK
    <2>6. Len(tasks_') = Len(tasks_) - 1 /\ Len(tasks_) \in Nat
      BY <1>3, <2>1 DEF TypeOK
    <2>7. Cardinality(WorkersAt("ready")') = Cardinality(WorkersAt("ready") \ {w})
      BY <2>2, Zenon
    <2>8. /\ Cardinality(WorkersAt("ready")) \in Nat
          /\ Cardinality(WorkersAt("ready") \ {w}) \in Nat
          /\ Cardinality(WorkersAt("ready")) <= Cardinality(WorkersAt("ready") \ {w}) + 1
      BY WorkersAtFinite, RemoveOne
    <2>9. WorkersAt("waiting")' # {} => Len(tasks_) <= Cardinality(WorkersAt("ready"))
      BY <1>3, <2>2 DEF NoSleepOnBacklog
    <2>10. NoSleepOnBacklog'
      BY <2>6, <2>7, <2>8, <2>9 DEF NoSleepOnBacklog
    <2> QED
      BY <2>4, <2>5, <2>10
  <1> QED
    BY <1>1, <1>2, <1>3

(* A worker that is woken, or that starts, keeps the invariant. *)
LEMMA WakeInv ==
  ASSUME IInv, NEW w \in Workers, Wake(w)
  PROVE  IInv'
  <1>1. Loop(w, busy_workers_) /\ busy_workers_ \in Nat /\ wpc[w] = "ready"
    BY DEF Wake, IInv, TypeOK
  <1>2. busy_workers_ = Cardinality(Busy \ {w})
    <2>1. Busy \ {w} = Busy
      BY <1>1 DEF Busy, WorkersAt
    <2> QED
      BY <2>1 DEF IInv, BusyCount, Busy
  <1>3. TypeOK'
    BY <1>1, LoopType DEF IInv, TypeOK, Wake
  <1>4. StackMeansRunning' /\ BusyCount' /\ NoSleepOnBacklog'
    BY <1>1, <1>2, LoopInv DEF Wake
  <1> QED
    BY <1>3, <1>4 DEF IInv

(* A worker that has executed its task keeps the invariant; in particular  *)
(* busy_workers_ is not zero when it is decremented.                       *)
LEMMA RelockInv ==
  ASSUME IInv, NEW w \in Workers, Relock(w)
  PROVE  IInv'
  <1>1. Loop(w, busy_workers_ - 1) /\ busy_workers_ \in Nat /\ wpc[w] = "finishing"
    BY DEF Relock, IInv, TypeOK
  <1>2. w \in Busy
    BY <1>1 DEF Busy, WorkersAt
  <1>3. /\ busy_workers_ - 1 = Cardinality(Busy \ {w})
        /\ busy_workers_ - 1 \in Nat
    <2>1. Cardinality(Busy \ {w}) = Cardinality(Busy) - 1
      BY <1>2, BusyFinite, FS_RemoveElement
    <2>2. Cardinality(Busy \ {w}) \in Nat
      BY BusyFinite, FS_Subset, FS_CardinalityType
    <2> QED
      BY <2>1, <2>2 DEF IInv, BusyCount, Busy
  <1>4. owner' \in OwnerControl
    BY DEF Relock, Release, NotifyOwner, IInv, TypeOK, OwnerControl
  <1>5. TypeOK'
    BY <1>1, <1>3, <1>4, LoopType DEF IInv, TypeOK, Relock
  <1>6. StackMeansRunning' /\ BusyCount' /\ NoSleepOnBacklog'
    BY <1>1, <1>3, LoopInv DEF Relock
  <1> QED
    BY <1>5, <1>6 DEF IInv

(* Waking one sleeper neither changes who is busy nor hides a task. *)
LEMMA WakeOneInv ==
  ASSUME IInv, NEW w \in WorkersAt("waiting"), wpc' = [wpc EXCEPT ![w] = "ready"],
         stack' = stack, busy_workers_' = busy_workers_
  PROVE  /\ wpc' \in [Workers -> WorkerControl]
         /\ StackMeansRunning' /\ BusyCount'
         /\ WorkersAt("waiting")' \subseteq WorkersAt("waiting")
         /\ Cardinality(WorkersAt("ready")') = Cardinality(WorkersAt("ready")) + 1
         /\ Cardinality(WorkersAt("ready")) \in Nat
  <1>1. w \in Workers /\ wpc[w] = "waiting"
    BY DEF WorkersAt
  <1>2. /\ wpc' \in [Workers -> WorkerControl]
        /\ WorkersAt("ready")' = WorkersAt("ready") \cup {w}
        /\ \A d : d # "ready" => WorkersAt(d)' = WorkersAt(d) \ {w}
    BY <1>1, MoveWorker DEF IInv, WorkerControl
  <1>3. BusyCount'
    <2>1. w \notin WorkersAt("running") /\ w \notin WorkersAt("finishing")
      BY <1>1 DEF WorkersAt
    <2> QED
      BY <1>2, <2>1 DEF IInv, BusyCount
  <1>4. StackMeansRunning'
    BY <1>1 DEF IInv, TypeOK, StackMeansRunning
  <1>5. w \notin WorkersAt("ready")
    BY <1>1 DEF WorkersAt
  <1>6. Cardinality(WorkersAt("ready")') = Cardinality(WorkersAt("ready")) + 1
    BY <1>2, <1>5, WorkersAtFinite, FS_AddElement
  <1> QED
    BY <1>2, <1>3, <1>4, <1>6, WorkersAtFinite

(* A wake-up without a notification keeps the invariant. *)
LEMMA SpuriousWakeInv ==
  ASSUME IInv, NEW w \in Workers, SpuriousWake(w)
  PROVE  IInv'
  <1>1. w \in WorkersAt("waiting")
    BY DEF SpuriousWake, WorkersAt
  <1>2. /\ wpc' \in [Workers -> WorkerControl]
        /\ StackMeansRunning' /\ BusyCount'
        /\ WorkersAt("waiting")' \subseteq WorkersAt("waiting")
        /\ Cardinality(WorkersAt("ready")') = Cardinality(WorkersAt("ready")) + 1
        /\ Cardinality(WorkersAt("ready")) \in Nat
    BY <1>1, WakeOneInv DEF SpuriousWake
  <1>3. TypeOK'
    BY <1>2 DEF IInv, TypeOK, SpuriousWake
  <1>4. Len(tasks_) \in Nat
    BY DEF IInv, TypeOK
  <1>5. NoSleepOnBacklog'
    BY <1>2, <1>4 DEF IInv, NoSleepOnBacklog, SpuriousWake
  <1> QED
    BY <1>2, <1>3, <1>5 DEF IInv

(* The only notification that operator() leaves out is one nobody waits    *)
(* for: a sleeping worker is not busy.                                     *)
LEMMA SleeperIsNotBusy ==
  ASSUME IInv, WorkersAt("waiting") # {}
  PROVE  busy_workers_ < Cardinality(Workers)
  <1>1. PICK w \in Workers : wpc[w] = "waiting"
    BY DEF WorkersAt
  <1>2. w \notin Busy
    BY <1>1 DEF Busy, WorkersAt
  <1>3. Busy \subseteq Workers /\ Busy # Workers
    BY <1>2, BusyFinite
  <1>4. Cardinality(Busy) < Cardinality(Workers)
    <2>1. Cardinality(Busy) <= Cardinality(Workers)
      BY <1>3, WorkersAssumption, FS_Subset
    <2>2. Cardinality(Busy) # Cardinality(Workers)
      BY <1>3, WorkersAssumption, FS_Subset
    <2> QED
      BY <2>1, <2>2, BusyFinite
  <1> QED
    BY <1>4 DEF IInv, BusyCount, Busy

(* Queueing a task keeps the invariant. *)
LEMMA EnqueueInv ==
  ASSUME IInv, NEW th \in Threads, Enqueue(th)
  PROVE  IInv'
  <1>1. call[th] \in Tasks
    BY DEF Enqueue, IInv, TypeOK
  <1>2. /\ tasks_' \in Seq(Tasks)
        /\ Len(tasks_') = Len(tasks_) + 1
        /\ Len(tasks_) \in Nat
        /\ call' \in [Threads -> Tasks \cup {NoTask}]
    BY <1>1 DEF Enqueue, IInv, TypeOK
  <1>3. CASE WorkersAt("waiting") = {}
    <2>1. wpc' = wpc
      BY <1>3 DEF Enqueue, Notifies, NotifyOneWorker
    <2>2. TypeOK'
      BY <1>2, <2>1 DEF Enqueue, IInv, TypeOK
    <2>3. StackMeansRunning' /\ BusyCount' /\ NoSleepOnBacklog'
      BY <1>3, <2>1 DEF Enqueue, IInv, StackMeansRunning, BusyCount, NoSleepOnBacklog,
                        WorkersAt
    <2> QED
      BY <2>2, <2>3 DEF IInv
  <1>4. CASE WorkersAt("waiting") # {}
    <2>1. busy_workers_ < Cardinality(Workers)
      BY <1>4, SleeperIsNotBusy
    <2>2. PICK w \in WorkersAt("waiting") : wpc' = [wpc EXCEPT ![w] = "ready"]
      BY <1>4, <2>1 DEF Enqueue, Notifies, NotifyOneWorker
    <2>3. /\ wpc' \in [Workers -> WorkerControl]
          /\ StackMeansRunning' /\ BusyCount'
          /\ Cardinality(WorkersAt("ready")') = Cardinality(WorkersAt("ready")) + 1
          /\ Cardinality(WorkersAt("ready")) \in Nat
      BY <2>2, WakeOneInv DEF Enqueue
    <2>4. TypeOK'
      BY <1>2, <2>3 DEF Enqueue, IInv, TypeOK
    <2>5. NoSleepOnBacklog'
      BY <1>2, <1>4, <2>3 DEF IInv, NoSleepOnBacklog, Enqueue
    <2> QED
      BY <2>3, <2>4, <2>5 DEF IInv
  <1> QED
    BY <1>3, <1>4

(* notify_all keeps the rest of the invariant. *)
LEMMA NotifyAllInv ==
  ASSUME IInv, NotifyAllWorkers, stack' = stack, busy_workers_' = busy_workers_
  PROVE  /\ wpc' \in [Workers -> WorkerControl]
         /\ StackMeansRunning' /\ BusyCount' /\ NoSleepOnBacklog'
  <1>1. /\ wpc' \in [Workers -> WorkerControl]
        /\ WorkersAt("waiting")' = {}
        /\ \A d : d \notin {"ready", "waiting"} => WorkersAt(d)' = WorkersAt(d)
    BY AllNotified DEF IInv
  <1>2. StackMeansRunning'
    BY DEF NotifyAllWorkers, IInv, TypeOK, StackMeansRunning
  <1>3. BusyCount'
    <2>1. /\ WorkersAt("running")' = WorkersAt("running")
          /\ WorkersAt("finishing")' = WorkersAt("finishing")
      BY <1>1
    <2> QED
      BY <2>1 DEF IInv, BusyCount
  <1>4. NoSleepOnBacklog'
    BY <1>1 DEF NoSleepOnBacklog
  <1> QED
    BY <1>1, <1>2, <1>3, <1>4

(* Steps that move no worker, queue nothing and start no task keep all but *)
(* the types.                                                              *)
LEMMA QuietStepInv ==
  ASSUME IInv, TypeOK', UNCHANGED <<tasks_, busy_workers_, stopping_, wpc>>,
         \A w \in Workers : stack'[w] # <<>> => stack[w] # <<>>
  PROVE  IInv'
  <1>1. \A c : WorkersAt(c)' = WorkersAt(c)
    BY DEF WorkersAt
  <1>2. BusyCount' /\ NoSleepOnBacklog'
    BY <1>1 DEF IInv, BusyCount, NoSleepOnBacklog
  <1>3. StackMeansRunning'
    BY DEF IInv, StackMeansRunning
  <1> QED
    BY <1>2, <1>3 DEF IInv

(* A task that returns keeps the invariant. *)
LEMMA ReturnInv ==
  ASSUME IInv, NEW w \in Workers, Return(w)
  PROVE  IInv'
  <1>1. stack[w] \in Seq(Tasks) /\ stack[w] # <<>>
    BY DEF IInv, TypeOK, Return
  <1>2. Head(stack[w]) \in Tasks /\ Tail(stack[w]) \in Seq(Tasks)
    BY <1>1
  <1>3. stack' \in [Workers -> Seq(Tasks)] /\ finished' \in SUBSET Tasks
    BY <1>2 DEF IInv, TypeOK, Return
  <1>4. TypeOK'
    BY <1>3 DEF IInv, TypeOK, Return
  <1>5. \A v \in Workers : stack'[v] # <<>> => stack[v] # <<>>
    BY <1>1 DEF IInv, TypeOK, Return
  <1> QED
    BY <1>4, <1>5, QuietStepInv DEF Return

(* Going on with the deferred task, or not, keeps the invariant. *)
LEMMA ContinueInv ==
  ASSUME IInv, NEW w \in Workers, Continue(w)
  PROVE  IInv'
  <1>1. deferred_task' \in [Workers -> Tasks \cup {NoTask}]
    BY DEF IInv, TypeOK, Continue
  <1>2. CASE ~stopping_ /\ deferred_task[w] # NoTask
    <2>1. /\ stack' = [stack EXCEPT ![w] = <<deferred_task[w]>>]
          /\ UNCHANGED <<tasks_, busy_workers_, stopping_, wpc, call, owner, submitted,
                         finished, dropped>>
      BY <1>2 DEF Continue, MayContinue
    <2>2. deferred_task[w] \in Tasks
      BY <1>2 DEF IInv, TypeOK
    <2>3. <<deferred_task[w]>> \in Seq(Tasks)
      BY <2>2
    <2>4. stack' \in [Workers -> Seq(Tasks)]
      BY <2>1, <2>3 DEF IInv, TypeOK
    <2>5. TypeOK'
      BY <1>1, <2>1, <2>4 DEF IInv, TypeOK
    <2>6. \A c : WorkersAt(c)' = WorkersAt(c)
      BY <2>1 DEF WorkersAt
    <2>7. BusyCount' /\ NoSleepOnBacklog'
      BY <2>1, <2>6 DEF IInv, BusyCount, NoSleepOnBacklog
    <2>8. StackMeansRunning'
      BY <2>1 DEF IInv, TypeOK, StackMeansRunning, Continue
    <2> QED
      BY <2>5, <2>7, <2>8 DEF IInv
  <1>3. CASE ~(~stopping_ /\ deferred_task[w] # NoTask)
    <2>1. /\ wpc' = [wpc EXCEPT ![w] = "finishing"]
          /\ dropped' = dropped \cup ({deferred_task[w]} \ {NoTask})
          /\ UNCHANGED <<tasks_, busy_workers_, stopping_, stack, call, owner, submitted,
                         finished>>
      BY <1>3 DEF Continue, MayContinue
    <2>2. dropped' \in SUBSET Tasks
      BY <2>1 DEF IInv, TypeOK
    <2>3. /\ wpc' \in [Workers -> WorkerControl]
          /\ WorkersAt("finishing")' = WorkersAt("finishing") \cup {w}
          /\ \A d : d # "finishing" => WorkersAt(d)' = WorkersAt(d) \ {w}
      BY <2>1, MoveWorker DEF IInv, WorkerControl
    <2>4. TypeOK'
      BY <1>1, <2>1, <2>2, <2>3 DEF IInv, TypeOK
    <2>5. w \in WorkersAt("running") /\ w \notin WorkersAt("ready")
      BY DEF Continue, WorkersAt
    <2>6. Busy' = Busy
      BY <2>3, <2>5 DEF Busy
    <2>7. BusyCount'
      BY <2>1, <2>6 DEF IInv, BusyCount, Busy
    <2>8. WorkersAt("ready")' = WorkersAt("ready")
      BY <2>3, <2>5
    <2>9. WorkersAt("waiting")' # {} => WorkersAt("waiting") # {}
      BY <2>3
    <2>10. NoSleepOnBacklog'
      BY <2>1, <2>8, <2>9 DEF IInv, NoSleepOnBacklog
    <2>11. StackMeansRunning'
      BY <2>1 DEF IInv, TypeOK, StackMeansRunning, Continue
    <2> QED
      BY <2>4, <2>7, <2>10, <2>11 DEF IInv
  <1> QED
    BY <1>2, <1>3

(* A call of operator() keeps the invariant up to its critical section. *)
LEMMA SubmitInv ==
  ASSUME IInv, NEW th \in Threads, NEW kind \in Kinds, NEW t \in Tasks,
         Submit(th, kind, t)
  PROVE  IInv'
  <1>1. deferred_task' \in [Workers -> Tasks \cup {NoTask}]
    BY DEF IInv, TypeOK, Submit, UsesSlot, EffectiveKind
  <1>2. call' \in [Threads -> Tasks \cup {NoTask}]
    BY DEF IInv, TypeOK, Submit
  <1>3. submitted' \in SUBSET Tasks /\ dropped' \in SUBSET Tasks
    BY DEF IInv, TypeOK, Submit
  <1>4. \/ stack' = stack
        \/ th \in Workers /\ stack' = [stack EXCEPT ![th] = <<t>> \o stack[th]]
    BY DEF Submit, EffectiveKind
  <1>5. stack' \in [Workers -> Seq(Tasks)]
    <2>1. th \in Workers => <<t>> \o stack[th] \in Seq(Tasks)
      BY DEF IInv, TypeOK
    <2> QED
      BY <1>4, <2>1 DEF IInv, TypeOK
  <1>6. TypeOK'
    BY <1>1, <1>2, <1>3, <1>5 DEF IInv, TypeOK, Submit
  <1>7. \A w \in Workers : stack'[w] # <<>> => stack[w] # <<>>
    BY <1>4 DEF Submit, MayCall, IInv, TypeOK
  <1> QED
    BY <1>6, <1>7, QuietStepInv DEF Submit

(* stop() keeps the invariant. *)
LEMMA StopInv ==
  ASSUME IInv, NEW th \in Threads, stop(th)
  PROVE  IInv'
  <1>1. wpc' \in [Workers -> WorkerControl] /\ StackMeansRunning' /\ BusyCount'
        /\ NoSleepOnBacklog'
    BY NotifyAllInv DEF stop
  <1>2. Elements(tasks_) \in SUBSET Tasks
    BY ElementsAreTasks DEF IInv, TypeOK
  <1>3. TypeOK'
    BY <1>1, <1>2 DEF IInv, TypeOK, stop
  <1> QED
    BY <1>1, <1>3 DEF IInv

(* The wait for no_busy_workers_ keeps the invariant. *)
LEMMA AwaitIdleInv ==
  ASSUME IInv, AwaitIdle,
         UNCHANGED <<tasks_, busy_workers_, stack, deferred_task, call, submitted,
                     finished, dropped>>
  PROVE  IInv'
  <1>1. CASE busy_workers_ = 0
    <2>1. stopping_' = TRUE /\ NotifyAllWorkers /\ owner' = "joining"
      BY <1>1 DEF AwaitIdle
    <2>2. wpc' \in [Workers -> WorkerControl] /\ StackMeansRunning' /\ BusyCount'
          /\ NoSleepOnBacklog'
      BY <2>1, NotifyAllInv
    <2>3. TypeOK'
      BY <2>1, <2>2 DEF IInv, TypeOK, OwnerControl
    <2> QED
      BY <2>2, <2>3 DEF IInv
  <1>2. CASE busy_workers_ # 0
    <2>1. UNCHANGED <<stopping_, wpc>> /\ owner' = "waiting"
      BY <1>2 DEF AwaitIdle
    <2>2. TypeOK'
      BY <2>1 DEF IInv, TypeOK, OwnerControl
    <2> QED
      BY <2>1, <2>2, QuietStepInv
  <1> QED
    BY <1>1, <1>2

(* The owner's steps keep the invariant. *)
LEMMA OwnerInv ==
  ASSUME IInv, JoinBegin \/ JoinWake \/ SpuriousJoinWake \/ Destroy
  PROVE  IInv'
  <1>1. CASE JoinBegin
    <2>1. CASE stopping_
      <3>1. TypeOK' /\ UNCHANGED <<tasks_, busy_workers_, stopping_, wpc, stack>>
        BY <1>1, <2>1 DEF IInv, TypeOK, JoinBegin, OwnerControl
      <3> QED
        BY <3>1, QuietStepInv
    <2>2. CASE ~stopping_
      BY <1>1, <2>2, AwaitIdleInv DEF JoinBegin
    <2> QED
      BY <2>1, <2>2
  <1>2. CASE JoinWake
    BY <1>2, AwaitIdleInv DEF JoinWake
  <1>3. CASE SpuriousJoinWake
    <2>1. TypeOK'
      BY <1>3 DEF IInv, TypeOK, SpuriousJoinWake, OwnerControl
    <2> QED
      BY <1>3, <2>1, QuietStepInv DEF SpuriousJoinWake
  <1>4. CASE Destroy
    <2>1. Elements(tasks_) \in SUBSET Tasks
      BY ElementsAreTasks DEF IInv, TypeOK
    <2>2. TypeOK'
      BY <1>4, <2>1 DEF IInv, TypeOK, Destroy, OwnerControl
    <2>3. StackMeansRunning' /\ BusyCount'
      BY <1>4 DEF IInv, StackMeansRunning, BusyCount, WorkersAt, Destroy
    <2>4. WorkersAt("waiting")' = {}
      BY <1>4 DEF Destroy, AllJoined, WorkersAt
    <2> QED
      BY <2>2, <2>3, <2>4 DEF IInv, NoSleepOnBacklog
  <1> QED
    BY <1>1, <1>2, <1>3, <1>4

-----------------------------------------------------------------------------

(* A new pool satisfies the invariant. *)
LEMMA InitInv == Init => IInv
  <1> SUFFICES ASSUME Init PROVE IInv
    OBVIOUS
  <1>1. TypeOK
    <2>1. tasks_ \in Seq(Tasks) /\ stack \in [Workers -> Seq(Tasks)]
      BY DEF Init
    <2>2. wpc \in [Workers -> WorkerControl] /\ owner \in OwnerControl
      BY DEF Init, WorkerControl, OwnerControl
    <2> QED
      BY <2>1, <2>2 DEF Init, TypeOK
  <1>2. WorkersAt("running") \cup WorkersAt("finishing") = {}
    BY DEF Init, WorkersAt
  <1>3. BusyCount
    BY <1>2, FS_EmptySet DEF Init, BusyCount
  <1>4. StackMeansRunning /\ NoSleepOnBacklog
    BY DEF Init, StackMeansRunning, NoSleepOnBacklog, WorkersAt
  <1> QED
    BY <1>1, <1>3, <1>4 DEF IInv

(* Every step of every thread keeps the invariant. *)
LEMMA NextInv == IInv /\ [Next]_vars => IInv'
  <1> SUFFICES ASSUME IInv, [Next]_vars PROVE IInv'
    OBVIOUS
  <1>1. ASSUME NEW w \in Workers, Wake(w) PROVE IInv'
    BY <1>1, WakeInv
  <1>2. ASSUME NEW w \in Workers, SpuriousWake(w) PROVE IInv'
    BY <1>2, SpuriousWakeInv
  <1>3. ASSUME NEW w \in Workers, Return(w) PROVE IInv'
    BY <1>3, ReturnInv
  <1>4. ASSUME NEW w \in Workers, Continue(w) PROVE IInv'
    BY <1>4, ContinueInv
  <1>5. ASSUME NEW w \in Workers, Relock(w) PROVE IInv'
    BY <1>5, RelockInv
  <1>6. ASSUME NEW th \in Threads, NEW kind \in Kinds, NEW t \in Tasks,
               Submit(th, kind, t)
        PROVE  IInv'
    BY <1>6, SubmitInv
  <1>7. ASSUME NEW th \in Threads, Enqueue(th) PROVE IInv'
    BY <1>7, EnqueueInv
  <1>8. ASSUME NEW th \in Threads, stop(th) PROVE IInv'
    BY <1>8, StopInv
  <1>9. CASE JoinBegin \/ JoinWake \/ SpuriousJoinWake \/ Destroy
    BY <1>9, OwnerInv
  <1>10. CASE UNCHANGED vars
    BY <1>10, QuietStepInv DEF vars, IInv, TypeOK
  <1>11. CASE Terminated
    BY <1>10, <1>11 DEF Terminated
  <1> QED
    BY <1>1, <1>2, <1>3, <1>4, <1>5, <1>6, <1>7, <1>8, <1>9, <1>10, <1>11 DEF Next

(* The inductive invariant holds of every behaviour of the pool. *)
THEOREM Invariance == Spec => []IInv
  BY InitInv, NextInv, PTL DEF Spec

(* Types: in particular --busy_workers_ never wraps around, whatever the   *)
(* order of the workers' critical sections.                                *)
THEOREM TypeCorrect == Spec => []TypeOK
  <1>1. IInv => TypeOK
    BY DEF IInv
  <1> QED
    BY <1>1, Invariance, PTL

(* busy_workers_ is exact for any number of workers. *)
THEOREM BusyCountCorrect == Spec => []BusyCount
  <1>1. IInv => BusyCount
    BY DEF IInv
  <1> QED
    BY <1>1, Invariance, PTL

(* No wake-up of queue_not_empty_ is lost, for any number of workers.      *)
THEOREM NoLostWakeup == Spec => []NoSleepOnBacklog
  <1>1. IInv => NoSleepOnBacklog
    BY DEF IInv
  <1> QED
    BY <1>1, Invariance, PTL

-----------------------------------------------------------------------------

(* Returning from a task leaves no new element on a worker's stack. *)
LEMMA TailElements ==
  ASSUME NEW s \in Seq(Tasks), s # <<>>
  PROVE  Elements(Tail(s)) \subseteq Elements(s)
  BY DEF Elements

(* Once stopping_ is set, no step of any thread makes a worker start a     *)
(* task.                                                                   *)
THEOREM NoStartAfterStopCorrect == Spec => NoStartAfterStop
  <1> DEFINE NoStart == stopping_ => \A w \in Workers :
                                        Elements(stack'[w]) \subseteq Elements(stack[w])
  <1>1. ASSUME TypeOK, Next, stopping_ PROVE NoStart
    <2> SUFFICES \/ stack' = stack
                 \/ \E v \in Workers : /\ stack[v] # <<>>
                                       /\ stack' = [stack EXCEPT ![v] = Tail(stack[v])]
      <3>1. CASE stack' = stack
        BY <3>1
      <3>2. ASSUME NEW v \in Workers, stack[v] # <<>>,
                   stack' = [stack EXCEPT ![v] = Tail(stack[v])],
                   NEW w \in Workers
            PROVE  Elements(stack'[w]) \subseteq Elements(stack[w])
        <4>1. Elements(Tail(stack[v])) \subseteq Elements(stack[v])
          BY <1>1, <3>2, TailElements DEF TypeOK
        <4>2. CASE w = v
          <5>1. stack'[w] = Tail(stack[v])
            BY <1>1, <3>2, <4>2 DEF TypeOK
          <5> QED
            BY <4>1, <4>2, <5>1
        <4>3. CASE w # v
          <5>1. stack'[w] = stack[w]
            BY <1>1, <3>2, <4>3 DEF TypeOK
          <5> QED
            BY <5>1
        <4> QED
          BY <4>2, <4>3
      <3> QED
        BY <3>1, <3>2
    <2>1. ASSUME NEW w \in Workers, Wake(w) \/ Relock(w) PROVE stack' = stack
      BY <1>1, <2>1 DEF Wake, Relock, Loop, LeavesLoop
    <2>2. ASSUME NEW w \in Workers, SpuriousWake(w) \/ Continue(w) PROVE stack' = stack
      BY <1>1, <2>2 DEF SpuriousWake, Continue, MayContinue
    <2>3. ASSUME NEW th \in Threads, NEW kind \in Kinds, NEW t \in Tasks,
                 Submit(th, kind, t)
          PROVE  stack' = stack
      BY <1>1, <2>3 DEF Submit
    <2>4. ASSUME NEW th \in Threads, Enqueue(th) \/ stop(th) PROVE stack' = stack
      BY <2>4 DEF Enqueue, stop
    <2>5. CASE JoinBegin \/ JoinWake \/ SpuriousJoinWake \/ Destroy \/ Terminated
      BY <2>5 DEF JoinBegin, JoinWake, SpuriousJoinWake, Destroy, Terminated, vars
    <2> QED
      BY <1>1, <2>1, <2>2, <2>3, <2>4, <2>5 DEF Next, Return
  <1>2. TypeOK /\ [Next]_vars => [NoStart]_vars
    BY <1>1
  <1> QED
    BY <1>2, TypeCorrect, PTL DEF Spec, NoStartAfterStop

-----------------------------------------------------------------------------
(* Sequences as lists of distinct tasks. *)

Distinct(s) == \A i, j \in 1..Len(s) : s[i] = s[j] => i = j

(* The empty list, and a list of one. *)
LEMMA ShortLists ==
  ASSUME NEW t
  PROVE  /\ Elements(<<>>) = {} /\ Distinct(<<>>)
         /\ Elements(<<t>>) = {t} /\ Distinct(<<t>>)
  BY DEF Elements, Distinct

(* Taking the first task off a list of distinct tasks removes it. *)
LEMMA TailOfDistinct ==
  ASSUME NEW s \in Seq(Tasks), s # <<>>, Distinct(s)
  PROVE  /\ Head(s) \in Elements(s)
         /\ Elements(Tail(s)) = Elements(s) \ {Head(s)}
         /\ Distinct(Tail(s))
  <1>1. /\ Len(s) \in Nat \ {0} /\ Head(s) = s[1]
        /\ Len(Tail(s)) = Len(s) - 1
        /\ \A i \in 1..Len(s) - 1 : Tail(s)[i] = s[i + 1]
    OBVIOUS
  <1>2. Head(s) \in Elements(s)
    BY <1>1 DEF Elements
  <1>3. Distinct(Tail(s))
    BY <1>1 DEF Distinct
  <1>4. ASSUME NEW x \in Elements(Tail(s)) PROVE x \in Elements(s) \ {Head(s)}
    <2>1. PICK i \in 1..Len(s) - 1 : x = s[i + 1]
      BY <1>1, <1>4 DEF Elements
    <2> QED
      BY <1>1, <2>1 DEF Elements, Distinct
  <1>5. ASSUME NEW x \in Elements(s) \ {Head(s)} PROVE x \in Elements(Tail(s))
    <2>1. PICK i \in 1..Len(s) : x = s[i] /\ i # 1
      BY <1>1, <1>5 DEF Elements
    <2>2. i - 1 \in 1..Len(s) - 1 /\ x = Tail(s)[i - 1]
      BY <1>1, <2>1
    <2> QED
      BY <1>1, <2>2 DEF Elements
  <1> QED
    BY <1>2, <1>3, <1>4, <1>5

(* Queueing a task that is not in the list. *)
LEMMA AppendDistinct ==
  ASSUME NEW s \in Seq(Tasks), Distinct(s), NEW t \in Tasks, t \notin Elements(s)
  PROVE  /\ Elements(Append(s, t)) = Elements(s) \cup {t}
         /\ Distinct(Append(s, t))
  <1>1. /\ Len(s) \in Nat /\ Len(Append(s, t)) = Len(s) + 1
        /\ Append(s, t)[Len(s) + 1] = t
        /\ \A i \in 1..Len(s) : Append(s, t)[i] = s[i]
    OBVIOUS
  <1>2. Distinct(Append(s, t))
    BY <1>1 DEF Distinct, Elements
  <1>3. ASSUME NEW x \in Elements(Append(s, t)) PROVE x \in Elements(s) \cup {t}
    BY <1>1, <1>3 DEF Elements
  <1>4. ASSUME NEW x \in Elements(s) \cup {t} PROVE x \in Elements(Append(s, t))
    BY <1>1, <1>4 DEF Elements
  <1> QED
    BY <1>2, <1>3, <1>4

(* Putting a task that is not in the list in front of it. *)
LEMMA PushDistinct ==
  ASSUME NEW s \in Seq(Tasks), Distinct(s), NEW t \in Tasks, t \notin Elements(s)
  PROVE  /\ Elements(<<t>> \o s) = Elements(s) \cup {t}
         /\ Distinct(<<t>> \o s)
         /\ <<t>> \o s # <<>>
  <1>1. /\ Len(s) \in Nat /\ Len(<<t>> \o s) = Len(s) + 1
        /\ (<<t>> \o s)[1] = t
        /\ \A i \in 1..Len(s) : (<<t>> \o s)[i + 1] = s[i]
    OBVIOUS
  <1>2. \A i \in 1..Len(s) + 1 : i = 1 \/ (i - 1 \in 1..Len(s) /\ (<<t>> \o s)[i] = s[i - 1])
    <2> TAKE i \in 1..Len(s) + 1
    <2>1. i # 1 => i - 1 \in 1..Len(s) /\ (i - 1) + 1 = i
      BY <1>1
    <2> QED
      BY <1>1, <2>1
  <1>3. Distinct(<<t>> \o s)
    BY <1>1, <1>2 DEF Distinct, Elements
  <1>4. ASSUME NEW x \in Elements(<<t>> \o s) PROVE x \in Elements(s) \cup {t}
    BY <1>1, <1>2, <1>4 DEF Elements
  <1>5. ASSUME NEW x \in Elements(s) \cup {t} PROVE x \in Elements(<<t>> \o s)
    <2>1. CASE x = t
      BY <1>1, <2>1 DEF Elements
    <2>2. CASE x # t
      <3>1. PICK i \in 1..Len(s) : x = s[i]
        BY <1>5, <2>2 DEF Elements
      <3>2. i + 1 \in 1..Len(<<t>> \o s) /\ x = (<<t>> \o s)[i + 1]
        BY <1>1, <3>1
      <3> QED
        BY <3>2 DEF Elements
    <2> QED
      BY <2>1, <2>2
  <1> QED
    BY <1>1, <1>3, <1>4, <1>5

-----------------------------------------------------------------------------
(* Places for one task each: the slots of the workers, and the calls of    *)
(* operator() that are on their way to the queue.                          *)

Held(f, S) == {f[x] : x \in S} \ {NoTask}
OneEach(f, S) == \A x, y \in S : x # y /\ f[x] = f[y] => f[x] = NoTask

(* An empty place takes a task that no other place holds. *)
LEMMA PlaceFilled ==
  ASSUME NEW S, NEW f \in [S -> Tasks \cup {NoTask}], OneEach(f, S),
         NEW x \in S, f[x] = NoTask, NEW t \in Tasks, t \notin Held(f, S)
  PROVE  /\ Held([f EXCEPT ![x] = t], S) = Held(f, S) \cup {t}
         /\ OneEach([f EXCEPT ![x] = t], S)
  BY NoTaskAssumption DEF Held, OneEach

(* A place gives up its task. *)
LEMMA PlaceCleared ==
  ASSUME NEW S, NEW f \in [S -> Tasks \cup {NoTask}], OneEach(f, S), NEW x \in S
  PROVE  /\ Held([f EXCEPT ![x] = NoTask], S) = Held(f, S) \ {f[x]}
         /\ OneEach([f EXCEPT ![x] = NoTask], S)
  BY DEF Held, OneEach

-----------------------------------------------------------------------------
(* The inductive invariant. *)

Queued == Elements(tasks_)
Deferred == Held(deferred_task, Workers)
Calling == Held(call, Threads)

(* No list and no family of places holds a task twice. *)
NoTwice ==
  /\ Distinct(tasks_)
  /\ \A w \in Workers : Distinct(stack[w])
  /\ \A v, w \in Workers : v # w => Elements(stack[v]) \cap Elements(stack[w]) = {}
  /\ OneEach(deferred_task, Workers)
  /\ OneEach(call, Threads)

(* The places hold different tasks, and together all that were submitted. *)
OnePlace ==
  /\ submitted = Queued \cup Deferred \cup Calling \cup Running \cup finished \cup dropped
  /\ Queued \cap Deferred = {}
  /\ (Queued \cup Deferred) \cap Calling = {}
  /\ (Queued \cup Deferred \cup Calling) \cap Running = {}
  /\ (Queued \cup Deferred \cup Calling \cup Running) \cap finished = {}
  /\ (Queued \cup Deferred \cup Calling \cup Running \cup finished) \cap dropped = {}

(* Who may still hold a task: a worker's slot and its call of operator()   *)
(* only while it executes a task, a client's call only before join(),      *)
(* nobody once the pool is destroyed.                                      *)
HoldersAlive ==
  /\ \A w \in Workers : deferred_task[w] # NoTask => wpc[w] = "running"
  /\ \A w \in Workers : call[w] # NoTask => stack[w] # <<>>
  /\ owner # "idle" => \A c \in Clients : call[c] = NoTask
  /\ owner \in {"joining", "destroyed"} => stopping_
  /\ owner = "destroyed" => AllJoined /\ tasks_ = <<>>

PInv == IInv /\ NoTwice /\ OnePlace /\ HoldersAlive

-----------------------------------------------------------------------------
(* What a step may do to the places.  Every step of the pool is one of     *)
(* these seven, and each of them is a step of the abstract executor or     *)
(* leaves it alone.                                                        *)

Elsewhere == UNCHANGED <<finished, dropped, submitted, stopping_>>

Quiet == UNCHANGED <<Queued, Deferred, Calling, Running>> /\ Elsewhere

Hands(t) ==
  /\ t \in Calling
  /\ Queued' = Queued \cup {t}
  /\ Calling' = Calling \ {t}
  /\ UNCHANGED <<Deferred, Running>> /\ Elsewhere

Starts(t) ==
  /\ ~stopping_
  /\ t \in Queued \cup Deferred
  /\ Queued' = Queued \ {t}
  /\ Deferred' = Deferred \ {t}
  /\ Running' = Running \cup {t}
  /\ UNCHANGED Calling /\ Elsewhere

Finishes(t) ==
  /\ t \in Running
  /\ Running' = Running \ {t}
  /\ finished' = finished \cup {t}
  /\ UNCHANGED <<Queued, Deferred, Calling, dropped, submitted, stopping_>>

Accepts(t) ==
  /\ ~stopping_
  /\ t \in Tasks \ submitted
  /\ submitted' = submitted \cup {t}
  /\ \/ Deferred' = Deferred \cup {t} /\ UNCHANGED <<Calling, Running>>
     \/ Calling' = Calling \cup {t} /\ UNCHANGED <<Deferred, Running>>
     \/ Running' = Running \cup {t} /\ UNCHANGED <<Deferred, Calling>>
  /\ UNCHANGED <<Queued, finished, dropped, stopping_>>

Refuses(t) ==
  /\ stopping_
  /\ t \in Tasks \ submitted
  /\ submitted' = submitted \cup {t}
  /\ dropped' = dropped \cup {t}
  /\ UNCHANGED <<Queued, Deferred, Calling, Running, finished, stopping_>>

Discards(S) ==
  /\ stopping_' = TRUE
  /\ S \subseteq Queued \cup Deferred
  /\ Queued' = Queued \ S
  /\ Deferred' = Deferred \ S
  /\ dropped' = dropped \cup S
  /\ UNCHANGED <<Calling, Running, finished, submitted>>

PlaceStep ==
  \/ Quiet
  \/ \E t \in Tasks : Hands(t) \/ Starts(t) \/ Finishes(t) \/ Accepts(t) \/ Refuses(t)
  \/ \E S \in SUBSET Tasks : Discards(S)

(* Each of them keeps every task in one place. *)
LEMMA PlaceStepInv == OnePlace /\ PlaceStep => OnePlace'
  <1> SUFFICES ASSUME OnePlace, PlaceStep PROVE OnePlace'
    OBVIOUS
  <1>1. CASE Quiet
    BY <1>1 DEF Quiet, Elsewhere, OnePlace
  <1>2. ASSUME NEW t \in Tasks, Hands(t) PROVE OnePlace'
    BY <1>2 DEF Hands, Elsewhere, OnePlace
  <1>3. ASSUME NEW t \in Tasks, Starts(t) PROVE OnePlace'
    BY <1>3 DEF Starts, Elsewhere, OnePlace
  <1>4. ASSUME NEW t \in Tasks, Finishes(t) PROVE OnePlace'
    BY <1>4 DEF Finishes, OnePlace
  <1>5. ASSUME NEW t \in Tasks, Accepts(t) PROVE OnePlace'
    BY <1>5 DEF Accepts, OnePlace
  <1>6. ASSUME NEW t \in Tasks, Refuses(t) PROVE OnePlace'
    BY <1>6 DEF Refuses, OnePlace
  <1>7. ASSUME NEW S \in SUBSET Tasks, Discards(S) PROVE OnePlace'
    BY <1>7 DEF Discards, OnePlace
  <1> QED
    BY <1>1, <1>2, <1>3, <1>4, <1>5, <1>6, <1>7 DEF PlaceStep

-----------------------------------------------------------------------------
(* The tasks being executed. *)

(* One worker's stack is replaced by another whose tasks no other worker   *)
(* executes.                                                               *)
LEMMA StackReplaced ==
  ASSUME TypeOK, NoTwice, NEW w \in Workers, NEW s \in Seq(Tasks), Distinct(s),
         stack' = [stack EXCEPT ![w] = s],
         Elements(s) \cap (Running \ Elements(stack[w])) = {}
  PROVE  /\ Running' = (Running \ Elements(stack[w])) \cup Elements(s)
         /\ \A v \in Workers : Distinct(stack'[v])
         /\ \A u, v \in Workers : u # v => Elements(stack'[u]) \cap Elements(stack'[v]) = {}
  <1>1. stack'[w] = s /\ \A v \in Workers : v # w => stack'[v] = stack[v]
    BY DEF TypeOK
  <1>2. \A x : x \in Running <=> \E v \in Workers : x \in Elements(stack[v])
    BY DEF Running
  <1>3. \A x : x \in Running' <=> \E v \in Workers : x \in Elements(stack'[v])
    BY DEF Running
  <1>4. \A v \in Workers : v # w => Elements(stack[v]) \cap Elements(stack[w]) = {}
    BY DEF NoTwice
  <1>5. \A v \in Workers : v # w => Elements(stack[v]) \subseteq Running \ Elements(stack[w])
    BY <1>2, <1>4
  <1>6. \A v \in Workers : Distinct(stack'[v])
    BY <1>1 DEF NoTwice
  <1>7. \A v \in Workers : v # w => Elements(stack'[v]) \cap Elements(stack'[w]) = {}
    BY <1>1, <1>5
  <1>8. \A u, v \in Workers : u # v /\ u # w /\ v # w
                                => Elements(stack'[u]) \cap Elements(stack'[v]) = {}
    BY <1>1 DEF NoTwice
  <1>9. ASSUME NEW x \in Running' PROVE x \in (Running \ Elements(stack[w])) \cup Elements(s)
    <2>1. PICK v \in Workers : x \in Elements(stack'[v])
      BY <1>3, <1>9
    <2> QED
      BY <1>1, <1>5, <2>1
  <1>10. ASSUME NEW x \in (Running \ Elements(stack[w])) \cup Elements(s) PROVE x \in Running'
    <2>1. CASE x \in Elements(s)
      BY <1>1, <1>3, <2>1
    <2>2. CASE x \in Running \ Elements(stack[w])
      <3>1. PICK v \in Workers : x \in Elements(stack[v])
        BY <1>2, <2>2
      <3>2. v # w
        BY <2>2, <3>1
      <3> QED
        BY <1>1, <1>3, <3>1, <3>2
    <2> QED
      BY <1>10, <2>1, <2>2
  <1>11. \A u, v \in Workers : u # v => Elements(stack'[u]) \cap Elements(stack'[v]) = {}
    BY <1>7, <1>8
  <1> QED
    BY <1>6, <1>9, <1>10, <1>11

(* An idle worker starts a task that nobody executes. *)
LEMMA StackStarted ==
  ASSUME TypeOK, NoTwice, NEW w \in Workers, NEW t \in Tasks, t \notin Running,
         stack[w] = <<>>, stack' = [stack EXCEPT ![w] = <<t>>]
  PROVE  /\ Running' = Running \cup {t}
         /\ \A v \in Workers : Distinct(stack'[v])
         /\ \A u, v \in Workers : u # v => Elements(stack'[u]) \cap Elements(stack'[v]) = {}
  <1>1. <<t>> \in Seq(Tasks)
    OBVIOUS
  <1>2. Elements(<<t>>) = {t} /\ Distinct(<<t>>) /\ Elements(stack[w]) = {}
    BY ShortLists
  <1> DEFINE s == <<t>>
  <1>3. s \in Seq(Tasks) /\ Elements(s) = {t} /\ Distinct(s) /\ stack' = [stack EXCEPT ![w] = s]
    BY <1>1, <1>2
  <1> HIDE DEF s
  <1>4. Elements(s) \cap (Running \ Elements(stack[w])) = {}
    BY <1>3
  <1>5. /\ Running' = (Running \ Elements(stack[w])) \cup Elements(s)
        /\ \A v \in Workers : Distinct(stack'[v])
        /\ \A u, v \in Workers : u # v => Elements(stack'[u]) \cap Elements(stack'[v]) = {}
    BY <1>3, <1>4, StackReplaced
  <1> QED
    BY <1>2, <1>3, <1>5

(* A task runs another inside its own call. *)
LEMMA StackPushed ==
  ASSUME TypeOK, NoTwice, NEW w \in Workers, NEW t \in Tasks, t \notin Running,
         stack' = [stack EXCEPT ![w] = <<t>> \o stack[w]]
  PROVE  /\ Running' = Running \cup {t}
         /\ \A v \in Workers : Distinct(stack'[v])
         /\ \A u, v \in Workers : u # v => Elements(stack'[u]) \cap Elements(stack'[v]) = {}
  <1>1. stack[w] \in Seq(Tasks) /\ Distinct(stack[w])
    BY DEF TypeOK, NoTwice
  <1>2. Elements(stack[w]) \subseteq Running
    BY DEF Running
  <1>3. <<t>> \o stack[w] \in Seq(Tasks)
    BY <1>1
  <1>4. /\ Elements(<<t>> \o stack[w]) = Elements(stack[w]) \cup {t}
        /\ Distinct(<<t>> \o stack[w])
    BY <1>1, <1>2, PushDistinct
  <1> QED
    BY <1>2, <1>3, <1>4, StackReplaced

(* A task returns. *)
LEMMA StackPopped ==
  ASSUME TypeOK, NoTwice, NEW w \in Workers, stack[w] # <<>>,
         stack' = [stack EXCEPT ![w] = Tail(stack[w])]
  PROVE  /\ Head(stack[w]) \in Running
         /\ Running' = Running \ {Head(stack[w])}
         /\ \A v \in Workers : Distinct(stack'[v])
         /\ \A u, v \in Workers : u # v => Elements(stack'[u]) \cap Elements(stack'[v]) = {}
  <1>1. stack[w] \in Seq(Tasks) /\ Distinct(stack[w])
    BY DEF TypeOK, NoTwice
  <1>2. Elements(stack[w]) \subseteq Running
    BY DEF Running
  <1>3. Tail(stack[w]) \in Seq(Tasks)
    BY <1>1
  <1>4. /\ Head(stack[w]) \in Elements(stack[w])
        /\ Elements(Tail(stack[w])) = Elements(stack[w]) \ {Head(stack[w])}
        /\ Distinct(Tail(stack[w]))
    BY <1>1, TailOfDistinct
  <1>5. /\ Running' = (Running \ Elements(stack[w])) \cup Elements(Tail(stack[w]))
        /\ \A v \in Workers : Distinct(stack'[v])
        /\ \A u, v \in Workers : u # v => Elements(stack'[u]) \cap Elements(stack'[v]) = {}
    BY <1>3, <1>4, StackReplaced
  <1> QED
    BY <1>2, <1>4, <1>5

-----------------------------------------------------------------------------
(* The steps of the pool as changes of place. *)

(* The places are the same when what they are made of is. *)
LEMMA SamePlaces ==
  /\ tasks_' = tasks_ => Queued' = Queued
  /\ deferred_task' = deferred_task => Deferred' = Deferred
  /\ call' = call => Calling' = Calling
  /\ stack' = stack => Running' = Running
  BY DEF Queued, Deferred, Calling, Running, Held, Elements

(* A worker's loop moves the oldest queued task to the worker's stack, or  *)
(* nothing.                                                                *)
LEMMA LoopPlaces ==
  ASSUME PInv, NEW w \in Workers, NEW n, Loop(w, n), wpc[w] # "running", Elsewhere,
         UNCHANGED <<deferred_task, call>>
  PROVE  NoTwice' /\ PlaceStep
  <1> USE DEF PInv, IInv
  <1>s. stack[w] = <<>>
    BY DEF StackMeansRunning
  <1>1. CASE UNCHANGED <<tasks_, stack>>
    <2>1. NoTwice'
      BY <1>1 DEF NoTwice, OneEach, Distinct
    <2>2. Quiet
      BY <1>1, SamePlaces DEF Quiet
    <2> QED
      BY <2>1, <2>2 DEF PlaceStep
  <1>2. CASE ~UNCHANGED <<tasks_, stack>>
    <2>1. /\ ~stopping_ /\ tasks_ # <<>>
          /\ tasks_' = Tail(tasks_)
          /\ stack' = [stack EXCEPT ![w] = <<Head(tasks_)>>]
      BY <1>2 DEF Loop, LeavesLoop
    <2>2. tasks_ \in Seq(Tasks) /\ Distinct(tasks_)
      BY DEF TypeOK, NoTwice
    <2>3. /\ Head(tasks_) \in Queued
          /\ Queued' = Queued \ {Head(tasks_)}
          /\ Distinct(tasks_')
      BY <2>1, <2>2, TailOfDistinct DEF Queued
    <2>4. Head(tasks_) \in Tasks
      BY <2>1, <2>2
    <2>5. Head(tasks_) \notin Running /\ Head(tasks_) \notin Deferred
      BY <2>3 DEF OnePlace
    <2>6. /\ Running' = Running \cup {Head(tasks_)}
          /\ \A v \in Workers : Distinct(stack'[v])
          /\ \A u, v \in Workers : u # v => Elements(stack'[u]) \cap Elements(stack'[v]) = {}
      BY <1>s, <2>1, <2>4, <2>5, StackStarted
    <2>7. NoTwice'
      BY <2>3, <2>6 DEF NoTwice, OneEach
    <2>8. Deferred' = Deferred /\ Calling' = Calling
      BY SamePlaces
    <2>9. Starts(Head(tasks_))
      BY <2>1, <2>3, <2>5, <2>6, <2>8 DEF Starts
    <2> QED
      BY <2>4, <2>7, <2>9 DEF PlaceStep
  <1> QED
    BY <1>1, <1>2

(* A task that returns is finished. *)
LEMMA ReturnPlaces ==
  ASSUME PInv, NEW w \in Workers, Return(w)
  PROVE  NoTwice' /\ PlaceStep
  <1> USE DEF PInv, IInv
  <1>1. /\ stack[w] # <<>> /\ stack' = [stack EXCEPT ![w] = Tail(stack[w])]
        /\ finished' = finished \cup {Head(stack[w])}
        /\ UNCHANGED <<tasks_, stopping_, deferred_task, call, submitted, dropped>>
    BY DEF Return
  <1>2. /\ Head(stack[w]) \in Running
        /\ Running' = Running \ {Head(stack[w])}
        /\ \A v \in Workers : Distinct(stack'[v])
        /\ \A u, v \in Workers : u # v => Elements(stack'[u]) \cap Elements(stack'[v]) = {}
    BY <1>1, StackPopped
  <1>3. Head(stack[w]) \in Tasks
    <2>1. stack[w] \in Seq(Tasks)
      BY DEF TypeOK
    <2> QED
      BY <1>1, <2>1
  <1>4. NoTwice'
    BY <1>1, <1>2 DEF NoTwice, OneEach, Distinct
  <1>5. Finishes(Head(stack[w]))
    BY <1>1, <1>2, SamePlaces DEF Finishes
  <1> QED
    BY <1>3, <1>4, <1>5 DEF PlaceStep

(* The slot's task is run, or destroyed once the pool is stopping. *)
LEMMA ContinuePlaces ==
  ASSUME PInv, NEW w \in Workers, Continue(w)
  PROVE  NoTwice' /\ PlaceStep
  <1> USE DEF PInv, IInv
  <1>1. /\ deferred_task' = [deferred_task EXCEPT ![w] = NoTask]
        /\ UNCHANGED <<tasks_, stopping_, call, submitted, finished>>
        /\ stack[w] = <<>>
    BY DEF Continue
  <1>2. Deferred' = Deferred \ {deferred_task[w]} /\ OneEach(deferred_task', Workers)
    <2>1. deferred_task \in [Workers -> Tasks \cup {NoTask}] /\ OneEach(deferred_task, Workers)
      BY DEF TypeOK, NoTwice
    <2>2. /\ Held([deferred_task EXCEPT ![w] = NoTask], Workers)
               = Held(deferred_task, Workers) \ {deferred_task[w]}
          /\ OneEach([deferred_task EXCEPT ![w] = NoTask], Workers)
      BY <2>1, PlaceCleared
    <2> QED
      BY <1>1, <2>2 DEF Deferred
  <1>3. deferred_task[w] # NoTask => deferred_task[w] \in Deferred /\ deferred_task[w] \in Tasks
    BY DEF Deferred, Held, TypeOK
  <1>4. NoTask \notin Deferred
    BY DEF Deferred, Held
  <1>5. Queued' = Queued /\ Calling' = Calling
    BY <1>1, SamePlaces
  <1>6. CASE ~stopping_ /\ deferred_task[w] # NoTask
    <2>1. stack' = [stack EXCEPT ![w] = <<deferred_task[w]>>] /\ dropped' = dropped
      BY <1>6 DEF Continue, MayContinue
    <2>2. deferred_task[w] \notin Running /\ deferred_task[w] \notin Queued
      BY <1>3, <1>6 DEF OnePlace
    <2>3. /\ Running' = Running \cup {deferred_task[w]}
          /\ \A v \in Workers : Distinct(stack'[v])
          /\ \A u, v \in Workers : u # v => Elements(stack'[u]) \cap Elements(stack'[v]) = {}
      BY <1>1, <1>3, <1>6, <2>1, <2>2, StackStarted
    <2>4. NoTwice'
      BY <1>1, <1>2, <2>3 DEF NoTwice, OneEach, Distinct
    <2>5. Starts(deferred_task[w])
      BY <1>1, <1>2, <1>3, <1>5, <1>6, <2>1, <2>2, <2>3 DEF Starts, Elsewhere
    <2> QED
      BY <1>3, <1>6, <2>4, <2>5 DEF PlaceStep
  <1>7. CASE ~(~stopping_ /\ deferred_task[w] # NoTask)
    <2>1. stack' = stack /\ dropped' = dropped \cup ({deferred_task[w]} \ {NoTask})
      BY <1>7 DEF Continue, MayContinue
    <2>2. Running' = Running
      BY <2>1, SamePlaces
    <2>3. NoTwice'
      BY <1>1, <1>2, <2>1 DEF NoTwice, OneEach, Distinct
    <2>4. CASE deferred_task[w] = NoTask
      <3>1. Deferred' = Deferred /\ dropped' = dropped
        BY <1>2, <1>4, <2>1, <2>4
      <3> QED
        BY <1>1, <1>5, <2>2, <2>3, <3>1 DEF PlaceStep, Quiet, Elsewhere
    <2>5. CASE deferred_task[w] # NoTask
      <3>1. deferred_task[w] \notin Queued /\ dropped' = dropped \cup {deferred_task[w]}
        BY <1>3, <2>1, <2>5 DEF OnePlace
      <3>2. stopping_' = TRUE
        BY <1>1, <1>7, <2>5 DEF TypeOK
      <3>3. Discards({deferred_task[w]})
        BY <1>1, <1>2, <1>3, <1>5, <2>2, <2>5, <3>1, <3>2 DEF Discards
      <3>4. {deferred_task[w]} \in SUBSET Tasks
        BY <1>3, <2>5
      <3> QED
        BY <2>3, <3>3, <3>4 DEF PlaceStep
    <2> QED
      BY <2>4, <2>5
  <1> QED
    BY <1>6, <1>7

(* operator() refuses a new task, runs it, or puts it into a free slot or  *)
(* on its way to the queue.                                                *)
LEMMA SubmitPlaces ==
  ASSUME PInv, NEW th \in Threads, NEW kind \in Kinds, NEW t \in Tasks,
         Submit(th, kind, t)
  PROVE  NoTwice' /\ PlaceStep
  <1> USE DEF PInv, IInv
  <1>1. /\ t \in Tasks \ submitted /\ submitted' = submitted \cup {t} /\ call[th] = NoTask
        /\ UNCHANGED <<tasks_, stopping_, finished>>
    BY DEF Submit, MayCall
  <1>2. t \notin Queued /\ t \notin Deferred /\ t \notin Calling /\ t \notin Running
    BY <1>1 DEF OnePlace
  <1>3. CASE stopping_
    <2>1. dropped' = dropped \cup {t} /\ UNCHANGED <<stack, deferred_task, call>>
      BY <1>3 DEF Submit
    <2>2. NoTwice'
      BY <1>1, <2>1 DEF NoTwice, OneEach, Distinct
    <2>3. Refuses(t)
      BY <1>1, <1>3, <2>1, SamePlaces DEF Refuses
    <2> QED
      BY <2>2, <2>3 DEF PlaceStep
  <1>4. CASE /\ ~stopping_ /\ th \in Workers
             /\ stack' = [stack EXCEPT ![th] = <<t>> \o stack[th]]
             /\ UNCHANGED <<deferred_task, call, dropped>>
    <2>1. /\ Running' = Running \cup {t}
          /\ \A v \in Workers : Distinct(stack'[v])
          /\ \A u, v \in Workers : u # v => Elements(stack'[u]) \cap Elements(stack'[v]) = {}
      BY <1>2, <1>4, StackPushed
    <2>2. NoTwice'
      BY <1>1, <1>4, <2>1 DEF NoTwice, OneEach, Distinct
    <2>3. Accepts(t)
      BY <1>1, <1>4, <2>1, SamePlaces DEF Accepts
    <2> QED
      BY <2>2, <2>3 DEF PlaceStep
  <1>5. CASE /\ ~stopping_ /\ th \in Workers /\ deferred_task[th] = NoTask
             /\ deferred_task' = [deferred_task EXCEPT ![th] = t]
             /\ UNCHANGED <<stack, call, dropped>>
    <2>1. Deferred' = Deferred \cup {t} /\ OneEach(deferred_task', Workers)
      <3>1. deferred_task \in [Workers -> Tasks \cup {NoTask}] /\ OneEach(deferred_task, Workers)
        BY DEF TypeOK, NoTwice
      <3>2. /\ Held([deferred_task EXCEPT ![th] = t], Workers)
                 = Held(deferred_task, Workers) \cup {t}
            /\ OneEach([deferred_task EXCEPT ![th] = t], Workers)
        BY <1>2, <1>5, <3>1, PlaceFilled DEF Deferred
      <3> QED
        BY <1>5, <3>2 DEF Deferred
    <2>2. NoTwice'
      BY <1>1, <1>5, <2>1 DEF NoTwice, OneEach, Distinct
    <2>3. Accepts(t)
      BY <1>1, <1>5, <2>1, SamePlaces DEF Accepts
    <2> QED
      BY <2>2, <2>3 DEF PlaceStep
  <1>6. CASE ~stopping_ /\ call' = [call EXCEPT ![th] = t]
             /\ UNCHANGED <<stack, deferred_task, dropped>>
    <2>1. Calling' = Calling \cup {t} /\ OneEach(call', Threads)
      <3>1. call \in [Threads -> Tasks \cup {NoTask}] /\ OneEach(call, Threads)
        BY DEF TypeOK, NoTwice
      <3>2. /\ Held([call EXCEPT ![th] = t], Threads) = Held(call, Threads) \cup {t}
            /\ OneEach([call EXCEPT ![th] = t], Threads)
        BY <1>1, <1>2, <3>1, PlaceFilled DEF Calling
      <3> QED
        BY <1>6, <3>2 DEF Calling
    <2>2. NoTwice'
      BY <1>1, <1>6, <2>1 DEF NoTwice, OneEach, Distinct
    <2>3. Accepts(t)
      BY <1>1, <1>6, <2>1, SamePlaces DEF Accepts
    <2> QED
      BY <2>2, <2>3 DEF PlaceStep
  <1> QED
    BY <1>3, <1>4, <1>5, <1>6 DEF Submit, UsesSlot, EffectiveKind

(* The critical section of operator() takes the task to the queue. *)
LEMMA EnqueuePlaces ==
  ASSUME PInv, NEW th \in Threads, Enqueue(th)
  PROVE  NoTwice' /\ PlaceStep
  <1> USE DEF PInv, IInv
  <1>1. /\ call[th] # NoTask
        /\ tasks_' = Append(tasks_, call[th])
        /\ call' = [call EXCEPT ![th] = NoTask]
        /\ UNCHANGED <<stopping_, stack, deferred_task, submitted, finished, dropped>>
    BY DEF Enqueue
  <1>2. call[th] \in Calling /\ call[th] \in Tasks
    BY <1>1 DEF Calling, Held, TypeOK
  <1>3. call[th] \notin Queued
    BY <1>2 DEF OnePlace
  <1>4. Queued' = Queued \cup {call[th]} /\ Distinct(tasks_')
    BY <1>1, <1>2, <1>3, AppendDistinct DEF Queued, NoTwice, TypeOK
  <1>5. Calling' = Calling \ {call[th]} /\ OneEach(call', Threads)
    <2>1. call \in [Threads -> Tasks \cup {NoTask}] /\ OneEach(call, Threads)
      BY DEF TypeOK, NoTwice
    <2>2. /\ Held([call EXCEPT ![th] = NoTask], Threads) = Held(call, Threads) \ {call[th]}
          /\ OneEach([call EXCEPT ![th] = NoTask], Threads)
      BY <2>1, PlaceCleared
    <2> QED
      BY <1>1, <2>2 DEF Calling
  <1>6. NoTwice'
    BY <1>1, <1>4, <1>5 DEF NoTwice, OneEach, Distinct
  <1>7. Hands(call[th])
    BY <1>1, <1>2, <1>4, <1>5, SamePlaces DEF Hands, Elsewhere
  <1> QED
    BY <1>2, <1>6, <1>7 DEF PlaceStep

(* stop() and the destructor destroy what is queued, and only once         *)
(* stopping_ is set.                                                       *)
LEMMA ClearPlaces ==
  ASSUME PInv, tasks_' = <<>>, dropped' = dropped \cup Elements(tasks_), stopping_' = TRUE,
         UNCHANGED <<stack, deferred_task, call, submitted, finished>>
  PROVE  NoTwice' /\ PlaceStep
  <1> USE DEF PInv, IInv
  <1>1. Queued' = {} /\ Distinct(tasks_')
    BY ShortLists DEF Queued
  <1>2. NoTwice'
    BY <1>1 DEF NoTwice, OneEach, Distinct
  <1>3. Queued \in SUBSET Tasks
    BY ElementsAreTasks DEF Queued, TypeOK
  <1>4. Deferred \cap Queued = {}
    BY DEF OnePlace
  <1>5. Discards(Queued)
    BY <1>1, <1>4, SamePlaces DEF Discards, Queued
  <1> QED
    BY <1>2, <1>3, <1>5 DEF PlaceStep

(* The steps of join() move no task; one of them sets stopping_. *)
LEMMA JoinPlaces ==
  ASSUME PInv, stopping_' = stopping_ \/ stopping_' = TRUE,
         UNCHANGED <<tasks_, stack, deferred_task, call, submitted, finished, dropped>>
  PROVE  NoTwice' /\ PlaceStep
  <1>1. NoTwice'
    BY DEF PInv, NoTwice, OneEach, Distinct
  <1>2. UNCHANGED <<Queued, Deferred, Calling, Running>>
    BY SamePlaces
  <1>3. CASE stopping_' = stopping_
    BY <1>1, <1>2, <1>3 DEF PlaceStep, Quiet, Elsewhere
  <1>4. CASE stopping_' = TRUE
    <2>1. Discards({})
      BY <1>2, <1>4 DEF Discards
    <2> QED
      BY <1>1, <2>1 DEF PlaceStep
  <1> QED
    BY <1>3, <1>4

(* Every step is one of the seven, and keeps NoTwice. *)
LEMMA StepPlaces == PInv /\ [Next]_vars => NoTwice' /\ PlaceStep
  <1> SUFFICES ASSUME PInv, [Next]_vars PROVE NoTwice' /\ PlaceStep
    OBVIOUS
  <1>1. ASSUME NEW w \in Workers, Wake(w) \/ Relock(w) PROVE NoTwice' /\ PlaceStep
    <2>1. CASE Wake(w)
      BY <2>1, LoopPlaces DEF Wake, Elsewhere
    <2>2. CASE Relock(w)
      BY <2>2, LoopPlaces DEF Relock, Elsewhere
    <2> QED
      BY <1>1, <2>1, <2>2
  <1>2. ASSUME NEW w \in Workers, SpuriousWake(w) PROVE NoTwice' /\ PlaceStep
    BY <1>2, JoinPlaces DEF SpuriousWake
  <1>3. ASSUME NEW w \in Workers, Return(w) PROVE NoTwice' /\ PlaceStep
    BY <1>3, ReturnPlaces
  <1>4. ASSUME NEW w \in Workers, Continue(w) PROVE NoTwice' /\ PlaceStep
    BY <1>4, ContinuePlaces
  <1>5. ASSUME NEW th \in Threads, NEW kind \in Kinds, NEW t \in Tasks,
               Submit(th, kind, t)
        PROVE  NoTwice' /\ PlaceStep
    BY <1>5, SubmitPlaces
  <1>6. ASSUME NEW th \in Threads, Enqueue(th) PROVE NoTwice' /\ PlaceStep
    BY <1>6, EnqueuePlaces
  <1>7. ASSUME NEW th \in Threads, stop(th) PROVE NoTwice' /\ PlaceStep
    BY <1>7, ClearPlaces DEF stop
  <1>8. CASE JoinBegin \/ JoinWake \/ SpuriousJoinWake
    BY <1>8, JoinPlaces DEF JoinBegin, JoinWake, SpuriousJoinWake, AwaitIdle
  <1>9. CASE Destroy
    <2>1. stopping_' = TRUE
      BY <1>9 DEF Destroy, PInv, HoldersAlive, IInv, TypeOK
    <2> QED
      BY <1>9, <2>1, ClearPlaces DEF Destroy
  <1>10. CASE UNCHANGED vars
    BY <1>10, JoinPlaces DEF vars
  <1> QED
    BY <1>1, <1>2, <1>3, <1>4, <1>5, <1>6, <1>7, <1>8, <1>9, <1>10 DEF Next, Terminated

-----------------------------------------------------------------------------
(* Who may hold a task. *)

(* A worker's critical section: it holds no task before, and the pool is   *)
(* not destroyed.                                                          *)
LEMMA LoopHolders ==
  ASSUME PInv, NEW w \in Workers, NEW n, Loop(w, n), wpc[w] \in {"ready", "finishing"},
         UNCHANGED <<stopping_, deferred_task, call>>,
         owner' = owner \/ (owner = "waiting" /\ owner' = "ready")
  PROVE  HoldersAlive'
  <1> USE DEF PInv, IInv
  <1>1. stack[w] = <<>> /\ deferred_task[w] = NoTask /\ call[w] = NoTask
    BY DEF StackMeansRunning, HoldersAlive
  <1>2. owner # "destroyed" /\ owner' # "destroyed"
    BY DEF HoldersAlive, AllJoined
  <1>3. \A v \in Workers : v # w => wpc'[v] = wpc[v] /\ stack'[v] = stack[v]
    BY DEF Loop, TypeOK
  <1> QED
    BY <1>1, <1>2, <1>3 DEF HoldersAlive

(* Steps in which the workers and the owner stay where they are, or only   *)
(* wake up, and no call or slot is filled.                                 *)
LEMMA QuietHolders ==
  ASSUME PInv, UNCHANGED <<stopping_, owner, deferred_task, call, stack>>,
         owner = "destroyed" => UNCHANGED <<wpc, tasks_>>,
         \A w \in Workers : wpc[w] = "running" => wpc'[w] = "running"
  PROVE  HoldersAlive'
  BY DEF PInv, HoldersAlive, AllJoined

(* A thread that may call the pool, or is inside it, finds it not destroyed. *)
LEMMA CallerHolds ==
  ASSUME PInv, NEW th \in Threads, MayCall(th) \/ call[th] # NoTask
  PROVE  /\ owner # "destroyed"
         /\ th \in Workers => stack[th] # <<>> /\ wpc[th] = "running"
         /\ th \notin Workers => owner = "idle"
  <1>1. th \in Workers => stack[th] # <<>>
    BY DEF MayCall, PInv, HoldersAlive
  <1>2. th \in Workers => wpc[th] = "running"
    BY <1>1 DEF PInv, IInv, StackMeansRunning
  <1>3. th \notin Workers => owner = "idle"
    BY DEF MayCall, PInv, HoldersAlive, Threads
  <1>4. owner = "destroyed" => th \notin Workers
    BY <1>2 DEF PInv, HoldersAlive, AllJoined
  <1> QED
    BY <1>1, <1>2, <1>3, <1>4

(* A call of operator() keeps HoldersAlive. *)
LEMMA SubmitHolders ==
  ASSUME PInv, NEW th \in Threads, NEW kind \in Kinds, NEW t \in Tasks,
         Submit(th, kind, t)
  PROVE  HoldersAlive'
  <1>1. /\ owner # "destroyed"
        /\ th \in Workers => stack[th] # <<>> /\ wpc[th] = "running"
        /\ th \notin Workers => owner = "idle"
    BY CallerHolds DEF Submit
  <1>2. UNCHANGED <<tasks_, stopping_, wpc, owner>>
    BY DEF Submit
  <1>3. \A w \in Workers : deferred_task'[w] # NoTask => deferred_task[w] # NoTask \/ w = th
    BY DEF Submit, PInv, IInv, TypeOK
  <1>4. \A x \in Threads : call'[x] # NoTask => call[x] # NoTask \/ x = th
    BY DEF Submit, PInv, IInv, TypeOK
  <1>5. \A w \in Workers : stack[w] # <<>> => stack'[w] # <<>>
    <2>1. CASE stack' = stack
      BY <2>1
    <2>2. CASE th \in Workers /\ stack' = [stack EXCEPT ![th] = <<t>> \o stack[th]]
      <3>1. <<t>> \o stack[th] # <<>>
        BY <2>2 DEF PInv, IInv, TypeOK
      <3> QED
        BY <2>2, <3>1 DEF PInv, IInv, TypeOK
    <2> QED
      BY <2>1, <2>2 DEF Submit, EffectiveKind
  <1>6. \A w \in Workers : deferred_task'[w] # NoTask => wpc'[w] = "running"
    BY <1>1, <1>2, <1>3 DEF PInv, HoldersAlive
  <1>7. \A w \in Workers : call'[w] # NoTask => stack'[w] # <<>>
    BY <1>1, <1>4, <1>5 DEF PInv, HoldersAlive, Threads
  <1>8. owner' # "idle" => \A c \in Clients : call'[c] = NoTask
    BY <1>1, <1>2, <1>4, ThreadsAssumption DEF PInv, HoldersAlive, Threads
  <1> QED
    BY <1>1, <1>2, <1>6, <1>7, <1>8 DEF PInv, HoldersAlive

(* Every step keeps HoldersAlive. *)
LEMMA StepHolders == PInv /\ [Next]_vars => HoldersAlive'
  <1> SUFFICES ASSUME PInv, [Next]_vars PROVE HoldersAlive'
    OBVIOUS
  <1>1. ASSUME NEW w \in Workers, Wake(w) \/ Relock(w) PROVE HoldersAlive'
    <2>1. CASE Wake(w)
      BY <2>1, LoopHolders DEF Wake
    <2>2. CASE Relock(w)
      BY <2>2, LoopHolders DEF Relock, Release, NotifyOwner
    <2> QED
      BY <1>1, <2>1, <2>2
  <1>2. ASSUME NEW w \in Workers, SpuriousWake(w) PROVE HoldersAlive'
    <2>1. owner # "destroyed"
      BY <1>2 DEF SpuriousWake, PInv, HoldersAlive, AllJoined
    <2>2. \A v \in Workers : wpc[v] = "running" => wpc'[v] = "running"
      BY <1>2 DEF SpuriousWake, PInv, IInv, TypeOK
    <2> QED
      BY <1>2, <2>1, <2>2, QuietHolders DEF SpuriousWake
  <1>3. ASSUME NEW w \in Workers, Return(w) PROVE HoldersAlive'
    <2>1. \A v \in Workers : call[v] # NoTask => stack'[v] = stack[v]
      BY <1>3 DEF Return, PInv, IInv, TypeOK
    <2> QED
      BY <1>3, <2>1 DEF Return, PInv, HoldersAlive, AllJoined
  <1>4. ASSUME NEW w \in Workers, Continue(w) PROVE HoldersAlive'
    <2>1. owner # "destroyed" /\ call[w] = NoTask
      BY <1>4 DEF Continue, PInv, HoldersAlive, AllJoined
    <2>2. \A v \in Workers : v # w => /\ deferred_task'[v] = deferred_task[v]
                                      /\ stack'[v] = stack[v] /\ wpc'[v] = wpc[v]
      BY <1>4 DEF Continue, PInv, IInv, TypeOK
    <2>3. deferred_task'[w] = NoTask
      BY <1>4 DEF Continue, PInv, IInv, TypeOK
    <2>4. UNCHANGED <<tasks_, stopping_, call, owner>>
      BY <1>4 DEF Continue
    <2> QED
      BY <2>1, <2>2, <2>3, <2>4 DEF PInv, HoldersAlive
  <1>5. ASSUME NEW th \in Threads, NEW kind \in Kinds, NEW t \in Tasks,
               Submit(th, kind, t)
        PROVE  HoldersAlive'
    BY <1>5, SubmitHolders
  <1>6. ASSUME NEW th \in Threads, Enqueue(th) PROVE HoldersAlive'
    <2>1. owner # "destroyed"
      BY <1>6, CallerHolds DEF Enqueue
    <2>2. \A v \in Workers : wpc[v] = "running" => wpc'[v] = "running"
      BY <1>6 DEF Enqueue, NotifyOneWorker, WorkersAt, PInv, IInv, TypeOK
    <2>3. \A x \in Threads : call'[x] # NoTask => call[x] # NoTask
      BY <1>6 DEF Enqueue, PInv, IInv, TypeOK
    <2>4. UNCHANGED <<stopping_, stack, deferred_task, owner>>
      BY <1>6 DEF Enqueue
    <2> QED
      BY <2>1, <2>2, <2>3, <2>4 DEF PInv, HoldersAlive, Threads
  <1>7. ASSUME NEW th \in Threads, stop(th) PROVE HoldersAlive'
    <2>1. owner # "destroyed"
      BY <1>7, CallerHolds DEF stop
    <2>2. \A v \in Workers : wpc[v] = "running" => wpc'[v] = "running"
      BY <1>7 DEF stop, NotifyAllWorkers
    <2>3. stopping_' = TRUE /\ UNCHANGED <<stack, deferred_task, call, owner>>
      BY <1>7 DEF stop
    <2> QED
      BY <2>1, <2>2, <2>3 DEF PInv, HoldersAlive
  <1>8. CASE JoinBegin \/ JoinWake \/ SpuriousJoinWake
    <2>1. \A v \in Workers : wpc[v] = "running" => wpc'[v] = "running"
      BY <1>8 DEF JoinBegin, JoinWake, SpuriousJoinWake, AwaitIdle, NotifyAllWorkers
    <2>2. UNCHANGED <<stack, deferred_task, call>>
      BY <1>8 DEF JoinBegin, JoinWake, SpuriousJoinWake
    <2>3. \A c \in Clients : call[c] = NoTask
      BY <1>8 DEF JoinBegin, JoinWake, SpuriousJoinWake, PInv, HoldersAlive
    <2>4. owner' # "destroyed" /\ (owner' = "joining" => stopping_')
      BY <1>8 DEF JoinBegin, JoinWake, SpuriousJoinWake, AwaitIdle
    <2> QED
      BY <2>1, <2>2, <2>3, <2>4 DEF PInv, HoldersAlive
  <1>9. CASE Destroy
    BY <1>9 DEF Destroy, PInv, HoldersAlive, AllJoined
  <1>10. CASE UNCHANGED vars
    BY <1>10, QuietHolders DEF vars
  <1> QED
    BY <1>1, <1>2, <1>3, <1>4, <1>5, <1>6, <1>7, <1>8, <1>9, <1>10 DEF Next, Terminated

-----------------------------------------------------------------------------

(* A new pool holds no task. *)
LEMMA InitPlaces ==
  ASSUME Init
  PROVE  Queued = {} /\ Deferred = {} /\ Calling = {} /\ Running = {}
  <1>1. Queued = {}
    BY ShortLists DEF Init, Queued
  <1>2. Deferred = {} /\ Calling = {}
    BY DEF Init, Deferred, Calling, Held
  <1>3. \A w \in Workers : Elements(stack[w]) = {}
    BY ShortLists DEF Init
  <1>4. Running = {}
    BY <1>3 DEF Running
  <1> QED
    BY <1>1, <1>2, <1>4

(* A new pool satisfies the invariant. *)
LEMMA InitPInv == Init => PInv
  <1> SUFFICES ASSUME Init PROVE PInv
    OBVIOUS
  <1>1. IInv
    BY InitInv
  <1>2. NoTwice
    <2>1. Distinct(<<>>) /\ Elements(<<>>) = {}
      BY ShortLists
    <2> QED
      BY <2>1 DEF Init, NoTwice, OneEach
  <1>3. OnePlace
    BY InitPlaces DEF Init, OnePlace
  <1>4. HoldersAlive
    BY DEF Init, HoldersAlive, Threads
  <1> QED
    BY <1>1, <1>2, <1>3, <1>4 DEF PInv

(* Every step of every thread keeps it. *)
LEMMA NextPInv == PInv /\ [Next]_vars => PInv'
  BY NextInv, StepPlaces, StepHolders, PlaceStepInv DEF PInv

(* The inductive invariant holds of every behaviour of the pool. *)
THEOREM PlacesInvariance == Spec => []PInv
  BY InitPInv, NextPInv, PTL DEF Spec

-----------------------------------------------------------------------------

(* A list of distinct tasks has as many tasks as positions. *)
LEMMA DistinctCardinality ==
  ASSUME NEW s \in Seq(Tasks), Distinct(s)
  PROVE  Cardinality(Elements(s)) = Len(s)
  <1> DEFINE f == [i \in 1..Len(s) |-> s[i]]
  <1>1. Len(s) \in Nat
    OBVIOUS
  <1>2. f \in [1..Len(s) -> Elements(s)]
    BY DEF Elements
  <1>3. \A i, j \in 1..Len(s) : f[i] = f[j] => i = j
    BY DEF Distinct
  <1>4. \A x \in Elements(s) : \E i \in 1..Len(s) : f[i] = x
    BY DEF Elements
  <1>5. f \in Bijection(1..Len(s), Elements(s))
    BY <1>2, <1>3, <1>4, Fun_IsBij
  <1>6. ExistsBijection(1..Len(s), Elements(s))
    BY <1>5 DEF ExistsBijection
  <1> QED
    BY <1>1, <1>6, FS_CountingElements

(* The tasks that wait are those of the queue, the slots and the calls. *)
LEMMA PendingPlaces ==
  /\ TypeOK => Pending = Queued \cup Deferred \cup Calling
  /\ TypeOK' => Pending' = Queued' \cup Deferred' \cup Calling'
  <1>1. ASSUME TypeOK PROVE Pending = Queued \cup Deferred \cup Calling
    <2>1. NoTask \notin Elements(tasks_)
      BY <1>1, ElementsAreTasks, NoTaskAssumption DEF TypeOK
    <2> QED
      BY <2>1 DEF Pending, Queued, Deferred, Calling, Held
  <1>2. ASSUME TypeOK' PROVE Pending' = Queued' \cup Deferred' \cup Calling'
    <2>1. NoTask \notin Elements(tasks_')
      BY <1>2, ElementsAreTasks, NoTaskAssumption DEF TypeOK
    <2> QED
      BY <2>1 DEF Pending, Queued, Deferred, Calling, Held
  <1> QED
    BY <1>1, <1>2

(* Every task ever passed to operator() is waiting, running, finished or   *)
(* destroyed unrun, in one place and once, for any number of workers,      *)
(* clients and tasks; the destroyed pool holds none.                       *)
THEOREM ConservationCorrect == Spec => []Conservation
  <1>1. ASSUME PInv PROVE Conservation
    <2> USE <1>1 DEF PInv, IInv
    <2>1. Pending = Queued \cup Deferred \cup Calling
      BY PendingPlaces
    <2>2. /\ submitted = Pending \cup Running \cup finished \cup dropped
          /\ Pending \cap Running = {}
          /\ (Pending \cup Running) \cap (finished \cup dropped) = {}
          /\ finished \cap dropped = {}
      BY <2>1 DEF OnePlace
    <2>3. Cardinality(Elements(tasks_)) = Len(tasks_)
      BY DistinctCardinality DEF TypeOK, NoTwice
    <2>4. ASSUME owner = "destroyed"
          PROVE  (\A w \in Workers : wpc[w] = "exited") /\ Pending \cup Running = {}
      <3>1. \A w \in Workers : wpc[w] = "exited"
        BY <2>4 DEF HoldersAlive, AllJoined
      <3>2. \A w \in Workers : deferred_task[w] = NoTask /\ stack[w] = <<>>
        BY <3>1 DEF HoldersAlive, StackMeansRunning
      <3>3. \A th \in Threads : call[th] = NoTask
        BY <2>4, <3>2 DEF HoldersAlive, Threads
      <3>4. Queued = {}
        BY <2>4, ShortLists DEF HoldersAlive, Queued
      <3>5. Deferred = {} /\ Calling = {}
        BY <3>2, <3>3 DEF Deferred, Calling, Held
      <3>6. \A w \in Workers : Elements(stack[w]) = {}
        BY <3>2, ShortLists
      <3>7. Running = {}
        BY <3>6 DEF Running
      <3> QED
        BY <2>1, <3>1, <3>4, <3>5, <3>7
    <2> QED
      BY <2>2, <2>3, <2>4 DEF Conservation
  <1> QED
    BY <1>1, PlacesInvariance, PTL

-----------------------------------------------------------------------------
(* The refinement. *)

(* The status of a task is where it is. *)
LEMMA StatusNow ==
  ASSUME TypeOK, OnePlace, NEW t \in Tasks
  PROVE  /\ t \in finished => StatusOf(t) = "finished"
         /\ t \in dropped => StatusOf(t) = "discarded"
         /\ t \in Running => StatusOf(t) = "running"
         /\ t \in Queued \cup Deferred \cup Calling => StatusOf(t) = "pending"
         /\ t \notin submitted => StatusOf(t) = "new"
  <1>1. Pending = Queued \cup Deferred \cup Calling
    BY PendingPlaces
  <1> QED
    BY <1>1 DEF StatusOf, OnePlace

(* The same after the step. *)
LEMMA StatusThen ==
  ASSUME TypeOK', OnePlace', NEW t \in Tasks
  PROVE  /\ t \in finished' => StatusOf(t)' = "finished"
         /\ t \in dropped' => StatusOf(t)' = "discarded"
         /\ t \in Running' => StatusOf(t)' = "running"
         /\ t \in Queued' \cup Deferred' \cup Calling' => StatusOf(t)' = "pending"
         /\ t \notin submitted' => StatusOf(t)' = "new"
  <1>1. Pending' = Queued' \cup Deferred' \cup Calling'
    BY PendingPlaces
  <1> QED
    BY <1>1 DEF StatusOf, OnePlace

(* A task that a step leaves where it is keeps its status. *)
LEMMA StatusKept ==
  ASSUME TypeOK, TypeOK', NEW t \in Tasks,
         t \in finished' <=> t \in finished,
         t \in dropped' <=> t \in dropped,
         t \in Running' <=> t \in Running,
         t \in Queued' \cup Deferred' \cup Calling' <=> t \in Queued \cup Deferred \cup Calling
  PROVE  StatusOf(t)' = StatusOf(t)
  BY PendingPlaces DEF StatusOf

(* One task changes its status, no other does: the step of the executor    *)
(* that moves that task.                                                   *)
LEMMA ExecutorMove ==
  ASSUME NEW t \in Tasks, NEW from, NEW to,
         StatusOf(t) = from, StatusOf(t)' = to,
         \A u \in Tasks \ {t} : StatusOf(u)' = StatusOf(u)
  PROVE  Executor!Move(t, from, to)
  BY DEF Executor!Move

(* Every change of place is a step of the executor, or none. *)
LEMMA PlaceStepRefines ==
  ASSUME TypeOK, TypeOK', OnePlace, OnePlace', PlaceStep
  PROVE  [Executor!ExecutorNext]_<<[t \in Tasks |-> StatusOf(t)], stopping_>>
  <1>1. CASE Quiet
    <2>1. \A t \in Tasks : StatusOf(t)' = StatusOf(t)
      BY <1>1, StatusKept DEF Quiet, Elsewhere
    <2>2. stopping_' = stopping_
      BY <1>1 DEF Quiet, Elsewhere
    <2> QED
      BY <2>1, <2>2
  <1>2. ASSUME NEW t \in Tasks, Hands(t)
        PROVE  UNCHANGED <<[u \in Tasks |-> StatusOf(u)], stopping_>>
    <2>1. \A u \in Tasks : StatusOf(u)' = StatusOf(u)
      BY <1>2, StatusKept DEF Hands, Elsewhere
    <2>2. stopping_' = stopping_
      BY <1>2 DEF Hands, Elsewhere
    <2> QED
      BY <2>1, <2>2
  <1>3. ASSUME NEW t \in Tasks, Starts(t) PROVE Executor!Start(t)
    <2>1. StatusOf(t) = "pending" /\ StatusOf(t)' = "running"
      BY <1>3, StatusNow, StatusThen DEF Starts
    <2>2. \A u \in Tasks \ {t} : StatusOf(u)' = StatusOf(u)
      BY <1>3, StatusKept DEF Starts, Elsewhere
    <2>3. Executor!Move(t, "pending", "running")
      BY <2>1, <2>2, ExecutorMove
    <2> QED
      BY <1>3, <2>3 DEF Executor!Start, Starts, Elsewhere
  <1>4. ASSUME NEW t \in Tasks, Finishes(t) PROVE Executor!Finish(t)
    <2>1. StatusOf(t) = "running" /\ StatusOf(t)' = "finished"
      BY <1>4, StatusNow, StatusThen DEF Finishes
    <2>2. \A u \in Tasks \ {t} : StatusOf(u)' = StatusOf(u)
      BY <1>4, StatusKept DEF Finishes
    <2>3. Executor!Move(t, "running", "finished")
      BY <2>1, <2>2, ExecutorMove
    <2> QED
      BY <1>4, <2>3 DEF Executor!Finish, Finishes
  <1>5. ASSUME NEW t \in Tasks, Accepts(t)
        PROVE  Executor!Accept(t) \/ Executor!RunInCaller(t)
    <2>1. StatusOf(t) = "new"
      BY <1>5, StatusNow DEF Accepts
    <2>2. \A u \in Tasks \ {t} : StatusOf(u)' = StatusOf(u)
      BY <1>5, StatusKept DEF Accepts
    <2>3. ~stopping_ /\ stopping_' = stopping_
      BY <1>5 DEF Accepts
    <2>4. CASE t \in Running'
      <3>1. StatusOf(t)' = "running"
        BY <2>4, StatusThen
      <3>2. Executor!Move(t, "new", "running")
        BY <2>1, <2>2, <3>1, ExecutorMove
      <3> QED
        BY <2>3, <3>2 DEF Executor!RunInCaller
    <2>5. CASE t \notin Running'
      <3>1. t \in Deferred' \cup Calling'
        BY <1>5, <2>5 DEF Accepts
      <3>2. StatusOf(t)' = "pending"
        BY <3>1, StatusThen
      <3>3. Executor!Move(t, "new", "pending")
        BY <2>1, <2>2, <3>2, ExecutorMove
      <3> QED
        BY <2>3, <3>3 DEF Executor!Accept
    <2> QED
      BY <2>4, <2>5
  <1>6. ASSUME NEW t \in Tasks, Refuses(t) PROVE Executor!Refuse(t)
    <2>1. StatusOf(t) = "new" /\ StatusOf(t)' = "discarded"
      BY <1>6, StatusNow, StatusThen DEF Refuses
    <2>2. \A u \in Tasks \ {t} : StatusOf(u)' = StatusOf(u)
      BY <1>6, StatusKept DEF Refuses
    <2>3. Executor!Move(t, "new", "discarded")
      BY <2>1, <2>2, ExecutorMove
    <2> QED
      BY <1>6, <2>3 DEF Executor!Refuse, Refuses
  <1>7. ASSUME NEW S \in SUBSET Tasks, Discards(S) PROVE Executor!Close
    <2>1. \A t \in S : StatusOf(t) = "pending"
      BY <1>7, StatusNow DEF Discards
    <2>2. \A t \in S : StatusOf(t)' = "discarded"
      BY <1>7, StatusThen DEF Discards
    <2>3. \A t \in Tasks \ S : StatusOf(t)' = StatusOf(t)
      BY <1>7, StatusKept DEF Discards
    <2>4. stopping_' = TRUE
      BY <1>7 DEF Discards
    <2>5. S \in SUBSET {t \in Tasks : [u \in Tasks |-> StatusOf(u)][t] = "pending"}
      BY <2>1
    <2>6. [u \in Tasks |-> StatusOf(u)]'
            = [t \in Tasks |-> IF t \in S THEN "discarded"
                                          ELSE [u \in Tasks |-> StatusOf(u)][t]]
      BY <2>2, <2>3
    <2> QED
      BY <2>4, <2>5, <2>6 DEF Executor!Close
  <1> QED
    BY <1>1, <1>2, <1>3, <1>4, <1>5, <1>6, <1>7 DEF PlaceStep, Executor!ExecutorNext

(* The pool implements the abstract executor: for any number of workers    *)
(* and clients, every step of any thread is one step of the life cycle of  *)
(* at most one task, or closes the executor, or is invisible to it.        *)
THEOREM Refinement == Spec => ImplementsExecutor
  <1>1. Init => Executor!ExecutorInit
    <2> SUFFICES ASSUME Init PROVE Executor!ExecutorInit
      OBVIOUS
    <2>1. TypeOK /\ OnePlace
      BY InitPInv DEF PInv, IInv
    <2>2. \A t \in Tasks : StatusOf(t) = "new"
      BY <2>1, StatusNow DEF Init
    <2> QED
      BY <2>2 DEF Executor!ExecutorInit, Init
  <1>2. PInv /\ PInv' /\ [Next]_vars
          => [Executor!ExecutorNext]_<<[t \in Tasks |-> StatusOf(t)], stopping_>>
    BY StepPlaces, PlaceStepRefines DEF PInv, IInv
  <1> QED
    BY <1>1, <1>2, PlacesInvariance, PTL DEF Spec, ImplementsExecutor, Executor!ExecutorSpec
=============================================================================
