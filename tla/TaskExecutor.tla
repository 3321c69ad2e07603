---------------------------- MODULE TaskExecutor ----------------------------
(***************************************************************************)
(* What a task executor promises its callers.  A task that is handed over  *)
(* is run at most once, by a step of its own, and ends either finished or  *)
(* discarded; once the executor is closed no task starts, and only then    *)
(* may a task be refused or discarded.                                     *)
(***************************************************************************)
CONSTANTS Tasks

VARIABLES
  status,   \* the life of every task
  closed    \* no task is accepted or started any more

Statuses == {"new", "pending", "running", "finished", "discarded"}

ExecutorInit ==
  /\ status = [t \in Tasks |-> "new"]
  /\ closed = FALSE

(* A task changes from one status to another. *)
Move(t, from, to) ==
  /\ status[t] = from
  /\ status' = [status EXCEPT ![t] = to]

Accept(t) == ~closed /\ Move(t, "new", "pending") /\ UNCHANGED closed

RunInCaller(t) == ~closed /\ Move(t, "new", "running") /\ UNCHANGED closed

Refuse(t) == closed /\ Move(t, "new", "discarded") /\ UNCHANGED closed

Start(t) == ~closed /\ Move(t, "pending", "running") /\ UNCHANGED closed

Finish(t) == Move(t, "running", "finished") /\ UNCHANGED closed

(* Closing, or the clean-up after it, discards any tasks that wait. *)
Close ==
  \E D \in SUBSET {t \in Tasks : status[t] = "pending"} :
    /\ closed' = TRUE
    /\ status' = [t \in Tasks |-> IF t \in D THEN "discarded" ELSE status[t]]

ExecutorNext ==
  \/ \E t \in Tasks : Accept(t) \/ RunInCaller(t) \/ Refuse(t) \/ Start(t) \/ Finish(t)
  \/ Close

ExecutorSpec == ExecutorInit /\ [][ExecutorNext]_<<status, closed>>
=============================================================================
