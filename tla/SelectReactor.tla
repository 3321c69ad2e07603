--------------------------- MODULE SelectReactor ---------------------------
(***************************************************************************)
(* The reactor of the select server (select/src/select_reactor.cpp).       *)
(*                                                                         *)
(* One thread executes run(); any thread calls handle, close and stop.     *)
(* run() releases mutex_ only around select(), so what it does between     *)
(* locking mutex_ after one select() and unlocking it before the next is   *)
(* one action, Pass; each client call is one critical section, one action. *)
(*                                                                         *)
(* An operation on a descriptor is a key <<op, fd>>.  fd_sets_, events_    *)
(* and the masks given to and returned by select() are sets of keys.       *)
(* Descriptor 0 is the read end of the reactor's own pipe.                 *)
(***************************************************************************)
EXTENDS Naturals, FiniteSets

CONSTANTS
  Keys,         \* the operations clients wait for
  FD_SETSIZE,   \* the first number that does not fit an fd_set
  Owned,        \* descriptors whose registered handler is their last owner (sessions)
  Cancellable,  \* descriptors on which clients cancel or that they close early
  PipeCap       \* bytes the pipe holds

Ops == {"read", "write"}
Fds == {k[2] : k \in Keys}

ASSUME KeysAssumption == Keys \subseteq Ops \X (Nat \ {0})
ASSUME SetSizeAssumption == FD_SETSIZE \in Nat \ {0}
ASSUME OwnedAssumption == Owned \subseteq Fds /\ Cancellable \subseteq Fds
ASSUME PipeAssumption == PipeCap \in Nat \ {0}

VARIABLES
  events_,        \* keys that have an entry
  fd_sets_,       \* keys set in the masks
  to_be_closed_,  \* descriptors given to close()
  stopping_,
  pipe,           \* unread bytes in the pipe
  pc,             \* control of the thread in run()
  watched,        \* the copy of fd_sets_ given to select()
  mask,           \* what select() returned
  ready,          \* kernel: operations that would not block
  open,           \* kernel: open descriptors
  posted,         \* handlers given to the executor that have not returned
  cancelled,      \* history: keys removed without a call since their fd was opened
  dropped         \* history: keys of owned descriptors whose handlers stop destroyed

vars == <<events_, fd_sets_, to_be_closed_, stopping_, pipe, pc, watched, mask,
          ready, open, posted, cancelled, dropped>>

PipeKey == <<"read", 0>>
KeysOf(fd) == {k \in Keys : k[2] = fd}
FdsOf(K) == {k[2] : k \in K}

TypeOK ==
  /\ events_ \subseteq Keys \cup {PipeKey}
  /\ fd_sets_ \subseteq Keys \cup {PipeKey}
  /\ to_be_closed_ \subseteq Fds
  /\ stopping_ \in BOOLEAN
  /\ pipe \in 0..PipeCap
  /\ pc \in {"start", "select", "returned", "done", "failed"}
  /\ watched \subseteq Keys \cup {PipeKey}
  /\ mask \subseteq Keys \cup {PipeKey}
  /\ ready \subseteq Keys
  /\ open \subseteq Fds
  /\ posted \subseteq Keys
  /\ cancelled \subseteq Keys
  /\ dropped \subseteq Keys

Init ==
  /\ events_ = {PipeKey}
  /\ fd_sets_ = {PipeKey}
  /\ to_be_closed_ = {}
  /\ stopping_ = FALSE
  /\ pipe = 0
  /\ pc = "start"
  /\ watched = {}
  /\ mask = {}
  /\ ready = {}
  /\ open = Fds
  /\ posted = {}
  /\ cancelled = {}
  /\ dropped = {}

-----------------------------------------------------------------------------
(* The pipe. *)

(* Mutation: nothing is written. *)
NoInterrupt == UNCHANGED pipe

(* A write to a full pipe fails with EWOULDBLOCK, which is ignored. *)
interrupt_select == pipe' = IF pipe < PipeCap THEN pipe + 1 ELSE pipe

-----------------------------------------------------------------------------
(* The kernel, as far as run() uses it. *)

(* Operations that select() would report now. *)
Reportable == watched \cap (ready \cup {k \in {PipeKey} : pipe > 0})

(* select() returns once something it was asked about is ready. *)
SelectReturn ==
  /\ pc = "select"
  /\ Reportable # {}
  /\ pc' = "returned"
  /\ mask' = Reportable
  /\ UNCHANGED <<events_, fd_sets_, to_be_closed_, stopping_, pipe, watched, ready,
                 open, posted, cancelled, dropped>>

(* A signal interrupts a select() that has nothing to report: EINTR, no mask. *)
SelectInterrupted ==
  /\ pc = "select"
  /\ Reportable = {}
  /\ pc' = "returned"
  /\ mask' = {}
  /\ UNCHANGED <<events_, fd_sets_, to_be_closed_, stopping_, pipe, watched, ready,
                 open, posted, cancelled, dropped>>

(* Data arrives, or there is room to write again. *)
BecomesReady(k) ==
  /\ k[2] \in open
  /\ k \notin ready
  /\ ready' = ready \cup {k}
  /\ UNCHANGED <<events_, fd_sets_, to_be_closed_, stopping_, pipe, pc, watched, mask,
                 open, posted, cancelled, dropped>>

(* A descriptor number that is free is given out again. *)
Open(fd) ==
  /\ fd \notin open
  /\ open' = open \cup {fd}
  /\ cancelled' = cancelled \ KeysOf(fd)
  /\ UNCHANGED <<events_, fd_sets_, to_be_closed_, stopping_, pipe, pc, watched, mask,
                 ready, posted, dropped>>

(* The descriptors F are closed. *)
Closing(F) ==
  /\ open' = open \ F
  /\ ready' = {k \in ready : k[2] \notin F}

-----------------------------------------------------------------------------
(* run() *)

(* The order in which run() looks at a returned mask. *)
Before(j, k) ==
  \/ j[1] = "read" /\ k[1] = "write"
  \/ j[1] = k[1] /\ j[2] < k[2]

First(K) == CHOOSE k \in K : \A j \in K \ {k} : Before(k, j)

(* The copy of the masks, cut off at the largest number found in events_. *)
ToWatch(masks, entries) == {k \in masks : \E e \in entries : k[2] <= e[2]}

(* Entering select() for what is registered. *)
EnterSelect(masks, entries) ==
  /\ pc' = "select"
  /\ watched' = ToWatch(masks, entries)
  /\ mask' = {}

RunBegin ==
  /\ pc = "start"
  /\ EnterSelect(fd_sets_, events_)
  /\ UNCHANGED <<events_, fd_sets_, to_be_closed_, stopping_, pipe, ready, open, posted,
                 cancelled, dropped>>

MaskWithout(k) == fd_sets_ \ {k}

(* The body of the loops for one reported key: a missing entry throws, the *)
(* pipe is drained, a handler is erased and posted.  "--count" is not zero *)
(* after it when more keys were reported, and then the loops are left, so  *)
(* only the first key of a mask is ever looked at.                         *)
HandleReported(k) ==
  \/ /\ k \notin events_
     /\ pc' = "failed"
     /\ watched' = {}
     /\ mask' = {}
     /\ UNCHANGED <<events_, fd_sets_, pipe, posted>>
  \/ /\ k \in events_
     /\ k = PipeKey
     /\ pipe' = 0
     /\ EnterSelect(fd_sets_, events_)
     /\ UNCHANGED <<events_, fd_sets_, posted>>
  \/ /\ k \in events_
     /\ k # PipeKey
     /\ events_' = events_ \ {k}
     /\ fd_sets_' = MaskWithout(k)
     /\ posted' = posted \cup {k}
     /\ EnterSelect(fd_sets_', events_')
     /\ UNCHANGED pipe

(* From lock.lock() after select() to the next select(). *)
Pass ==
  /\ pc = "returned"
  /\ to_be_closed_' = {}
  /\ Closing(to_be_closed_)
  /\ \/ /\ stopping_
        /\ pc' = "done"
        /\ watched' = {}
        /\ mask' = {}
        /\ UNCHANGED <<events_, fd_sets_, pipe, posted>>
     \/ /\ ~stopping_
        /\ mask = {}
        /\ EnterSelect(fd_sets_, events_)
        /\ UNCHANGED <<events_, fd_sets_, pipe, posted>>
     \/ /\ ~stopping_
        /\ mask # {}
        /\ HandleReported(First(mask))
  /\ UNCHANGED <<stopping_, cancelled, dropped>>

-----------------------------------------------------------------------------
(* Calls of the clients. *)

(* The client still owns fd. *)
Holds(fd) == fd \in open \ to_be_closed_

(* Mutation: a new bit wakes nobody. *)
InterruptNever(k) == FALSE

InterruptNeeded(k) == k \notin fd_sets_

(* handle with a handler; a client waits for one event of a kind at a     *)
(* time.  A number that does not fit an fd_set throws.                     *)
handle(k) ==
  /\ Holds(k[2])
  /\ k \notin posted
  /\ k[2] < FD_SETSIZE
  /\ fd_sets_' = fd_sets_ \cup {k}
  /\ events_' = events_ \cup {k}
  /\ IF InterruptNeeded(k) THEN interrupt_select ELSE UNCHANGED pipe
  /\ UNCHANGED <<to_be_closed_, stopping_, pc, watched, mask, ready, open, posted,
                 cancelled, dropped>>

(* handle with an empty handler. *)
cancel(k) ==
  /\ k[2] \in Cancellable
  /\ Holds(k[2])
  /\ k \in fd_sets_
  /\ fd_sets_' = fd_sets_ \ {k}
  /\ events_' = events_ \ {k}
  /\ cancelled' = cancelled \cup {k}
  /\ UNCHANGED <<to_be_closed_, stopping_, pipe, pc, watched, mask, ready, open,
                 posted, dropped>>

(* Mutation: the descriptor is closed at once. *)
CloseNow(fd) ==
  /\ Closing({fd})
  /\ UNCHANGED to_be_closed_

(* fd is kept until run() has left the system call. *)
CloseLater(fd) ==
  /\ to_be_closed_' = to_be_closed_ \cup {fd}
  /\ UNCHANGED <<open, ready>>

(* close, after which no handler of fd may be running. *)
close(fd) ==
  /\ fd \in Cancellable
  /\ Holds(fd)
  /\ KeysOf(fd) \cap posted = {}
  /\ \/ /\ fd >= FD_SETSIZE
        /\ Closing({fd})
        /\ UNCHANGED <<events_, fd_sets_, to_be_closed_, pipe>>
     \/ /\ fd < FD_SETSIZE
        /\ events_' = events_ \ (KeysOf(fd) \cap fd_sets_)
        /\ fd_sets_' = fd_sets_ \ KeysOf(fd)
        /\ CloseLater(fd)
        /\ interrupt_select
  /\ UNCHANGED <<stopping_, pc, watched, mask, posted, cancelled, dropped>>

(* A handler returns; it may have used up what made it ready. *)
HandlerReturn(k) ==
  /\ k \in posted
  /\ posted' = posted \ {k}
  /\ \/ ready' = ready
     \/ ready' = ready \ {k}
  /\ UNCHANGED <<events_, fd_sets_, to_be_closed_, stopping_, pipe, pc, watched, mask,
                 open, cancelled, dropped>>

(* The owner of fd is destroyed and closes it without asking the reactor,  *)
(* as a session does: every handler it registered has been dispatched, or  *)
(* stop has destroyed those that were not.                                 *)
Destroy(fd) ==
  /\ Holds(fd)
  /\ KeysOf(fd) \cap (events_ \cup posted \cup cancelled) = {}
  /\ Closing({fd})
  /\ UNCHANGED <<events_, fd_sets_, to_be_closed_, stopping_, pipe, pc, watched, mask,
                 posted, cancelled, dropped>>

(* Descriptors that only registered handlers keep open: no other handler   *)
(* of the same owner is on its way.                                        *)
KeptByHandlers == {fd \in FdsOf(events_) \cap Owned : KeysOf(fd) \cap posted = {}}

(* stop, called once run() is under way: the handlers are destroyed, and   *)
(* with them what they own.                                                *)
stop ==
  /\ pc # "start"
  /\ Closing(KeptByHandlers)
  /\ events_' = {}
  /\ stopping_' = TRUE
  /\ interrupt_select
  /\ cancelled' = cancelled \cup {k \in events_ : k # PipeKey /\ k[2] \notin Owned}
  /\ dropped' = dropped \cup {k \in events_ : k[2] \in Owned}
  /\ UNCHANGED <<fd_sets_, to_be_closed_, pc, watched, mask, posted>>

-----------------------------------------------------------------------------

Next ==
  \/ RunBegin
  \/ SelectReturn
  \/ SelectInterrupted
  \/ Pass
  \/ \E k \in Keys : BecomesReady(k)
  \/ \E k \in Keys : handle(k)
  \/ \E k \in Keys : cancel(k)
  \/ \E k \in Keys : HandlerReturn(k)
  \/ \E fd \in Fds : Open(fd)
  \/ \E fd \in Fds : close(fd)
  \/ \E fd \in Fds : Destroy(fd)
  \/ stop

(* The kernel returns from a select() that has something to report, and    *)
(* the thread in run() gets mutex_.  Clients and signals owe nothing.      *)
Fairness == WF_vars(RunBegin) /\ WF_vars(SelectReturn) /\ WF_vars(Pass)

Spec == Init /\ [][Next]_vars

FairSpec == Spec /\ Fairness

-----------------------------------------------------------------------------
(* Safety. *)

(* Until stop(), the masks and the table of handlers agree, whatever calls *)
(* come between two passes.                                                *)
MasksMatchEvents == ~stopping_ => fd_sets_ = events_

(* No lost wake-up: while the thread is inside select(), whatever it does  *)
(* not know of yet (a new registration, a descriptor to be closed, the     *)
(* request to stop) has left a byte in the pipe, and select() watches the  *)
(* pipe.                                                                   *)
WakeupPending ==
  pc = "select" =>
    /\ PipeKey \in watched
    /\ \/ pipe > 0
       \/ ~stopping_ /\ to_be_closed_ = {} /\ fd_sets_ \subseteq watched

(* Descriptors that select() waits on, or has just reported, that have     *)
(* been closed since.                                                      *)
ClosedUnderSelect ==
  IF pc \in {"select", "returned"} THEN FdsOf(watched) \ (open \cup {0}) ELSE {}

(* A descriptor that select() waits on, or has just reported, is closed    *)
(* before the next pass in one way only: stop() destroyed its handler, and *)
(* with it the session that owned it.  Until stop(), none is closed under  *)
(* select(), whatever close(), cancelling and sessions that end do, so no  *)
(* number is given to somebody else before the mask has been read.         *)
WatchedStayOpen ==
  ClosedUnderSelect \subseteq IF stopping_ THEN FdsOf(dropped) ELSE {}

(* Liveness. *)

(* A handler that waits although its operation is possible. *)
Waiting(k) == k \in events_ /\ k \in ready /\ pc \notin {"done", "failed"}

(* A registered handler is called once its operation is possible. *)
HandlerCalled == \A k \in Keys : Waiting(k) ~> ~Waiting(k)

(* A handler whose operation stays possible is put off for ever only by    *)
(* keys that run() looks at before it: nothing else starves it, no matter  *)
(* when it was registered and how select() was interrupted.                *)
StarvedOnlyByEarlier ==
  \A k \in Keys :
    <>[]Waiting(k) => []<>(\E j \in mask : Before(j, k))

(* What was asked of run() while it may have been inside select() comes to *)
(* pass: after stop() it returns, and a descriptor given to close() is     *)
(* closed while it goes on.                                                *)
RequestsHonoured ==
  /\ stopping_ ~> pc \in {"done", "failed"}
  /\ \A fd \in Fds :
       fd \in to_be_closed_ ~> (fd \notin to_be_closed_ \/ pc \in {"done", "failed"})
=============================================================================
