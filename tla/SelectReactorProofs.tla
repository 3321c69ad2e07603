------------------------ MODULE SelectReactorProofs ------------------------
(***************************************************************************)
(* Proofs about SelectReactor, for any set of descriptors and any number   *)
(* of client calls.                                                        *)
(***************************************************************************)
EXTENDS SelectReactor, TLAPS

(* stop() is not called before run(). *)
StartedBeforeStop == pc = "start" => ~stopping_

(* The pipe is registered for as long as run() may enter select(). *)
PipeRegistered == ~stopping_ => PipeKey \in events_

(* A request to stop or to close has its byte in the pipe until a pass has *)
(* seen it.                                                                *)
RequestsPending == stopping_ \/ to_be_closed_ # {} => pipe > 0

(* What is registered fits an fd_set. *)
RegisteredFits == \A k \in fd_sets_ \cup watched : k[2] < FD_SETSIZE

(* A registered descriptor is open and has not been given to close(). *)
RegisteredOpen ==
  ~stopping_ => \A k \in events_ : k # PipeKey => Holds(k[2])

(* A key that select() watches is registered, or was removed without a     *)
(* call, or its descriptor waits to be closed: it is never one whose owner *)
(* may close the descriptor by itself, unless stop() destroyed its handler.*)
WatchedTracked ==
  pc \in {"select", "returned"} =>
    \A k \in watched : \/ k = PipeKey
                       \/ k \in events_ \cup cancelled
                       \/ k[2] \in to_be_closed_ \cup FdsOf(dropped)

(* Handlers are destroyed by stop() only. *)
DroppedByStop == dropped # {} => stopping_

(* What select() watches is open, or stop() destroyed its handler. *)
WatchedOpen ==
  pc \in {"select", "returned"} =>
    \A k \in watched : k[2] \in open \cup {0} \cup FdsOf(dropped)

(* The invariant without the descriptors' lives. *)
WakeInv ==
  /\ TypeOK
  /\ StartedBeforeStop
  /\ PipeRegistered
  /\ MasksMatchEvents
  /\ RequestsPending
  /\ WakeupPending

(* The invariant about the descriptors' lives. *)
FdInv ==
  /\ RegisteredFits
  /\ RegisteredOpen
  /\ WatchedTracked
  /\ DroppedByStop
  /\ WatchedOpen

-----------------------------------------------------------------------------

(* The pipe's key is not one of the clients' keys. *)
LEMMA PipeKeyIsPrivate ==
  /\ PipeKey \notin Keys
  /\ PipeKey[2] = 0
  /\ \A fd \in Fds : PipeKey \notin KeysOf(fd)
  /\ \A k \in Keys : k[2] \in Fds /\ k \in KeysOf(k[2])
  BY KeysAssumption DEF PipeKey, KeysOf, Fds, Ops

(* select() is entered with every registered key, the pipe's included. *)
LEMMA ToWatchAll ==
  ASSUME NEW E, E \subseteq Keys \cup {PipeKey}
  PROVE  ToWatch(E, E) = E
  <1>1. \A k \in E : k[2] \in Nat
    BY KeysAssumption, PipeKeyIsPrivate
  <1> QED
    BY <1>1 DEF ToWatch

(* A wake-up leaves a byte in the pipe, and no more than fit. *)
LEMMA InterruptWakes ==
  ASSUME TypeOK, interrupt_select
  PROVE  pipe' \in 0..PipeCap /\ pipe' > 0
  BY PipeAssumption DEF TypeOK, interrupt_select

-----------------------------------------------------------------------------
(* Each action keeps WakeInv. *)

(* A new reactor satisfies it. *)
LEMMA InitWake == Init => WakeInv
  <1> SUFFICES ASSUME Init PROVE WakeInv
    OBVIOUS
  <1>1. pipe \in 0..PipeCap
    BY PipeAssumption DEF Init
  <1>2. TypeOK
    BY <1>1 DEF Init, TypeOK
  <1>3. /\ StartedBeforeStop /\ PipeRegistered /\ MasksMatchEvents /\ RequestsPending
        /\ WakeupPending
    BY DEF Init, StartedBeforeStop, PipeRegistered, MasksMatchEvents, RequestsPending,
           WakeupPending
  <1> QED
    BY <1>2, <1>3 DEF WakeInv

(* Entering select() with what is registered leaves nothing unseen. *)
LEMMA EnterSelectWake ==
  ASSUME TypeOK', PipeRegistered', MasksMatchEvents', RequestsPending', ~stopping_',
         EnterSelect(fd_sets_', events_')
  PROVE  WakeInv'
  <1>1. watched' = fd_sets_' /\ PipeKey \in watched'
    BY ToWatchAll DEF EnterSelect, MasksMatchEvents, PipeRegistered, TypeOK
  <1>2. pc' = "select"
    BY DEF EnterSelect
  <1>3. WakeupPending'
    <2>1. CASE to_be_closed_' = {}
      BY <1>1, <2>1 DEF WakeupPending
    <2>2. CASE to_be_closed_' # {}
      BY <1>1, <2>2 DEF WakeupPending, RequestsPending
    <2> QED
      BY <2>1, <2>2
  <1> QED
    BY <1>2, <1>3 DEF WakeInv, StartedBeforeStop

(* The first select() of run(). *)
LEMMA RunBeginWake ==
  ASSUME WakeInv, RunBegin
  PROVE  WakeInv'
  <1> USE DEF WakeInv
  <1>1. watched' \subseteq Keys \cup {PipeKey}
    BY DEF RunBegin, EnterSelect, ToWatch, TypeOK
  <1>2. TypeOK'
    BY <1>1 DEF RunBegin, EnterSelect, TypeOK
  <1>3. ~stopping_' /\ PipeRegistered' /\ MasksMatchEvents' /\ RequestsPending'
    BY DEF RunBegin, StartedBeforeStop, PipeRegistered, MasksMatchEvents, RequestsPending
  <1>4. EnterSelect(fd_sets_', events_')
    BY DEF RunBegin, EnterSelect
  <1> QED
    BY <1>2, <1>3, <1>4, EnterSelectWake

(* What the thread in run() does after select() returned. *)
LEMMA PassWake ==
  ASSUME WakeInv, Pass
  PROVE  WakeInv'
  <1> USE DEF WakeInv
  <1>1. /\ pc = "returned" /\ to_be_closed_' = {} /\ stopping_' = stopping_
        /\ open' \subseteq Fds /\ ready' \subseteq Keys /\ cancelled' \subseteq Keys
        /\ dropped' \subseteq Keys
    BY DEF Pass, Closing, TypeOK
  <1>2. CASE stopping_
    <2>1. /\ pc' = "done" /\ watched' = {} /\ mask' = {}
          /\ UNCHANGED <<events_, fd_sets_, pipe, posted>>
      BY <1>2 DEF Pass
    <2>2. TypeOK'
      BY <1>1, <2>1 DEF TypeOK
    <2> QED
      BY <1>1, <1>2, <2>1, <2>2 DEF StartedBeforeStop, PipeRegistered, MasksMatchEvents,
                                    RequestsPending, WakeupPending
  <1>3. CASE ~stopping_ /\ mask = {}
    <2>1. EnterSelect(fd_sets_, events_) /\ UNCHANGED <<events_, fd_sets_, pipe, posted>>
      BY <1>3 DEF Pass
    <2>2. TypeOK'
      BY <1>1, <2>1 DEF TypeOK, EnterSelect, ToWatch
    <2>3. ~stopping_' /\ PipeRegistered' /\ MasksMatchEvents' /\ RequestsPending'
      BY <1>1, <1>3, <2>1 DEF PipeRegistered, MasksMatchEvents, RequestsPending
    <2>4. EnterSelect(fd_sets_', events_')
      BY <2>1
    <2> QED
      BY <2>2, <2>3, <2>4, EnterSelectWake
  <1>4. CASE ~stopping_ /\ mask # {}
    <2> DEFINE k == First(mask)
    <2>1. HandleReported(k)
      BY <1>4 DEF Pass
    <2> HIDE DEF k
    <2>2. CASE k \notin events_
      <3>1. /\ pc' = "failed" /\ watched' = {} /\ mask' = {}
            /\ UNCHANGED <<events_, fd_sets_, pipe, posted>>
        BY <2>1, <2>2 DEF HandleReported
      <3>2. TypeOK'
        BY <1>1, <3>1 DEF TypeOK
      <3> QED
        BY <1>1, <1>4, <3>1, <3>2 DEF StartedBeforeStop, PipeRegistered, MasksMatchEvents,
                                      RequestsPending, WakeupPending
    <2>3. CASE k \in events_ /\ k = PipeKey
      <3>1. /\ pipe' = 0 /\ EnterSelect(fd_sets_, events_)
            /\ UNCHANGED <<events_, fd_sets_, posted>>
        BY <2>1, <2>3 DEF HandleReported
      <3>2. TypeOK'
        BY <1>1, <3>1, PipeAssumption DEF TypeOK, EnterSelect, ToWatch
      <3>3. ~stopping_' /\ PipeRegistered' /\ MasksMatchEvents' /\ RequestsPending'
        BY <1>1, <1>4, <3>1 DEF PipeRegistered, MasksMatchEvents, RequestsPending
      <3>4. EnterSelect(fd_sets_', events_')
        BY <3>1
      <3> QED
        BY <3>2, <3>3, <3>4, EnterSelectWake
    <2>4. CASE k \in events_ /\ k # PipeKey
      <3>1. /\ events_' = events_ \ {k}
            /\ fd_sets_' = fd_sets_ \ {k}
            /\ posted' = posted \cup {k}
            /\ EnterSelect(fd_sets_', events_')
            /\ UNCHANGED pipe
        BY <2>1, <2>4 DEF HandleReported, MaskWithout
      <3>2. TypeOK'
        BY <1>1, <2>4, <3>1 DEF TypeOK, EnterSelect, ToWatch
      <3>3. ~stopping_' /\ PipeRegistered' /\ MasksMatchEvents' /\ RequestsPending'
        BY <1>1, <1>4, <2>4, <3>1 DEF PipeRegistered, MasksMatchEvents, RequestsPending
      <3> QED
        BY <3>1, <3>2, <3>3, EnterSelectWake
    <2> QED
      BY <2>2, <2>3, <2>4
  <1> QED
    BY <1>2, <1>3, <1>4

(* Steps of the kernel and of handlers that leave the reactor's own state  *)
(* alone.                                                                  *)
LEMMA KernelWake ==
  ASSUME WakeInv,
         \/ SelectReturn
         \/ SelectInterrupted
         \/ \E k \in Keys : BecomesReady(k) \/ HandlerReturn(k)
         \/ \E fd \in Fds : Open(fd) \/ Destroy(fd)
  PROVE  WakeInv'
  <1> USE DEF WakeInv
  <1>1. /\ UNCHANGED <<events_, fd_sets_, to_be_closed_, stopping_, pipe, watched>>
        /\ \/ pc' = pc
           \/ pc' = "returned"
    BY DEF SelectReturn, SelectInterrupted, BecomesReady, HandlerReturn, Open, Destroy
  <1>2. TypeOK'
    <2>1. CASE SelectReturn \/ SelectInterrupted
      BY <2>1 DEF TypeOK, SelectReturn, SelectInterrupted, Reportable
    <2>2. ASSUME NEW k \in Keys, BecomesReady(k) \/ HandlerReturn(k) PROVE TypeOK'
      BY <2>2 DEF TypeOK, BecomesReady, HandlerReturn
    <2>3. ASSUME NEW fd \in Fds, Open(fd) \/ Destroy(fd) PROVE TypeOK'
      BY <2>3 DEF TypeOK, Open, Destroy, Closing
    <2> QED
      BY <2>1, <2>2, <2>3
  <1> QED
    BY <1>1, <1>2 DEF StartedBeforeStop, PipeRegistered, MasksMatchEvents, RequestsPending,
                      WakeupPending

(* A registration that select() does not know of leaves a byte in the pipe. *)
LEMMA HandleWake ==
  ASSUME WakeInv, NEW k \in Keys, handle(k)
  PROVE  WakeInv'
  <1> USE DEF WakeInv
  <1>1. CASE k \in fd_sets_
    <2>1. fd_sets_' = fd_sets_ /\ events_' = events_ \cup {k} /\ pipe' = pipe
      BY <1>1 DEF handle, InterruptNeeded
    <2>2. TypeOK'
      BY <2>1 DEF handle, TypeOK
    <2> QED
      BY <1>1, <2>1, <2>2 DEF handle, StartedBeforeStop, PipeRegistered, MasksMatchEvents,
                              RequestsPending, WakeupPending
  <1>2. CASE k \notin fd_sets_
    <2>1. /\ fd_sets_' = fd_sets_ \cup {k} /\ events_' = events_ \cup {k}
          /\ pipe' \in 0..PipeCap /\ pipe' > 0
      BY <1>2, InterruptWakes DEF handle, InterruptNeeded
    <2>2. TypeOK'
      BY <2>1 DEF handle, TypeOK
    <2> QED
      BY <2>1, <2>2 DEF handle, StartedBeforeStop, PipeRegistered, MasksMatchEvents,
                        RequestsPending, WakeupPending
  <1> QED
    BY <1>1, <1>2

(* Cancelling needs no wake-up. *)
LEMMA CancelWake ==
  ASSUME WakeInv, NEW k \in Keys, cancel(k)
  PROVE  WakeInv'
  <1> USE DEF WakeInv
  <1>1. k # PipeKey
    BY PipeKeyIsPrivate
  <1>2. TypeOK'
    BY DEF cancel, TypeOK
  <1> QED
    BY <1>1, <1>2 DEF cancel, StartedBeforeStop, PipeRegistered, MasksMatchEvents,
                      RequestsPending, WakeupPending

(* A descriptor to be closed leaves a byte in the pipe. *)
LEMMA CloseWake ==
  ASSUME WakeInv, NEW fd \in Fds, close(fd)
  PROVE  WakeInv'
  <1> USE DEF WakeInv
  <1>1. CASE fd >= FD_SETSIZE /\ Closing({fd})
             /\ UNCHANGED <<events_, fd_sets_, to_be_closed_, pipe>>
    <2>1. TypeOK'
      BY <1>1 DEF close, TypeOK, Closing
    <2> QED
      BY <1>1, <2>1 DEF close, StartedBeforeStop, PipeRegistered, MasksMatchEvents,
                        RequestsPending, WakeupPending
  <1>2. CASE /\ events_' = events_ \ (KeysOf(fd) \cap fd_sets_)
             /\ fd_sets_' = fd_sets_ \ KeysOf(fd)
             /\ CloseLater(fd)
             /\ interrupt_select
    <2>1. pipe' \in 0..PipeCap /\ pipe' > 0
      BY <1>2, InterruptWakes
    <2>2. TypeOK'
      BY <1>2, <2>1 DEF close, CloseLater, TypeOK
    <2>3. PipeRegistered'
      BY <1>2, PipeKeyIsPrivate DEF close, PipeRegistered
    <2>4. MasksMatchEvents'
      BY <1>2 DEF close, MasksMatchEvents
    <2> QED
      BY <1>2, <2>1, <2>2, <2>3, <2>4 DEF close, StartedBeforeStop, RequestsPending,
                                          WakeupPending
  <1> QED
    BY <1>1, <1>2 DEF close

(* The request to stop leaves a byte in the pipe. *)
LEMMA StopWake ==
  ASSUME WakeInv, stop
  PROVE  WakeInv'
  <1> USE DEF WakeInv
  <1>1. pipe' \in 0..PipeCap /\ pipe' > 0
    BY InterruptWakes DEF stop
  <1>2. \A k \in events_ : k[2] \in Owned => k \in Keys
    BY OwnedAssumption, KeysAssumption, PipeKeyIsPrivate DEF TypeOK, Fds
  <1>3. TypeOK'
    BY <1>1, <1>2 DEF stop, Closing, TypeOK
  <1> QED
    BY <1>1, <1>3 DEF stop, StartedBeforeStop, PipeRegistered, MasksMatchEvents,
                      RequestsPending, WakeupPending

(* Every step keeps WakeInv. *)
LEMMA NextWake == WakeInv /\ [Next]_vars => WakeInv'
  <1> SUFFICES ASSUME WakeInv, [Next]_vars PROVE WakeInv'
    OBVIOUS
  <1>1. CASE RunBegin
    BY <1>1, RunBeginWake
  <1>2. CASE Pass
    BY <1>2, PassWake
  <1>3. CASE \/ SelectReturn
             \/ SelectInterrupted
             \/ \E k \in Keys : BecomesReady(k) \/ HandlerReturn(k)
             \/ \E fd \in Fds : Open(fd) \/ Destroy(fd)
    BY <1>3, KernelWake
  <1>4. ASSUME NEW k \in Keys, handle(k) PROVE WakeInv'
    BY <1>4, HandleWake
  <1>5. ASSUME NEW k \in Keys, cancel(k) PROVE WakeInv'
    BY <1>5, CancelWake
  <1>6. ASSUME NEW fd \in Fds, close(fd) PROVE WakeInv'
    BY <1>6, CloseWake
  <1>7. CASE stop
    BY <1>7, StopWake
  <1>8. CASE UNCHANGED vars
    BY <1>8 DEF vars, WakeInv, TypeOK, StartedBeforeStop, PipeRegistered, MasksMatchEvents,
                RequestsPending, WakeupPending
  <1> QED
    BY <1>1, <1>2, <1>3, <1>4, <1>5, <1>6, <1>7, <1>8 DEF Next

(* The part of the invariant about wake-ups holds of every behaviour. *)
THEOREM WakeInvariance == Spec => []WakeInv
  BY InitWake, NextWake, PTL DEF Spec

(* Types: in particular the pipe never holds more than fits. *)
THEOREM TypeCorrect == Spec => []TypeOK
  <1>1. WakeInv => TypeOK
    BY DEF WakeInv
  <1> QED
    BY <1>1, WakeInvariance, PTL

(* Until stop(), events_ and fd_sets_ never disagree. *)
THEOREM MasksCorrect == Spec => []MasksMatchEvents
  <1>1. WakeInv => MasksMatchEvents
    BY DEF WakeInv
  <1> QED
    BY <1>1, WakeInvariance, PTL

(* No registration, close or stop is missed by a thread that sits in       *)
(* select(): for any number of descriptors and calls.                      *)
THEOREM NoLostInterrupt == Spec => []WakeupPending
  <1>1. WakeInv => WakeupPending
    BY DEF WakeInv
  <1> QED
    BY <1>1, WakeInvariance, PTL

-----------------------------------------------------------------------------
(* Each action keeps FdInv. *)

(* A new reactor satisfies it. *)
LEMMA InitFd == Init => FdInv
  BY SetSizeAssumption, PipeKeyIsPrivate
     DEF Init, FdInv, RegisteredFits, RegisteredOpen, WatchedTracked, DroppedByStop,
         WatchedOpen

(* Entering select() with what is registered, all of it open. *)
LEMMA EnterSelectFd ==
  ASSUME WakeInv', RegisteredFits, RegisteredOpen', ~stopping_', DroppedByStop',
         fd_sets_' \subseteq fd_sets_,
         EnterSelect(fd_sets_', events_')
  PROVE  FdInv'
  <1>1. watched' = fd_sets_' /\ watched' = events_'
    BY ToWatchAll DEF EnterSelect, WakeInv, MasksMatchEvents, TypeOK
  <1>2. RegisteredFits'
    BY <1>1 DEF RegisteredFits
  <1>3. WatchedTracked'
    BY <1>1 DEF WatchedTracked
  <1>4. WatchedOpen'
    <2>1. \A k \in watched' : k[2] \in open' \cup {0}
      BY <1>1, PipeKeyIsPrivate DEF RegisteredOpen, Holds
    <2> QED
      BY <2>1 DEF WatchedOpen
  <1> QED
    BY <1>2, <1>3, <1>4 DEF FdInv

(* The first select() of run(). *)
LEMMA RunBeginFd ==
  ASSUME WakeInv, FdInv, RunBegin
  PROVE  FdInv'
  <1>1. WakeInv'
    BY RunBeginWake
  <1>2. ~stopping_' /\ UNCHANGED <<events_, fd_sets_, open, to_be_closed_, stopping_, dropped>>
    BY DEF RunBegin, WakeInv, StartedBeforeStop
  <1>3. RegisteredFits /\ RegisteredOpen' /\ DroppedByStop'
    BY <1>2 DEF FdInv, RegisteredOpen, DroppedByStop, Holds
  <1>4. EnterSelect(fd_sets_', events_')
    BY <1>2 DEF RunBegin
  <1> QED
    BY <1>1, <1>2, <1>3, <1>4, EnterSelectFd

(* A pass closes what close() was given, and only that. *)
LEMMA PassFd ==
  ASSUME WakeInv, FdInv, Pass
  PROVE  FdInv'
  <1>1. WakeInv'
    BY PassWake
  <1>2. /\ to_be_closed_' = {} /\ open' = open \ to_be_closed_
        /\ UNCHANGED <<stopping_, dropped>>
    BY DEF Pass, Closing
  <1>3. CASE pc' \in {"done", "failed"}
    <2>1. watched' = {} /\ UNCHANGED <<events_, fd_sets_>>
      BY <1>3 DEF Pass, HandleReported, EnterSelect
    <2>2. RegisteredFits' /\ WatchedTracked' /\ DroppedByStop' /\ WatchedOpen'
      BY <1>2, <1>3, <2>1 DEF FdInv, RegisteredFits, WatchedTracked, DroppedByStop, WatchedOpen
    <2>3. RegisteredOpen'
      BY <1>2, <2>1 DEF FdInv, RegisteredOpen, Holds
    <2> QED
      BY <2>2, <2>3 DEF FdInv
  <1>4. CASE pc' \notin {"done", "failed"}
    <2>1. /\ ~stopping_ /\ fd_sets_' \subseteq fd_sets_ /\ events_' \subseteq events_
          /\ EnterSelect(fd_sets_', events_')
      BY <1>4 DEF Pass, HandleReported, MaskWithout
    <2>2. RegisteredOpen' /\ DroppedByStop'
      BY <1>2, <2>1 DEF FdInv, RegisteredOpen, DroppedByStop, Holds
    <2> QED
      BY <1>1, <1>2, <2>1, <2>2, EnterSelectFd DEF FdInv
  <1> QED
    BY <1>3, <1>4

(* Returning from select(), data arriving, handlers returning. *)
LEMMA KernelFd ==
  ASSUME FdInv, \/ SelectReturn
                \/ SelectInterrupted
                \/ \E k \in Keys : BecomesReady(k) \/ HandlerReturn(k)
  PROVE  FdInv'
  <1>1. /\ UNCHANGED <<events_, fd_sets_, to_be_closed_, stopping_, watched, open,
                       cancelled, dropped>>
        /\ \/ pc' = pc
           \/ pc = "select" /\ pc' = "returned"
    BY DEF SelectReturn, SelectInterrupted, BecomesReady, HandlerReturn
  <1> QED
    BY <1>1 DEF FdInv, RegisteredFits, RegisteredOpen, WatchedTracked, DroppedByStop,
                WatchedOpen, Holds

(* A number that is given out again is not one that select() watches. *)
LEMMA OpenFd ==
  ASSUME FdInv, WakeInv, NEW fd \in Fds, Open(fd)
  PROVE  FdInv'
  <1>1. /\ UNCHANGED <<events_, fd_sets_, to_be_closed_, stopping_, watched, pc, dropped>>
        /\ open' = open \cup {fd} /\ fd \notin open
        /\ cancelled' = cancelled \ KeysOf(fd)
    BY DEF Open
  <1>2. RegisteredFits' /\ RegisteredOpen' /\ DroppedByStop'
    BY <1>1 DEF FdInv, RegisteredFits, RegisteredOpen, DroppedByStop, Holds
  <1>3. WatchedOpen'
    BY <1>1 DEF FdInv, WatchedOpen
  <1>4. WatchedTracked'
    <2> SUFFICES ASSUME pc \in {"select", "returned"}, NEW k \in watched
                 PROVE  \/ k = PipeKey
                        \/ k \in events_ \cup cancelled'
                        \/ k[2] \in to_be_closed_ \cup FdsOf(dropped)
      BY <1>1 DEF WatchedTracked
    <2>1. k[2] \in open \cup {0} \cup FdsOf(dropped)
      BY DEF FdInv, WatchedOpen
    <2>2. fd # 0
      BY KeysAssumption DEF Fds
    <2>3. CASE k[2] \in FdsOf(dropped)
      BY <2>3
    <2>4. CASE k[2] \notin FdsOf(dropped)
      <3>1. k \notin KeysOf(fd)
        BY <1>1, <2>1, <2>2, <2>4 DEF KeysOf
      <3> QED
        BY <1>1, <3>1 DEF FdInv, WatchedTracked
    <2> QED
      BY <2>3, <2>4
  <1> QED
    BY <1>2, <1>3, <1>4 DEF FdInv

(* A session that closes its own descriptor closes none that is watched. *)
LEMMA DestroyFd ==
  ASSUME FdInv, WakeInv, NEW fd \in Fds, Destroy(fd)
  PROVE  FdInv'
  <1>1. /\ UNCHANGED <<events_, fd_sets_, to_be_closed_, stopping_, watched, pc, cancelled,
                       dropped>>
        /\ open' = open \ {fd} /\ fd \notin to_be_closed_
        /\ KeysOf(fd) \cap (events_ \cup cancelled) = {}
    BY DEF Destroy, Closing, Holds
  <1>2. \A k \in events_ \cup cancelled : k # PipeKey => k[2] # fd
    BY <1>1 DEF KeysOf, WakeInv, TypeOK
  <1>3. RegisteredFits' /\ WatchedTracked' /\ DroppedByStop'
    BY <1>1 DEF FdInv, RegisteredFits, WatchedTracked, DroppedByStop
  <1>4. RegisteredOpen'
    BY <1>1, <1>2 DEF FdInv, RegisteredOpen, Holds
  <1>5. WatchedOpen'
    <2> SUFFICES ASSUME pc \in {"select", "returned"}, NEW k \in watched
                 PROVE  k[2] \in open' \cup {0} \cup FdsOf(dropped)
      BY <1>1 DEF WatchedOpen
    <2>1. k[2] \in open \cup {0} \cup FdsOf(dropped)
      BY DEF FdInv, WatchedOpen
    <2>2. CASE k = PipeKey
      BY <2>2, PipeKeyIsPrivate
    <2>3. CASE k # PipeKey
      BY <1>1, <1>2, <2>1, <2>3 DEF FdInv, WatchedTracked
    <2> QED
      BY <2>2, <2>3
  <1> QED
    BY <1>3, <1>4, <1>5 DEF FdInv

(* Registering needs an open descriptor that fits. *)
LEMMA HandleFd ==
  ASSUME FdInv, NEW k \in Keys, handle(k)
  PROVE  FdInv'
  <1>1. /\ UNCHANGED <<to_be_closed_, stopping_, watched, pc, open, cancelled, dropped>>
        /\ events_' = events_ \cup {k} /\ fd_sets_' = fd_sets_ \cup {k}
        /\ Holds(k[2]) /\ k[2] < FD_SETSIZE
    BY DEF handle
  <1> QED
    BY <1>1 DEF FdInv, RegisteredFits, RegisteredOpen, WatchedTracked, DroppedByStop,
                WatchedOpen, Holds

(* What is cancelled is remembered by its owner. *)
LEMMA CancelFd ==
  ASSUME FdInv, NEW k \in Keys, cancel(k)
  PROVE  FdInv'
  <1>1. /\ UNCHANGED <<to_be_closed_, stopping_, watched, pc, open, dropped>>
        /\ events_' = events_ \ {k} /\ fd_sets_' = fd_sets_ \ {k}
        /\ cancelled' = cancelled \cup {k}
    BY DEF cancel
  <1> QED
    BY <1>1 DEF FdInv, RegisteredFits, RegisteredOpen, WatchedTracked, DroppedByStop,
                WatchedOpen, Holds

(* close() puts off the closing of any descriptor that select() may watch. *)
LEMMA CloseFd ==
  ASSUME FdInv, WakeInv, NEW fd \in Fds, close(fd)
  PROVE  FdInv'
  <1>1. UNCHANGED <<stopping_, watched, pc, cancelled, dropped>>
    BY DEF close
  <1>n. fd \in Nat /\ \A k \in Keys \cup {PipeKey} : k[2] \in Nat
    BY KeysAssumption, PipeKeyIsPrivate DEF Fds
  <1>2. CASE fd >= FD_SETSIZE /\ Closing({fd})
             /\ UNCHANGED <<events_, fd_sets_, to_be_closed_, pipe>>
    <2>1. \A k \in fd_sets_ \cup watched : k[2] # fd
      BY <1>n, <1>2, SetSizeAssumption DEF FdInv, RegisteredFits, WakeInv, TypeOK
    <2>2. RegisteredFits' /\ WatchedTracked' /\ DroppedByStop'
      BY <1>1, <1>2 DEF FdInv, RegisteredFits, WatchedTracked, DroppedByStop
    <2>3. RegisteredOpen'
      BY <1>1, <1>2, <2>1 DEF FdInv, RegisteredOpen, Closing, Holds, WakeInv,
                              MasksMatchEvents
    <2>4. WatchedOpen'
      BY <1>1, <1>2, <2>1 DEF FdInv, WatchedOpen, Closing
    <2> QED
      BY <2>2, <2>3, <2>4 DEF FdInv
  <1>3. CASE /\ events_' = events_ \ (KeysOf(fd) \cap fd_sets_)
             /\ fd_sets_' = fd_sets_ \ KeysOf(fd)
             /\ CloseLater(fd)
    <2>1. to_be_closed_' = to_be_closed_ \cup {fd} /\ open' = open
      BY <1>3 DEF CloseLater
    <2>2. RegisteredFits' /\ DroppedByStop' /\ WatchedOpen'
      BY <1>1, <1>3, <2>1 DEF FdInv, RegisteredFits, DroppedByStop, WatchedOpen
    <2>3. WatchedTracked'
      BY <1>1, <1>3, <2>1 DEF FdInv, WatchedTracked, KeysOf
    <2>4. RegisteredOpen'
      <3> SUFFICES ASSUME ~stopping_, NEW k \in events_', k # PipeKey
                   PROVE  k[2] \in open \ to_be_closed_'
        BY <1>1, <2>1 DEF RegisteredOpen, Holds
      <3>1. k \in events_ /\ k \in Keys /\ k \notin KeysOf(fd)
        BY <1>3 DEF WakeInv, TypeOK, MasksMatchEvents
      <3>2. k[2] # fd
        BY <3>1 DEF KeysOf
      <3> QED
        BY <2>1, <3>1, <3>2 DEF FdInv, RegisteredOpen, Holds
    <2> QED
      BY <2>2, <2>3, <2>4 DEF FdInv
  <1> QED
    BY <1>2, <1>3 DEF close

(* stop() closes descriptors under select(), but only those of handlers it *)
(* destroys.                                                               *)
LEMMA StopFd ==
  ASSUME FdInv, WakeInv, stop
  PROVE  FdInv'
  <1>1. /\ UNCHANGED <<fd_sets_, to_be_closed_, watched, pc>>
        /\ open' = open \ KeptByHandlers /\ events_' = {} /\ stopping_' = TRUE
        /\ cancelled' = cancelled \cup {k \in events_ : k # PipeKey /\ k[2] \notin Owned}
        /\ dropped' = dropped \cup {k \in events_ : k[2] \in Owned}
    BY DEF stop, Closing
  <1>2. FdsOf(dropped) \subseteq FdsOf(dropped')
    BY <1>1 DEF FdsOf
  <1>3. KeptByHandlers \subseteq FdsOf(dropped')
    BY <1>1 DEF KeptByHandlers, FdsOf
  <1>4. RegisteredFits' /\ RegisteredOpen' /\ DroppedByStop'
    BY <1>1 DEF FdInv, RegisteredFits, RegisteredOpen, DroppedByStop
  <1>5. WatchedOpen'
    BY <1>1, <1>2, <1>3 DEF FdInv, WatchedOpen
  <1>6. WatchedTracked'
    <2> SUFFICES ASSUME pc \in {"select", "returned"}, NEW k \in watched, k # PipeKey
                 PROVE  \/ k \in cancelled'
                        \/ k[2] \in to_be_closed_ \cup FdsOf(dropped')
      BY <1>1 DEF WatchedTracked
    <2>1. CASE k \in events_ /\ k[2] \in Owned
      BY <1>1, <2>1 DEF FdsOf
    <2>2. CASE ~(k \in events_ /\ k[2] \in Owned)
      BY <1>1, <1>2, <2>2 DEF FdInv, WatchedTracked
    <2> QED
      BY <2>1, <2>2
  <1> QED
    BY <1>4, <1>5, <1>6 DEF FdInv

(* Every step keeps FdInv. *)
LEMMA NextFd == WakeInv /\ FdInv /\ [Next]_vars => FdInv'
  <1> SUFFICES ASSUME WakeInv, FdInv, [Next]_vars PROVE FdInv'
    OBVIOUS
  <1>1. CASE RunBegin
    BY <1>1, RunBeginFd
  <1>2. CASE Pass
    BY <1>2, PassFd
  <1>3. CASE \/ SelectReturn
             \/ SelectInterrupted
             \/ \E k \in Keys : BecomesReady(k) \/ HandlerReturn(k)
    BY <1>3, KernelFd
  <1>4. ASSUME NEW k \in Keys, handle(k) \/ cancel(k) PROVE FdInv'
    BY <1>4, HandleFd, CancelFd
  <1>5. ASSUME NEW fd \in Fds, Open(fd) \/ close(fd) \/ Destroy(fd) PROVE FdInv'
    BY <1>5, OpenFd, CloseFd, DestroyFd
  <1>6. CASE stop
    BY <1>6, StopFd
  <1>7. CASE UNCHANGED vars
    BY <1>7 DEF vars, FdInv, RegisteredFits, RegisteredOpen, WatchedTracked,
                DroppedByStop, WatchedOpen, Holds
  <1> QED
    BY <1>1, <1>2, <1>3, <1>4, <1>5, <1>6, <1>7 DEF Next

(* The invariant bounds what is closed under select(). *)
LEMMA FdInvSafe == FdInv => WatchedStayOpen
  <1> SUFFICES ASSUME FdInv PROVE WatchedStayOpen
    OBVIOUS
  <1>1. ClosedUnderSelect \subseteq FdsOf(dropped)
    BY DEF FdInv, WatchedOpen, ClosedUnderSelect, FdsOf
  <1>2. dropped = {} => FdsOf(dropped) = {}
    BY DEF FdsOf
  <1> QED
    BY <1>1, <1>2 DEF FdInv, DroppedByStop, WatchedStayOpen

(* Neither close(), nor cancelling, nor a session closing its own socket   *)
(* ever closes a descriptor under a select() that watches it, whoever owns *)
(* the descriptors, and no number that a mask mentions is reused before    *)
(* run() has read the mask; only stop() does, to the descriptors of the    *)
(* handlers that it destroys.                                              *)
THEOREM WatchedStayOpenCorrect == Spec => []WatchedStayOpen
  <1>1. Init => WakeInv /\ FdInv
    BY InitWake, InitFd
  <1>2. WakeInv /\ FdInv /\ [Next]_vars => (WakeInv /\ FdInv)'
    BY NextWake, NextFd
  <1> QED
    BY <1>1, <1>2, FdInvSafe, PTL DEF Spec
=============================================================================
