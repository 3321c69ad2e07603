------------------------------- MODULE Spawn --------------------------------
(***************************************************************************)
(* spawn() of asio-utils: a coroutine on a stack of its own, whose state   *)
(* (fiber_data) lies on that stack and is owned in turn by the function    *)
(* that starts it, by the handler of the operation it awaits and by        *)
(* itself; with the session of asio-stackfull-coro as the coroutine.       *)
(*                                                                         *)
(* Frame 0 is the function given to the executor at startup, frame k the   *)
(* handler of the k-th operation: whatever resumes the coroutine.  On a    *)
(* strand one frame is active at a time, else the handler of an operation  *)
(* may run while the frame that initiated it has not returned.             *)
(***************************************************************************)
EXTENDS Naturals, Sequences, FiniteSets

CONSTANT MaxOps   \* bound: operations that the coroutine awaits

ASSUME SpawnAssumption == MaxOps \in Nat

Frames == 0..MaxOps

(* Who may use the state after its destruction: a frame or a handler, the  *)
(* coroutine while it runs, or the finalizer of a stack that is unwound.   *)
Culprits == {"frame", "coroutine", "finalizer"}

VARIABLES
  strand,     \* the executor is a strand
  stopped,    \* ctx.stop() has been called
  frame,      \* of each frame: what it is doing
  owns,       \* the frames whose fdo is not null
  caller,     \* the frame that resumed the coroutine last
  ops,        \* operations started so far
  result,     \* what the last operation awaited has given
  mem,        \* the coroutine, its fiber_data and its session
  completed,  \* history: what the completion handler was called with
  thrown      \* history: the frames in which an initiation threw

vars == <<strand, stopped, frame, owns, caller, ops, result, mem, completed, thrown>>

TypeOK ==
  /\ strand \in BOOLEAN /\ stopped \in BOOLEAN
  /\ frame \in [Frames -> {"none", "queued", "in", "leaving", "done"}]
  /\ owns \subseteq Frames /\ caller \in Frames /\ ops \in Frames
  /\ result \in {"ok", "eof", "error"}
  /\ mem \in [fiber : {"fresh", "running", "suspended", "ended", "broken", "gone"},
              f : {"coroutine", "caller", "null"},  \* what fd->f_ holds
              destroyed : 0..2,                     \* times that h_ and work_ were
              session : BOOLEAN, unwound : BOOLEAN,
              ub : SUBSET Culprits]                 \* who used what was destroyed
  /\ completed \in Seq({"return", "exception"}) /\ Len(completed) <= 1
  /\ thrown \subseteq Frames

(* The fiber_data has been built on the new stack and given to the startup *)
(* function, which the executor has not run yet.                           *)
Init ==
  /\ strand \in BOOLEAN /\ stopped = FALSE
  /\ frame = [k \in Frames |-> IF k = 0 THEN "queued" ELSE "none"]
  /\ owns = {0} /\ caller = 0 /\ ops = 0 /\ result = "ok"
  /\ mem = [fiber |-> "fresh", f |-> "coroutine", destroyed |-> 0, session |-> TRUE,
            unwound |-> FALSE, ub |-> {}]
  /\ completed = << >> /\ thrown = {}

-----------------------------------------------------------------------------
(* Destroying the state *)

(* What who does with the state m is undefined if m has been destroyed.    *)
Used(m, who) == IF m.destroyed > 0 THEN [m EXCEPT !.ub = @ \cup {who}] ELSE m

UnwindLeaks(m) == [m EXCEPT !.destroyed = @ + 1]  \* mutant: the stack stays
(* A suspended fiber is destroyed: its stack is unwound, the finalizer     *)
(* destroys the fiber_data once more, and the stack is freed.              *)
Unwind(m) ==
  [Used(m, "finalizer") EXCEPT
     !.fiber = "gone", !.session = FALSE, !.unwound = TRUE, !.destroyed = @ + 1]

(* destroy_at() by an owner: the handler and the executors, then the       *)
(* fiber.  One that has never run is freed with its function alone.        *)
Destroy(m) ==
  LET d == [m EXCEPT !.destroyed = @ + 1, !.f = "null"]
  IN IF m.destroyed > 0 \/ m.f # "coroutine" THEN [m EXCEPT !.ub = @ \cup {"frame"}]
     ELSE IF m.fiber = "fresh" THEN [d EXCEPT !.fiber = "gone", !.session = FALSE]
     ELSE Unwind(d)

-----------------------------------------------------------------------------
(* The frames *)

Active == {k \in Frames : frame[k] \in {"in", "leaving"}}
(* The program goes on: nothing is known of what follows a use by a frame  *)
(* or the coroutine.  That of the finalizer is one destruction too many of *)
(* a handler and two executors, from which it may well go on.              *)
GoesOn == mem.fiber # "broken" /\ mem.ub \subseteq {"finalizer"}
MayRun == ~stopped /\ GoesOn /\ (strand => Active = {})
Kind(k) == IF k % 3 = 1 THEN "a" ELSE IF k % 3 = 2 THEN "b" ELSE "write"

(* The handler of an operation lets go before it resumes the coroutine,    *)
(* the startup function after it.                                          *)
Released(k) == IF k = 0 THEN owns ELSE owns \ {k}

(* Frame k resumes the coroutine, which notes its caller's context. *)
Resume(k) ==
  /\ MayRun /\ frame[k] = "queued"
  /\ frame' = [frame EXCEPT ![k] = "in"]
  /\ owns' = Released(k) /\ caller' = k
  /\ result' \in IF k = 0 THEN {"ok"} ELSE {"ok", "eof", "error"}
  /\ mem' = IF mem.f = "coroutine" /\ mem.destroyed = 0
            THEN [mem EXCEPT !.fiber = "running", !.f = "caller"]
            ELSE [mem EXCEPT !.ub = @ \cup {"frame"}]
  /\ UNCHANGED <<strand, stopped, ops, completed, thrown>>

KeptAtReturn(k) == owns   \* mutant: no release()
AtReturn(k) == owns \ {k}

(* resume() has returned a null fiber: the coroutine has stored itself, or *)
(* is gone.  The startup function releases what it owned.                  *)
Leave(k) ==
  /\ frame[k] = "leaving" /\ GoesOn
  /\ frame' = [frame EXCEPT ![k] = "done"]
  /\ owns' = AtReturn(k) \ {k}
  /\ mem' = IF k \in AtReturn(k) THEN Destroy(mem) ELSE mem
  /\ UNCHANGED <<strand, stopped, caller, ops, result, completed, thrown>>

-----------------------------------------------------------------------------
(* The coroutine *)

Running == mem.fiber = "running" /\ GoesOn

UnwrapQuiet(k) ==  \* mutant: every failure ends quietly
  IF k = 0 \/ result = "ok" THEN "go on" ELSE "return"
(* What an operation's result makes of the coroutine: only the read of a   *)
(* takes the error code, and ends quietly with the stream; the others      *)
(* throw.                                                                  *)
Unwrap(k) ==
  IF k = 0 \/ result = "ok" THEN "go on"
  ELSE IF Kind(k) = "a" /\ result = "eof" THEN "return" ELSE "exception"

(* resume_with(): on the caller's stack the suspended coroutine is stored, *)
(* then the operation is initiated with a handler that owns it.            *)
Suspended == [Used(mem, "coroutine") EXCEPT !.fiber = "suspended", !.f = "coroutine"]
Await ==
  /\ Running /\ Unwrap(caller) = "go on" /\ ops < MaxOps
  /\ ops' = ops + 1
  /\ mem' = Suspended
  /\ frame' = [frame EXCEPT ![caller] = "leaving", ![ops + 1] = "queued"]
  /\ owns' = owns \cup {ops + 1}
  /\ UNCHANGED <<strand, stopped, caller, result, completed, thrown>>

(* The initiation throws: its handler is destroyed with the coroutine, and *)
(* then the frame, which may own the same state.                           *)
AwaitThrows ==
  /\ Running /\ Unwrap(caller) = "go on" /\ ops < MaxOps
  /\ LET m == Destroy(Suspended)
     IN mem' = IF caller \in owns THEN Destroy(m) ELSE m
  /\ frame' = [frame EXCEPT ![caller] = "done"] /\ owns' = owns \ {caller}
  /\ thrown' = thrown \cup {caller}
  /\ UNCHANGED <<strand, stopped, caller, ops, result, completed>>

(* The coroutine returns or throws by itself: a line may fail to parse.    *)
Ends(how) ==
  \/ how = Unwrap(caller)
  \/ Unwrap(caller) = "go on" /\ Kind(caller) # "write" /\ how = "exception"

(* Its finalizer takes the handler out, destroys the state ...             *)
Finalized(fiber) ==
  [Used(mem, "coroutine") EXCEPT !.fiber = fiber, !.f = "null", !.destroyed = @ + 1]

(* ... and executes the handler, inside the call.                          *)
Finalize(how) ==
  /\ Running /\ Ends(how)
  /\ mem' = Finalized("ended")
  /\ completed' = Append(completed, how)
  /\ UNCHANGED <<strand, stopped, frame, owns, caller, ops, result, thrown>>

(* execute() throws instead: the exception leaves the fiber's function,    *)
(* which Boost.Context does not allow, and the program ends here.          *)
FinalizeThrows(how) ==
  /\ Running /\ Ends(how)
  /\ mem' = Finalized("broken")
  /\ UNCHANGED <<strand, stopped, frame, owns, caller, ops, result, completed, thrown>>

(* The fiber function has returned the caller's context: stack and session *)
(* are freed and the caller goes on.                                       *)
Exit ==
  /\ mem.fiber = "ended"
  /\ mem' = [mem EXCEPT !.fiber = "gone", !.session = FALSE]
  /\ frame' = [frame EXCEPT ![caller] = "leaving"]
  /\ UNCHANGED <<strand, stopped, owns, caller, ops, result, completed, thrown>>

-----------------------------------------------------------------------------
(* The end of the program *)

Stop ==
  /\ ~stopped /\ GoesOn /\ stopped' = TRUE
  /\ UNCHANGED <<strand, frame, owns, caller, ops, result, mem, completed, thrown>>

(* The io_context destroys a function that was never run. *)
Drop(k) ==
  /\ stopped /\ Active = {} /\ frame[k] = "queued" /\ GoesOn
  /\ frame' = [frame EXCEPT ![k] = "done"] /\ owns' = owns \ {k}
  /\ mem' = IF k \in owns THEN Destroy(mem) ELSE mem
  /\ UNCHANGED <<strand, stopped, caller, ops, result, completed, thrown>>

Coroutine ==
  \/ Await \/ AwaitThrows \/ Exit
  \/ \E how \in {"return", "exception"} : Finalize(how) \/ FinalizeThrows(how)
Next == Stop \/ Coroutine \/ \E k \in Frames : Resume(k) \/ Leave(k) \/ Drop(k)

Spec == Init /\ [][Next]_vars

-----------------------------------------------------------------------------
(* Properties *)

(* The coroutine never uses its state after its end, and neither does a    *)
(* frame or a handler, although the frame that resumed it may be active    *)
(* still when it has been suspended, resumed elsewhere and ended: except   *)
(* for the startup function when the first initiation throws.  The         *)
(* finalizer uses what is destroyed whenever the stack is unwound, and     *)
(* only then.  Of the frames only the startup function may own what is     *)
(* destroyed, while it is still inside resume() and will release it.       *)
NoUseAfterDestroy ==
  /\ TypeOK
  /\ mem.ub = {c \in {"frame"} : 0 \in thrown} \cup {c \in {"finalizer"} : mem.unwound}
  /\ mem.destroyed > 0 /\ "frame" \notin mem.ub =>
       owns \subseteq {0} /\ (0 \in owns => frame[0] \in {"in", "leaving"})

(* When no frame is left, the state, the stack and the session are gone;   *)
(* the state was destroyed once, if the coroutine was not unwound.         *)
NothingLeaks ==
  (\A k \in Frames : frame[k] \in {"none", "done"}) /\ "frame" \notin mem.ub =>
    /\ mem.fiber = "gone" /\ ~mem.session /\ mem.destroyed > 0
    /\ ~mem.unwound => mem.destroyed = 1

(* The completion handler learns of an end of the coroutine's own making,  *)
(* while the session it closes exists, unless execute() throws; of a       *)
(* failed operation as an exception; and of nothing when the coroutine is  *)
(* unwound.                                                                *)
EndIsReported ==
  /\ mem.fiber = "ended" => Len(completed) = 1 /\ mem.session
  /\ mem.unwound => completed = << >>
  /\ mem.fiber = "ended" /\ result = "error" => completed = <<"exception">>

(* Destroying the state once is enough: "to properly destroy such          *)
(* construct we need to just invoke the destructor of fiber_data".         *)
DestroyedOnce == mem.destroyed <= 1
=============================================================================
