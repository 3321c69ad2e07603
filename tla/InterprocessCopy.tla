-------------------------- MODULE InterprocessCopy --------------------------
(***************************************************************************)
(* interprocess-copy: a parent that sends blocks of data to a forked child *)
(* in four ways, one round of the benchmark at a time.  Two eventfds pass  *)
(* the turn: the parent adds an operation code and a length to             *)
(* event_to_child, the child answers on event_to_parent.                   *)
(*                                                                         *)
(* The data of a round is the number of the round.  Copies take time: they *)
(* begin in one step and end in another.  The calls that can fail throw;   *)
(* main() of either process catches it and returns, and the parent's       *)
(* static fork object then waits for the child.                            *)
(***************************************************************************)
EXTENDS Naturals

CONSTANTS
  Lengths,    \* the lengths of the blocks, in bytes
  Capacity,   \* bytes that the pipe holds
  MaxRounds   \* bound: rounds of the benchmarks

ASSUME CopyAssumption ==
  /\ Lengths \subseteq 1..15 /\ Capacity \in Nat \ {0} /\ MaxRounds \in Nat

VARIABLES
  HAVE_KNEM,        \* the build option
  parent, child,    \* what each process is doing
  op, n,            \* the parent's operation and length
  cop, cn,          \* what the child has decoded
  event_to_child, event_to_parent,   \* the counters
  data_pipe,        \* bytes in the pipe
  left,             \* bytes the parent, or the child, has still to move
  shmem,            \* the data in shared memory
  data,             \* the child's data
  round,            \* rounds begun
  failed            \* history: a call has failed

copyVars == <<HAVE_KNEM, parent, child, op, n, cop, cn, event_to_child, event_to_parent,
              data_pipe, left, shmem, data, round, failed>>

Width == 16                              \* n_mask + 1
Code == [quit |-> 1, shared_memory |-> 2, pipe |-> 3, vm_write |-> 4, knem |-> 5]
Ops == DOMAIN Code
Ways == Ops \ ({"quit"} \cup IF HAVE_KNEM THEN {} ELSE {"knem"})

CopyTypeOK ==
  /\ HAVE_KNEM \in BOOLEAN /\ failed \in BOOLEAN
  /\ parent \in {"start", "cookie", "choose", "copy", "vm", "signal", "piping",
                 "wait", "destroy", "exited"}
  /\ child \in {"start", "cookie", "read", "shared_memory", "pipe", "vm_write", "knem",
                "signal", "exited"}
  /\ op \in Ops /\ n \in 0..(Width - 1) /\ cop \in Ops /\ cn \in 0..(Width - 1)
  /\ event_to_child \in 0..(6 * Width - 1) /\ event_to_parent \in 0..1
  /\ data_pipe \in 0..Capacity
  /\ left \in [{"parent", "child"} -> 0..(Width - 1)]
  /\ shmem \in 0..MaxRounds /\ data \in 0..MaxRounds /\ round \in 0..MaxRounds

CopyInit ==
  /\ HAVE_KNEM \in BOOLEAN
  /\ parent = "start" /\ child = "start"
  /\ op = "quit" /\ n = 0 /\ cop = "quit" /\ cn = 0
  /\ event_to_child = 0 /\ event_to_parent = 0 /\ data_pipe = 0
  /\ left = [p \in {"parent", "child"} |-> 0]
  /\ shmem = 0 /\ data = 0 /\ round = 0 /\ failed = FALSE

-----------------------------------------------------------------------------
(* The parent. *)

events == <<event_to_child, event_to_parent>>
decoded == <<child, cop, cn>>
chosen == <<op, n, round>>
payload == <<data_pipe, left, shmem, data>>

(* An exception ends in main(), and fork_ is destroyed when it has been    *)
(* handled: the child is waited for, not killed.                           *)
Throws ==
  /\ failed' = TRUE /\ parent' = "destroy"
  /\ UNCHANGED <<HAVE_KNEM, decoded, chosen, payload, events>>

(* memfd::map(), and the region of knem with its cookie. *)
Start ==
  /\ parent = "start"
  /\ \/ /\ parent' = IF HAVE_KNEM THEN "cookie" ELSE "choose"
        /\ UNCHANGED <<HAVE_KNEM, decoded, chosen, payload, events, failed>>
     \/ Throws

SendCookie ==
  /\ parent = "cookie"
  /\ \/ /\ parent' = "choose" /\ data_pipe' = 1
        /\ UNCHANGED <<HAVE_KNEM, decoded, chosen, left, shmem, data, events, failed>>
     \/ Throws

(* Mutants: the pipe is filled before the child is told; the copy into     *)
(* shared memory is forgotten.                                             *)
FirstPipe(o) ==
  CASE o = "shared_memory" -> "copy" [] o = "vm_write" -> "vm"
    [] o = "pipe" -> "piping" [] OTHER -> "signal"
FirstSignal(o) == IF o = "vm_write" THEN "vm" ELSE "signal"

(* The first step of a round: shared memory and vm_write copy before they  *)
(* tell the child, the others tell it first.                               *)
First(o) ==
  CASE o = "shared_memory" -> "copy" [] o = "vm_write" -> "vm" [] OTHER -> "signal"

Begin(o, len) ==
  /\ parent = "choose" /\ round < MaxRounds
  /\ round' = round + 1 /\ op' = o /\ n' = len
  /\ parent' = First(o)
  /\ left' = [left EXCEPT !["parent"] = IF o = "pipe" THEN len ELSE 0]
  /\ UNCHANGED <<HAVE_KNEM, decoded, events, data_pipe, shmem, data, failed>>

Quit ==
  /\ parent = "choose"
  /\ event_to_child' = event_to_child + Code.quit * Width
  /\ parent' = "destroy"
  /\ UNCHANGED <<HAVE_KNEM, decoded, chosen, payload, event_to_parent, failed>>

(* std::copy() into the mapping has ended. *)
Copied ==
  /\ parent = "copy"
  /\ shmem' = round /\ parent' = "signal"
  /\ UNCHANGED <<HAVE_KNEM, decoded, chosen, events, data_pipe, left, data, failed>>

(* process_vm_writev() has ended: it wrote to the memory of the child, or  *)
(* failed.  The exception may also be caught where the benchmarks are run: *)
(* then the child is told to quit.                                         *)
VmWritten ==
  /\ parent = "vm"
  /\ \/ /\ data' = round /\ parent' = "signal"
        /\ UNCHANGED <<HAVE_KNEM, decoded, chosen, events, data_pipe, left, shmem, failed>>
     \/ Throws
     \/ /\ failed' = TRUE /\ parent' = "destroy"
        /\ event_to_child' = event_to_child + Code.quit * Width
        /\ UNCHANGED <<HAVE_KNEM, decoded, chosen, payload, event_to_parent>>

(* event_to_child.write(op|n): eventfds add. *)
Signal ==
  /\ parent = "signal"
  /\ event_to_child' = event_to_child + Code[op] * Width + n
  /\ parent' = IF left["parent"] > 0 THEN "piping" ELSE "wait"
  /\ UNCHANGED <<HAVE_KNEM, decoded, chosen, payload, event_to_parent, failed>>

(* write_as_single() of a blocking pipe: the kernel takes it byte by byte. *)
Piping ==
  /\ parent = "piping" /\ left["parent"] > 0 /\ data_pipe < Capacity
  /\ data_pipe' = data_pipe + 1
  /\ left' = [left EXCEPT !["parent"] = @ - 1]
  /\ parent' = IF left'["parent"] > 0 THEN "piping"
               ELSE IF First("pipe") = "piping" THEN "signal" ELSE "wait"
  /\ UNCHANGED <<HAVE_KNEM, decoded, chosen, events, shmem, data, failed>>

AnsweredAtOnce ==   \* mutant: the parent does not wait
  /\ parent = "wait" /\ event_to_parent' = 0 /\ parent' = "choose"
  /\ UNCHANGED <<HAVE_KNEM, decoded, chosen, payload, event_to_child, failed>>

Answered ==
  /\ parent = "wait" /\ event_to_parent > 0
  /\ event_to_parent' = 0 /\ parent' = "choose"
  /\ UNCHANGED <<HAVE_KNEM, decoded, chosen, payload, event_to_child, failed>>

(* ~fork(): waitpid(). *)
DestroyFork ==
  /\ parent = "destroy" /\ child = "exited"
  /\ parent' = "exited"
  /\ UNCHANGED <<HAVE_KNEM, decoded, chosen, payload, events, failed>>

-----------------------------------------------------------------------------
(* The child. *)

main == <<parent, op, n, round>>

ChildThrows ==
  /\ failed' = TRUE /\ child' = "exited"
  /\ UNCHANGED <<HAVE_KNEM, main, cop, cn, payload, events>>

ChildStart ==
  /\ child = "start"
  /\ \/ /\ child' = IF HAVE_KNEM THEN "cookie" ELSE "read"
        /\ UNCHANGED <<HAVE_KNEM, main, cop, cn, payload, events, failed>>
     \/ ChildThrows

ReadCookie ==
  /\ child = "cookie" /\ data_pipe > 0
  /\ data_pipe' = data_pipe - 1 /\ child' = "read"
  /\ UNCHANGED <<HAVE_KNEM, main, cop, cn, left, shmem, data, events, failed>>

(* event_to_child.read() takes the whole counter; op_mask and n_mask cut   *)
(* it in two.                                                              *)
ReadOp ==
  /\ child = "read" /\ event_to_child > 0
  /\ \E o \in Ops :
       /\ Code[o] = event_to_child \div Width
       /\ cop' = o /\ cn' = event_to_child % Width
       /\ child' = IF o = "quit" THEN "exited" ELSE o
       /\ left' = [left EXCEPT !["child"] = IF o = "pipe" THEN cn' ELSE 0]
  /\ event_to_child' = 0
  /\ UNCHANGED <<HAVE_KNEM, main, event_to_parent, data_pipe, shmem, data, failed>>

(* shared_child() and vm_write_child() up to event_to_parent.write() *)
Received ==
  /\ child \in {"shared_memory", "vm_write"}
  /\ data' = IF child = "shared_memory" THEN shmem ELSE data
  /\ child' = "signal"
  /\ UNCHANGED <<HAVE_KNEM, main, cop, cn, events, data_pipe, left, shmem, failed>>

(* pipe_child(): read_as_chunks() goes on until it has cn bytes. *)
Unpiping ==
  /\ child = "pipe" /\ (left["child"] > 0 => data_pipe > 0)
  /\ IF left["child"] > 0
     THEN /\ data_pipe' = data_pipe - 1
          /\ left' = [left EXCEPT !["child"] = @ - 1]
          /\ UNCHANGED <<child, data>>
     ELSE data' = round /\ child' = "signal" /\ UNCHANGED <<data_pipe, left>>
  /\ UNCHANGED <<HAVE_KNEM, main, cop, cn, events, shmem, failed>>

(* knem_child(): copy_from() reads the data of the parent. *)
KnemCopied ==
  /\ child = "knem"
  /\ \/ /\ data' = round /\ child' = "signal"
        /\ UNCHANGED <<HAVE_KNEM, main, cop, cn, events, data_pipe, left, shmem, failed>>
     \/ ChildThrows

(* event_to_parent.write() with its default. *)
ChildSignal ==
  /\ child = "signal"
  /\ event_to_parent' = event_to_parent + 1 /\ child' = "read"
  /\ UNCHANGED <<HAVE_KNEM, main, cop, cn, payload, event_to_child, failed>>

-----------------------------------------------------------------------------
Parent ==
  \/ Start \/ SendCookie \/ Quit \/ Copied \/ VmWritten \/ Signal \/ Piping
  \/ Answered \/ DestroyFork
  \/ \E o \in Ways, len \in Lengths : Begin(o, len)
Child ==
  \/ ChildStart \/ ReadCookie \/ ReadOp \/ Received \/ Unpiping \/ KnemCopied \/ ChildSignal

(* Both processes are scheduled whenever they are not blocked. *)
FairSpec == CopyInit /\ [][Parent \/ Child]_copyVars /\ WF_copyVars(Parent) /\ WF_copyVars(Child)

-----------------------------------------------------------------------------
(* The child never reads the sum of two operations: it works on the        *)
(* operation and the length of the current round.  Neither shared memory   *)
(* nor the memory of the child is used by both processes at a time, and no *)
(* byte stays in the pipe between rounds.                                  *)
TurnsRespected ==
  /\ CopyTypeOK
  /\ child \notin {"start", "cookie", "read", "exited"} => cop = op /\ cn = n
  /\ parent = "copy" => child # "shared_memory"
  /\ parent = "vm" => child \in {"start", "cookie", "read", "exited"}
  /\ parent = "choose" /\ round > 0 => data_pipe = 0

(* A round that has ended has brought its data to the child, and no answer *)
(* is left over that would end the next one too early.                     *)
RoundDelivers ==
  /\ parent = "choose" /\ round > 0 => data = round
  /\ parent \in {"choose", "copy", "vm"} => event_to_parent = 0

(* Unless a call fails both processes come to their end: with blocks that  *)
(* are larger than the pipe too.                                           *)
BothExit == <>(failed \/ (parent = "exited" /\ child = "exited"))
=============================================================================
