--------------------------- MODULE ProtocolProofs ---------------------------
(***************************************************************************)
(* Proofs about two protocols: between the two processes of                *)
(* InterprocessCopy, for any lengths that fit the mask, any capacity of    *)
(* the pipe and any number of rounds; and between the functions of Spawn,  *)
(* for a coroutine that awaits any number of operations, on a strand or on *)
(* an executor that runs its functions concurrently.                       *)
(***************************************************************************)
EXTENDS InterprocessCopy, Spawn, TLAPS

-----------------------------------------------------------------------------
(* The two processes: the inductive invariant. *)

Resting == {"start", "cookie", "read", "exited"}      \* of the child: no round in hand
Before == {"start", "cookie"}                         \* of the parent: no round begun
InRound == {"copy", "vm", "signal", "piping", "wait"}
Told == {"piping", "wait"}                            \* the child has been told
Over == {"destroy", "exited"}

Message == Code[op] * Width + n

(* What the parent has chosen for the round it is in. *)
Chosen ==
  /\ parent \in InRound => op \in Ops \ {"quit"} /\ n \in 1..(Width - 1) /\ round > 0
  /\ parent = "copy" => op = "shared_memory"
  /\ parent = "vm" => op = "vm_write"
  /\ parent = "piping" => op = "pipe"

(* The turn is with one process: at rest the child waits for the parent's  *)
(* message, which is there at most once, and then the parent for the       *)
(* child's answer.  A child that has failed never answers.                 *)
Turn ==
  \/ /\ parent \notin Told \cup Over /\ child \in Resting
     /\ event_to_child = 0 /\ event_to_parent = 0
  \/ /\ parent \in Told /\ child \in Resting
     /\ event_to_child = Message /\ event_to_parent = 0
  \/ /\ parent \in Told /\ child \in {op, "signal"} /\ cop = op /\ cn = n
     /\ event_to_child = 0 /\ event_to_parent = 0
  \/ /\ parent \in Told /\ child = "exited"
     /\ event_to_child = 0 /\ event_to_parent = 0
  \/ /\ parent = "wait" /\ child = "read"
     /\ event_to_child = 0 /\ event_to_parent = 1
  \/ /\ parent \in Over /\ child \in Resting
     /\ event_to_child \in {0, Width} /\ event_to_parent = 0

(* What the child has still to take from the pipe: the cookie of knem and  *)
(* the block of this round.                                                *)
Cookie == IF HAVE_KNEM /\ child \in {"start", "cookie"} THEN 1 ELSE 0
Due ==
  IF child = "pipe" THEN left["child"]
  ELSE IF op = "pipe" /\ parent \in Told \cup {"signal"} /\ child \in Resting
          /\ event_to_parent = 0
       THEN n ELSE 0

(* The bytes in the pipe and those the parent has still to write are those *)
(* that the child has still to read.                                       *)
Bytes ==
  /\ child = "cookie" \/ parent = "cookie" => HAVE_KNEM
  /\ parent \in Before => /\ data_pipe = 0 /\ left["parent"] = 0 /\ round = 0
                          /\ HAVE_KNEM => child \in {"start", "cookie", "exited"}
  /\ parent \in {"choose", "copy", "vm", "wait"} => left["parent"] = 0
  /\ parent = "piping" => left["parent"] > 0
  /\ parent = "signal" => left["parent"] = IF op = "pipe" THEN n ELSE 0
  /\ parent \notin Before \cup Over /\ child # "exited"
       => data_pipe + left["parent"] = Cookie + Due

(* Where the data of the round is. *)
Content ==
  /\ parent = "choose" /\ round > 0 => child = "read" /\ data = round
  /\ parent \in Told \cup {"signal"} /\ op = "shared_memory" => shmem = round
  /\ parent \in Told \cup {"signal"} /\ op = "vm_write" => data = round
  /\ child = "signal" \/ event_to_parent = 1 => data = round

CInv == CopyTypeOK /\ Chosen /\ Turn /\ Bytes /\ Content

-----------------------------------------------------------------------------
(* Lemmas about the encoding. *)

(* The operations and their codes. *)
LEMMA Codes ==
  /\ Ops = {"quit", "shared_memory", "pipe", "vm_write", "knem"}
  /\ Code["quit"] = 1 /\ Code["shared_memory"] = 2 /\ Code["pipe"] = 3
  /\ Code["vm_write"] = 4 /\ Code["knem"] = 5
  BY DEF Ops, Code

(* The counter of the eventfd gives back the operation and the length that *)
(* were added to it, when it was zero before.                              *)
LEMMA Decoding ==
  ASSUME NEW o \in Ops, NEW k \in 0..(Width - 1)
  PROVE  /\ Code[o] * Width + k \in 1..(6 * Width - 1)
         /\ (Code[o] * Width + k) \div Width = Code[o]
         /\ (Code[o] * Width + k) % Width = k
         /\ \A p \in Ops : Code[p] = Code[o] => p = o
  <1>1. Code[o] \in 1..5 /\ \A p \in Ops : Code[p] = Code[o] => p = o
    BY Codes
  <1>2. \A c \in 1..5 : /\ c * Width + k \in 1..(6 * Width - 1)
                        /\ (c * Width + k) \div Width = c
                        /\ (c * Width + k) % Width = k
    BY DEF Width
  <1> QED
    BY <1>1, <1>2

-----------------------------------------------------------------------------
(* Every step keeps the invariant. *)

(* The parent maps the memory, or fails. *)
LEMMA StartCInv ==
  ASSUME CInv, Start
  PROVE  CInv'
  <1> USE Codes, CopyAssumption DEF CInv, Start, Throws, decoded, chosen, payload, events
  <1>1. CopyTypeOK'
    BY DEF CopyTypeOK, Width, Turn, Told, Over, Resting
  <1>2. Chosen'
    BY DEF Chosen, InRound, CopyTypeOK
  <1>3. Turn'
    BY DEF Turn, Told, Over, Resting, Message, CopyTypeOK, Width
  <1>4. Bytes'
    BY DEF Bytes, Before, Told, Over, Resting, Cookie, Due, CopyTypeOK, Turn, Width
  <1>5. Content'
    BY DEF Content, Told, Over, Resting, CopyTypeOK, Turn, Bytes, Before
  <1> QED
    BY <1>1, <1>2, <1>3, <1>4, <1>5

(* The cookie is the first byte in the pipe. *)
LEMMA SendCookieCInv ==
  ASSUME CInv, SendCookie
  PROVE  CInv'
  <1> USE Codes, CopyAssumption DEF CInv, SendCookie, Throws, decoded, chosen, payload, events
  <1>1. CopyTypeOK'
    <2>1. data_pipe' \in 0..Capacity
      BY DEF CopyTypeOK
    <2> QED
      BY <2>1 DEF CopyTypeOK, Width
  <1>2. Chosen'
    BY DEF Chosen, InRound, CopyTypeOK
  <1>3. Turn'
    BY DEF Turn, Told, Over, Resting, Message, CopyTypeOK, Width
  <1>4. Bytes'
    BY DEF Bytes, Before, Told, Over, Resting, Cookie, Due, CopyTypeOK, Turn, Width
  <1>5. Content'
    <2>1. round' = 0 /\ child' \in Resting /\ event_to_parent' = 0
      BY DEF Bytes, Before, Turn, Told, Over
    <2>2. parent' \in {"choose", "destroy"}
      OBVIOUS
    <2> QED
      BY <2>1, <2>2 DEF Content, Told, Resting
  <1> QED
    BY <1>1, <1>2, <1>3, <1>4, <1>5

(* The parent tells the child to quit between two rounds. *)
LEMMA QuitCInv ==
  ASSUME CInv, Quit
  PROVE  CInv'
  <1> USE Codes, CopyAssumption DEF CInv, Quit, decoded, chosen, payload, events
  <1>1. CopyTypeOK'
    BY DEF CopyTypeOK, Width, Turn, Told, Over, Resting
  <1>2. Chosen'
    BY DEF Chosen, InRound, CopyTypeOK
  <1>3. Turn'
    BY DEF Turn, Told, Over, Resting, Message, CopyTypeOK, Width
  <1>4. Bytes'
    BY DEF Bytes, Before, Told, Over, Resting, Cookie, Due, CopyTypeOK, Turn, Width
  <1>5. Content'
    BY DEF Content, Told, Over, Resting, CopyTypeOK, Turn
  <1> QED
    BY <1>1, <1>2, <1>3, <1>4, <1>5

(* The copy into shared memory ends. *)
LEMMA CopiedCInv ==
  ASSUME CInv, Copied
  PROVE  CInv'
  <1> USE Codes, CopyAssumption DEF CInv, Copied, decoded, chosen, payload, events
  <1>1. CopyTypeOK'
    BY DEF CopyTypeOK, Width, Turn, Told, Over, Resting
  <1>2. Chosen'
    BY DEF Chosen, InRound, CopyTypeOK
  <1>3. Turn'
    BY DEF Turn, Told, Over, Resting, Message, CopyTypeOK, Width
  <1>4. Bytes'
    BY DEF Bytes, Before, Told, Over, Resting, Cookie, Due, CopyTypeOK, Turn, Width, Chosen
  <1>5. Content'
    BY DEF Content, Told, Over, Resting, CopyTypeOK, Turn, Chosen
  <1> QED
    BY <1>1, <1>2, <1>3, <1>4, <1>5

(* The copy into the memory of the child ends, or fails. *)
LEMMA VmWrittenCInv ==
  ASSUME CInv, VmWritten
  PROVE  CInv'
  <1> USE Codes, CopyAssumption DEF CInv, VmWritten, Throws, decoded, chosen, payload, events
  <1>1. CopyTypeOK'
    <2>1. event_to_child' \in 0..(6 * Width - 1)
      BY DEF CopyTypeOK, Width, Turn, Told, Over
    <2> QED
      BY <2>1 DEF CopyTypeOK, Width
  <1>2. Chosen'
    BY DEF Chosen, InRound, CopyTypeOK
  <1>3. Turn'
    BY DEF Turn, Told, Over, Resting, Message, CopyTypeOK, Width
  <1>4. Bytes'
    BY DEF Bytes, Before, Told, Over, Resting, Cookie, Due, CopyTypeOK, Turn, Width, Chosen
  <1>5. Content'
    BY DEF Content, Told, Over, Resting, CopyTypeOK, Turn, Chosen
  <1> QED
    BY <1>1, <1>2, <1>3, <1>4, <1>5

(* The child is told. *)
LEMMA SignalCInv ==
  ASSUME CInv, Signal
  PROVE  CInv'
  <1> USE Codes, CopyAssumption DEF CInv, Signal, decoded, chosen, payload, events
  <1>1. CopyTypeOK'
    BY DEF CopyTypeOK, Width, Turn, Told, Over, Resting
  <1>2. Chosen'
    BY DEF Chosen, InRound, CopyTypeOK, Bytes
  <1>3. Turn'
    BY DEF Turn, Told, Over, Resting, Message, CopyTypeOK, Width
  <1>4. Bytes'
    BY DEF Bytes, Before, Told, Over, Resting, Cookie, Due, CopyTypeOK, Turn, Width
  <1>5. Content'
    BY DEF Content, Told, Over, Resting, CopyTypeOK, Turn
  <1> QED
    BY <1>1, <1>2, <1>3, <1>4, <1>5

(* A byte goes into the pipe. *)
LEMMA PipingCInv ==
  ASSUME CInv, Piping
  PROVE  CInv'
  <1> USE Codes, CopyAssumption DEF CInv, Piping, First, decoded, chosen, payload, events
  <1>1. CopyTypeOK'
    BY DEF CopyTypeOK, Width, Turn, Told, Over, Resting
  <1>2. Chosen'
    BY DEF Chosen, InRound, CopyTypeOK
  <1>3. Turn'
    BY DEF Turn, Told, Over, Resting, Message, CopyTypeOK, Width
  <1>4. Bytes'
    BY DEF Bytes, Before, Told, Over, Resting, Cookie, Due, CopyTypeOK, Turn, Width
  <1>5. Content'
    BY DEF Content, Told, Over, Resting, CopyTypeOK, Turn
  <1> QED
    BY <1>1, <1>2, <1>3, <1>4, <1>5

(* The answer ends the round. *)
LEMMA AnsweredCInv ==
  ASSUME CInv, Answered
  PROVE  CInv'
  <1> USE Codes, CopyAssumption DEF CInv, Answered, decoded, chosen, payload, events
  <1>1. CopyTypeOK'
    BY DEF CopyTypeOK, Width, Turn, Told, Over, Resting
  <1>2. Chosen'
    BY DEF Chosen, InRound, CopyTypeOK
  <1>3. Turn'
    BY DEF Turn, Told, Over, Resting, Message, CopyTypeOK, Width
  <1>4. Bytes'
    BY DEF Bytes, Before, Told, Over, Resting, Cookie, Due, CopyTypeOK, Turn, Width
  <1>5. Content'
    BY DEF Content, Told, Over, Resting, CopyTypeOK, Turn
  <1> QED
    BY <1>1, <1>2, <1>3, <1>4, <1>5

(* The child has been waited for. *)
LEMMA DestroyCInv ==
  ASSUME CInv, DestroyFork
  PROVE  CInv'
  <1> USE Codes, CopyAssumption DEF CInv, DestroyFork, decoded, chosen, payload, events
  <1>1. CopyTypeOK'
    BY DEF CopyTypeOK, Width, Turn, Told, Over, Resting
  <1>2. Chosen'
    BY DEF Chosen, InRound, CopyTypeOK
  <1>3. Turn'
    BY DEF Turn, Told, Over, Resting, Message, CopyTypeOK, Width
  <1>4. Bytes'
    BY DEF Bytes, Before, Told, Over, Resting, Cookie, Due, CopyTypeOK, Turn, Width
  <1>5. Content'
    BY DEF Content, Told, Over, Resting, CopyTypeOK, Turn
  <1> QED
    BY <1>1, <1>2, <1>3, <1>4, <1>5

(* The child starts, or fails. *)
LEMMA ChildStartCInv ==
  ASSUME CInv, ChildStart
  PROVE  CInv'
  <1> USE Codes, CopyAssumption DEF CInv, ChildStart, ChildThrows, main, payload, events
  <1>1. CopyTypeOK'
    BY DEF CopyTypeOK, Width, Turn, Told, Over, Resting
  <1>2. Chosen'
    BY DEF Chosen, InRound, CopyTypeOK
  <1>3. Turn'
    BY DEF Turn, Told, Over, Resting, Message, CopyTypeOK, Width
  <1>4. Bytes'
    BY DEF Bytes, Before, Told, Over, Resting, Cookie, Due, CopyTypeOK, Turn, Width
  <1>5. Content'
    BY DEF Content, Told, Over, Resting, CopyTypeOK, Turn
  <1> QED
    BY <1>1, <1>2, <1>3, <1>4, <1>5

(* The child takes the cookie out of the pipe. *)
LEMMA ReadCookieCInv ==
  ASSUME CInv, ReadCookie
  PROVE  CInv'
  <1> USE Codes, CopyAssumption DEF CInv, ReadCookie, main, payload, events
  <1>1. CopyTypeOK'
    BY DEF CopyTypeOK, Width, Turn, Told, Over, Resting
  <1>2. Chosen'
    BY DEF Chosen, InRound, CopyTypeOK
  <1>3. Turn'
    BY DEF Turn, Told, Over, Resting, Message, CopyTypeOK, Width
  <1>4. Bytes'
    BY DEF Bytes, Before, Told, Over, Resting, Cookie, Due, CopyTypeOK, Turn, Width
  <1>5. Content'
    BY DEF Content, Told, Over, Resting, CopyTypeOK, Turn
  <1> QED
    BY <1>1, <1>2, <1>3, <1>4, <1>5

(* The child has its data in shared memory or in its own. *)
LEMMA ReceivedCInv ==
  ASSUME CInv, Received
  PROVE  CInv'
  <1> USE Codes, CopyAssumption DEF CInv, Received, main, payload, events
  <1>1. CopyTypeOK'
    BY DEF CopyTypeOK, Width, Turn, Told, Over, Resting
  <1>2. Chosen'
    BY DEF Chosen, InRound, CopyTypeOK
  <1>3. Turn'
    BY DEF Turn, Told, Over, Resting, Message, CopyTypeOK, Width
  <1>4. Bytes'
    BY DEF Bytes, Before, Told, Over, Resting, Cookie, Due, CopyTypeOK, Turn, Width
  <1>5. Content'
    BY DEF Content, Told, Over, Resting, CopyTypeOK, Turn
  <1> QED
    BY <1>1, <1>2, <1>3, <1>4, <1>5

(* The child takes a byte out of the pipe, or has them all. *)
LEMMA UnpipingCInv ==
  ASSUME CInv, Unpiping
  PROVE  CInv'
  <1> USE Codes, CopyAssumption DEF CInv, Unpiping, main, payload, events
  <1>1. CopyTypeOK'
    BY DEF CopyTypeOK, Width, Turn, Told, Over, Resting
  <1>2. Chosen'
    BY DEF Chosen, InRound, CopyTypeOK
  <1>3. Turn'
    BY DEF Turn, Told, Over, Resting, Message, CopyTypeOK, Width
  <1>4. Bytes'
    BY DEF Bytes, Before, Told, Over, Resting, Cookie, Due, CopyTypeOK, Turn, Width
  <1>5. Content'
    BY DEF Content, Told, Over, Resting, CopyTypeOK, Turn
  <1> QED
    BY <1>1, <1>2, <1>3, <1>4, <1>5

(* The child copies from the parent, or fails. *)
LEMMA KnemCopiedCInv ==
  ASSUME CInv, KnemCopied
  PROVE  CInv'
  <1> USE Codes, CopyAssumption DEF CInv, KnemCopied, ChildThrows, main, payload, events
  <1>1. CopyTypeOK'
    BY DEF CopyTypeOK, Width, Turn, Told, Over, Resting
  <1>2. Chosen'
    BY DEF Chosen, InRound, CopyTypeOK
  <1>3. Turn'
    BY DEF Turn, Told, Over, Resting, Message, CopyTypeOK, Width
  <1>4. Bytes'
    BY DEF Bytes, Before, Told, Over, Resting, Cookie, Due, CopyTypeOK, Turn, Width
  <1>5. Content'
    BY DEF Content, Told, Over, Resting, CopyTypeOK, Turn
  <1> QED
    BY <1>1, <1>2, <1>3, <1>4, <1>5

(* The child answers. *)
LEMMA ChildSignalCInv ==
  ASSUME CInv, ChildSignal
  PROVE  CInv'
  <1> USE Codes, CopyAssumption DEF CInv, ChildSignal, main, payload, events
  <1>1. CopyTypeOK'
    BY DEF CopyTypeOK, Width, Turn, Told, Over, Resting
  <1>2. Chosen'
    BY DEF Chosen, InRound, CopyTypeOK
  <1>3. Turn'
    <2>1. left["parent"] = 0
      BY DEF Bytes, Before, Told, Over, Resting, Cookie, Due, Turn, CopyTypeOK
    <2>2. parent = "wait"
      BY <2>1 DEF Turn, Told, Over, Resting, Bytes
    <2> QED
      BY <2>2 DEF Turn, Told, Over, Resting, CopyTypeOK
  <1>4. Bytes'
    BY DEF Bytes, Before, Told, Over, Resting, Cookie, Due, CopyTypeOK, Turn, Width
  <1>5. Content'
    BY DEF Content, Told, Over, Resting, CopyTypeOK, Turn
  <1> QED
    BY <1>1, <1>2, <1>3, <1>4, <1>5

(* A round begins. *)
LEMMA BeginCInv ==
  ASSUME CInv, NEW o \in Ways, NEW len \in Lengths, Begin(o, len)
  PROVE  CInv'
  <1> USE Codes, CopyAssumption DEF CInv, Begin, First, decoded, events
  <1>0. o \in Ops \ {"quit"} /\ len \in 1..(Width - 1) /\ op' = o /\ n' = len
    BY DEF Ways, Width
  <1>1. CopyTypeOK'
    BY <1>0 DEF CopyTypeOK, Width
  <1>2. Chosen'
    BY <1>0 DEF Chosen, InRound, CopyTypeOK
  <1>3. Turn'
    BY <1>0 DEF Turn, Told, Over, Resting, CopyTypeOK
  <1>4. Bytes'
    BY <1>0 DEF Bytes, Before, Told, Over, Resting, Cookie, Due, CopyTypeOK, Turn, Width
  <1>5. Content'
    BY <1>0 DEF Content, Told, Over, Resting, CopyTypeOK, Turn
  <1> QED
    BY <1>1, <1>2, <1>3, <1>4, <1>5

(* The child takes the message: it is the one that the parent has sent for *)
(* this round, or the order to quit.                                       *)
LEMMA ReadOpCInv ==
  ASSUME CInv, ReadOp
  PROVE  CInv'
  <1> USE Codes, CopyAssumption DEF CInv, ReadOp, main
  <1>1. PICK o \in Ops :
          /\ Code[o] = event_to_child \div Width
          /\ cop' = o /\ cn' = event_to_child % Width
          /\ child' = IF o = "quit" THEN "exited" ELSE o
          /\ left' = [left EXCEPT !["child"] = IF o = "pipe" THEN cn' ELSE 0]
    OBVIOUS
  <1>2. child = "read" /\ event_to_child > 0 /\ event_to_child' = 0
        /\ UNCHANGED <<HAVE_KNEM, parent, op, n, round, event_to_parent, data_pipe, shmem,
                       data, failed>>
    OBVIOUS
  <1>3. \/ parent \in Told /\ event_to_child = Message /\ event_to_parent = 0
        \/ parent \in Over /\ event_to_child = Width /\ event_to_parent = 0
    BY <1>2 DEF Turn, Told, Over
  <1>4. CASE parent \in Told /\ event_to_child = Message /\ event_to_parent = 0
    <2>1. o = op /\ cn' = n /\ op # "quit"
      BY <1>1, <1>4, Decoding DEF Message, CopyTypeOK, Chosen, Told, InRound
    <2>2. cop' = op /\ child' = op /\ left' = [left EXCEPT !["child"] = IF op = "pipe" THEN n ELSE 0]
      BY <1>1, <2>1
    <2>3. CopyTypeOK'
      BY <1>2, <2>1, <2>2 DEF CopyTypeOK, Width
    <2>4. Chosen'
      BY <1>2 DEF Chosen
    <2>5. Turn'
      BY <1>2, <1>4, <2>1, <2>2 DEF Turn, Told
    <2>6. Bytes'
      BY <1>2, <1>4, <2>1, <2>2 DEF Bytes, Before, Told, Over, Resting, Cookie, Due, CopyTypeOK
    <2>7. Content'
      BY <1>2, <1>4, <2>1, <2>2 DEF Content, Told, CopyTypeOK
    <2> QED
      BY <2>3, <2>4, <2>5, <2>6, <2>7
  <1>5. CASE parent \in Over /\ event_to_child = Width /\ event_to_parent = 0
    <2>1. o = "quit" /\ cn' = 0
      <3>1. event_to_child \div Width = 1 /\ event_to_child % Width = 0
        BY <1>5 DEF Width
      <3>2. Code[o] = 1 /\ cn' = 0
        BY <1>1, <3>1
      <3> QED
        BY <1>1, <3>2
    <2>2. child' = "exited" /\ cop' = "quit" /\ left' = [left EXCEPT !["child"] = 0]
      BY <1>1, <2>1
    <2>3. CopyTypeOK'
      BY <1>2, <2>1, <2>2 DEF CopyTypeOK, Width
    <2>4. Chosen'
      BY <1>2 DEF Chosen
    <2>5. Turn'
      BY <1>2, <1>5, <2>2 DEF Turn, Resting
    <2>6. Bytes'
      BY <1>2, <1>5, <2>2 DEF Bytes, Before, Over, CopyTypeOK
    <2>7. Content'
      BY <1>2, <1>5, <2>2 DEF Content, Told, Over, CopyTypeOK
    <2> QED
      BY <2>3, <2>4, <2>5, <2>6, <2>7
  <1> QED
    BY <1>3, <1>4, <1>5

-----------------------------------------------------------------------------

(* Before either process has done anything. *)
LEMMA InitCInv == CopyInit => CInv
  <1> SUFFICES ASSUME CopyInit PROVE CInv
    OBVIOUS
  <1> USE Codes, CopyAssumption DEF CopyInit
  <1>1. CopyTypeOK
    <2>1. left \in [{"parent", "child"} -> 0..(Width - 1)]
      BY DEF Width
    <2>2. /\ op \in Ops /\ n \in 0..(Width - 1) /\ cop \in Ops /\ cn \in 0..(Width - 1)
          /\ event_to_child \in 0..(6 * Width - 1) /\ event_to_parent \in 0..1
          /\ data_pipe \in 0..Capacity
          /\ shmem \in 0..MaxRounds /\ data \in 0..MaxRounds /\ round \in 0..MaxRounds
      BY DEF Width
    <2> QED
      BY <2>1, <2>2 DEF CopyTypeOK
  <1>2. Chosen /\ Content
    BY DEF Chosen, InRound, Content, Told
  <1>3. Turn
    BY DEF Turn, Told, Over, Resting
  <1>4. Bytes
    <2>1. left["parent"] = 0
      OBVIOUS
    <2> QED
      BY <2>1 DEF Bytes, Before, Over
  <1> QED
    BY <1>1, <1>2, <1>3, <1>4 DEF CInv

(* Every step of either process keeps the invariant. *)
LEMMA NextCInv == CInv /\ [Parent \/ Child]_copyVars => CInv'
  <1> SUFFICES ASSUME CInv, [Parent \/ Child]_copyVars PROVE CInv'
    OBVIOUS
  <1>1. CASE Start \/ SendCookie \/ Quit \/ Copied \/ VmWritten
    BY <1>1, StartCInv, SendCookieCInv, QuitCInv, CopiedCInv, VmWrittenCInv
  <1>2. CASE Signal \/ Piping \/ Answered \/ DestroyFork
    BY <1>2, SignalCInv, PipingCInv, AnsweredCInv, DestroyCInv
  <1>3. ASSUME NEW o \in Ways, NEW len \in Lengths, Begin(o, len) PROVE CInv'
    BY <1>3, BeginCInv
  <1>4. CASE ChildStart \/ ReadCookie \/ ReadOp \/ Received
    BY <1>4, ChildStartCInv, ReadCookieCInv, ReadOpCInv, ReceivedCInv
  <1>5. CASE Unpiping \/ KnemCopied \/ ChildSignal
    BY <1>5, UnpipingCInv, KnemCopiedCInv, ChildSignalCInv
  <1>6. CASE UNCHANGED copyVars
    <2> USE <1>6 DEF copyVars, CInv
    <2>1. CopyTypeOK' /\ Chosen' /\ Content'
      BY DEF CopyTypeOK, Chosen, Content
    <2>2. Turn' /\ Bytes'
      BY DEF Turn, Message, Bytes, Cookie, Due
    <2> QED
      BY <2>1, <2>2
  <1> QED
    BY <1>1, <1>2, <1>3, <1>4, <1>5, <1>6 DEF Parent, Child

(* The inductive invariant holds of every behaviour of the two processes. *)
THEOREM CopyInvariance == FairSpec => []CInv
  BY InitCInv, NextCInv, PTL DEF FairSpec

(* The child never works on anything but the current round, the memory     *)
(* both use is with one of them at a time, and no byte is left in the pipe *)
(* between rounds, for all lengths up to the mask and any pipe.            *)
THEOREM TurnsRespectedCorrect == FairSpec => []TurnsRespected
  <1>1. ASSUME CInv PROVE TurnsRespected
    <2> USE <1>1 DEF CInv
    <2>1. child \notin Resting => cop = op /\ cn = n
      BY DEF Turn, Resting
    <2>2. parent \in {"copy", "vm"} => child \in Resting
      BY DEF Turn, Told, Over
    <2>3. ASSUME parent = "choose", round > 0 PROVE data_pipe = 0
      BY <2>3 DEF Content, Bytes, Before, Over, Cookie, Due, Told, Resting, CopyTypeOK
    <2> QED
      BY <2>1, <2>2, <2>3 DEF TurnsRespected, Resting
  <1> QED
    BY <1>1, CopyInvariance, PTL

(* A round that has ended has brought its data to the child, whichever way *)
(* it took, and no answer of it is left for the next.                      *)
THEOREM RoundDeliversCorrect == FairSpec => []RoundDelivers
  <1>1. ASSUME CInv PROVE RoundDelivers
    BY <1>1 DEF CInv, Content, Turn, Told, Over, RoundDelivers
  <1> QED
    BY <1>1, CopyInvariance, PTL

-----------------------------------------------------------------------------
(* The coroutine and its frames: the inductive invariant. *)

(* The frames up to the latest have been started in turn, and only the     *)
(* latest can still be waiting to resume the coroutine or be inside it.    *)
FramesInTurn ==
  /\ \A k \in Frames : k > ops => frame[k] = "none"
  /\ \A k \in Frames : k < ops => frame[k] \in {"leaving", "done"}
  /\ frame[ops] # "none"

(* The startup function owns the state until it returns, the handler of    *)
(* the latest operation until it runs, and nobody else does.               *)
OwnersInTurn ==
  /\ owns \subseteq {0, ops}
  /\ 0 \in owns <=> frame[0] # "done"
  /\ frame[ops] = "queued" => ops \in owns
  /\ ops # 0 /\ ops \in owns => frame[ops] = "queued"

(* The coroutine waits for the latest frame. *)
Waiting ==
  /\ mem.fiber \in {"fresh", "suspended"} /\ mem.f = "coroutine"
  /\ mem.destroyed = 0 /\ mem.session /\ ~mem.unwound /\ mem.ub = {}
  /\ completed = << >> /\ frame[ops] = "queued"

(* The coroutine runs inside the latest frame. *)
Inside ==
  /\ mem.fiber = "running" /\ mem.f = "caller"
  /\ mem.destroyed = 0 /\ mem.session /\ ~mem.unwound /\ mem.ub = {}
  /\ completed = << >> /\ frame[ops] = "in" /\ caller = ops
  /\ caller = 0 => result = "ok"

(* The coroutine has ended by itself, ... *)
Ended(fiber) ==
  /\ mem.fiber = fiber /\ mem.f = "null"
  /\ mem.destroyed = 1 /\ mem.session /\ ~mem.unwound /\ mem.ub = {}
  /\ frame[ops] = "in" /\ caller = ops

(* ... and is about to return to its frame, ... *)
Ending ==
  /\ Ended("ended") /\ Len(completed) = 1
  /\ result = "error" => completed = <<"exception">>

(* ... or cannot. *)
Stuck == Ended("broken") /\ completed = << >>

(* The coroutine is gone, and its finalizer was the last to use the state. *)
Gone ==
  /\ mem.fiber = "gone" /\ mem.destroyed > 0 /\ ~mem.session
  /\ mem.unwound => completed = << >> /\ mem.ub = {"finalizer"}
  /\ ~mem.unwound => mem.destroyed = 1 /\ mem.ub = {}
  /\ frame[ops] \in {"leaving", "done"}

(* The startup function has destroyed the state after it was gone. *)
Broken ==
  /\ mem.fiber = "gone" /\ mem.unwound /\ completed = << >>
  /\ mem.ub = {"frame", "finalizer"}

SInv ==
  /\ TypeOK
  /\ 0 \in thrown => Broken
  /\ 0 \notin thrown =>
       FramesInTurn /\ OwnersInTurn /\ (Waiting \/ Inside \/ Ending \/ Stuck \/ Gone)

-----------------------------------------------------------------------------
(* Lemmas about the state. *)

Memory ==
  [fiber : {"fresh", "running", "suspended", "ended", "broken", "gone"},
   f : {"coroutine", "caller", "null"}, destroyed : 0..2,
   session : BOOLEAN, unwound : BOOLEAN, ub : SUBSET Culprits]

(* The only owner of a suspended coroutine destroys it: its stack is       *)
(* unwound, and the fiber_data destroyed twice.                            *)
LEMMA DestroySuspended ==
  ASSUME NEW m \in Memory, m.fiber = "suspended", m.f = "coroutine", m.destroyed = 0,
         m.ub = {}, ~m.unwound
  PROVE  /\ Destroy(m) \in Memory
         /\ Destroy(m).fiber = "gone" /\ Destroy(m).f = "null" /\ Destroy(m).destroyed = 2
         /\ ~Destroy(m).session /\ Destroy(m).unwound /\ Destroy(m).ub = {"finalizer"}
  <1> PICK d : d = [m EXCEPT !.destroyed = @ + 1, !.f = "null"]
    OBVIOUS
  <1>1. Destroy(m) = Unwind(d)
    BY DEF Destroy
  <1>2. d \in Memory
    <2>1. m.destroyed + 1 \in 0..2
      OBVIOUS
    <2> QED
      BY <2>1, Zenon DEF Memory
  <1>3. d.f = "null" /\ d.destroyed = 1 /\ d.ub = {}
    BY DEF Memory
  <1> PICK e : e = Used(d, "finalizer")
    OBVIOUS
  <1>4. e = [d EXCEPT !.ub = {"finalizer"}]
    <2>1. d.ub \cup {"finalizer"} = {"finalizer"}
      BY <1>3
    <2>2. e = [d EXCEPT !.ub = d.ub \cup {"finalizer"}]
      BY <1>3 DEF Used
    <2> QED
      BY <2>1, <2>2, Zenon
  <1>5. e \in Memory /\ e.f = "null" /\ e.destroyed = 1 /\ e.ub = {"finalizer"}
    <2>1. {"finalizer"} \in SUBSET Culprits
      BY DEF Culprits
    <2>2. e \in Memory
      BY <1>2, <1>4, <2>1, Zenon DEF Memory
    <2>3. e.f = "null" /\ e.destroyed = 1 /\ e.ub = {"finalizer"}
      BY <1>2, <1>3, <1>4 DEF Memory
    <2> QED
      BY <2>2, <2>3
  <1> PICK u : u = Unwind(d)
    OBVIOUS
  <1>6. u = [e EXCEPT !.fiber = "gone", !.session = FALSE, !.unwound = TRUE, !.destroyed = @ + 1]
    BY DEF Unwind
  <1>7. u \in Memory
    <2>1. e.destroyed + 1 \in 0..2
      BY <1>5
    <2> QED
      BY <1>5, <1>6, <2>1, Zenon DEF Memory
  <1>8. /\ u.fiber = "gone" /\ u.f = "null" /\ u.destroyed = 2
        /\ ~u.session /\ u.unwound /\ u.ub = {"finalizer"}
    <2>1. DOMAIN e = {"fiber", "f", "destroyed", "session", "unwound", "ub"}
      BY <1>5 DEF Memory
    <2>2. u.fiber = "gone" /\ u.f = e.f /\ u.destroyed = e.destroyed + 1 /\ u.ub = e.ub
      BY <1>6, <2>1
    <2>3. u.session = FALSE /\ u.unwound = TRUE
      BY <1>6, <2>1
    <2> QED
      BY <1>5, <2>2, <2>3
  <1> QED
    BY <1>1, <1>7, <1>8

(* The only owner of a coroutine that has never run destroys it. *)
LEMMA DestroyFresh ==
  ASSUME NEW m \in Memory, m.fiber = "fresh", m.f = "coroutine", m.destroyed = 0,
         m.ub = {}, ~m.unwound
  PROVE  /\ Destroy(m) \in Memory
         /\ Destroy(m).fiber = "gone" /\ Destroy(m).destroyed = 1
         /\ ~Destroy(m).session /\ ~Destroy(m).unwound /\ Destroy(m).ub = {}
  <1> PICK d : d = [m EXCEPT !.destroyed = @ + 1, !.f = "null"]
    OBVIOUS
  <1>1. Destroy(m) = [d EXCEPT !.fiber = "gone", !.session = FALSE]
    BY DEF Destroy
  <1>2. d \in Memory
    <2>1. m.destroyed + 1 \in 0..2
      OBVIOUS
    <2> QED
      BY <2>1, Zenon DEF Memory
  <1>3. d.destroyed = 1 /\ d.ub = {} /\ ~d.unwound
    BY DEF Memory
  <1> PICK u : u = [d EXCEPT !.fiber = "gone", !.session = FALSE]
    OBVIOUS
  <1>4. u \in Memory
    BY <1>2, Zenon DEF Memory
  <1>5. u.fiber = "gone" /\ u.destroyed = 1 /\ ~u.session /\ ~u.unwound /\ u.ub = {}
    BY <1>2, <1>3 DEF Memory
  <1> QED
    BY <1>1, <1>4, <1>5

(* A second owner uses what is destroyed. *)
LEMMA DestroyAgain ==
  ASSUME NEW m \in Memory, m.destroyed > 0, m.ub = {"finalizer"}
  PROVE  /\ Destroy(m) \in Memory /\ Destroy(m).ub = {"frame", "finalizer"}
         /\ Destroy(m).fiber = m.fiber /\ Destroy(m).unwound = m.unwound
  <1>1. Destroy(m) = [m EXCEPT !.ub = {"frame", "finalizer"}]
    <2>1. m.ub \cup {"frame"} = {"frame", "finalizer"}
      OBVIOUS
    <2> QED
      BY <2>1 DEF Destroy
  <1>2. {"frame", "finalizer"} \in SUBSET Culprits
    BY DEF Culprits
  <1>3. Destroy(m) \in Memory
    BY <1>1, <1>2, Zenon DEF Memory
  <1>4. /\ Destroy(m).ub = {"frame", "finalizer"}
        /\ Destroy(m).fiber = m.fiber /\ Destroy(m).unwound = m.unwound
    BY <1>1 DEF Memory
  <1> QED
    BY <1>3, <1>4

(* The program goes on only in histories in which no first initiation has  *)
(* thrown.                                                                 *)
LEMMA Going ==
  ASSUME SInv, GoesOn
  PROVE  /\ 0 \notin thrown /\ FramesInTurn /\ OwnersInTurn
         /\ Waiting \/ Inside \/ Ending \/ Gone
  <1>1. 0 \notin thrown
    BY DEF SInv, GoesOn, Broken
  <1> QED
    BY <1>1 DEF SInv, GoesOn, Stuck, Ended

(* The types of the frames' part of the state. *)
LEMMA FrameTypes ==
  ASSUME SInv
  PROVE  /\ mem \in Memory
         /\ frame \in [Frames -> {"none", "queued", "in", "leaving", "done"}]
         /\ owns \subseteq Frames /\ caller \in Frames /\ ops \in Frames
         /\ ops \in Nat /\ MaxOps \in Nat /\ 0 \in Frames
  BY SpawnAssumption DEF SInv, TypeOK, Memory, Frames

-----------------------------------------------------------------------------

(* Before the executor has run the startup function. *)
LEMMA InitSInv == Init => SInv
  <1> SUFFICES ASSUME Init PROVE SInv
    OBVIOUS
  <1>1. 0 \in Frames /\ Frames \subseteq Nat
    BY SpawnAssumption DEF Frames
  <1>2. mem \in Memory
    BY DEF Init, Memory
  <1>3. completed \in Seq({"return", "exception"}) /\ Len(completed) <= 1
    BY DEF Init
  <1>4. frame \in [Frames -> {"none", "queued", "in", "leaving", "done"}]
    BY DEF Init
  <1>5. TypeOK
    BY <1>1, <1>2, <1>3, <1>4 DEF Init, TypeOK, Memory
  <1>6. FramesInTurn /\ OwnersInTurn /\ Waiting /\ 0 \notin thrown
    BY <1>1 DEF Init, FramesInTurn, OwnersInTurn, Waiting
  <1> QED
    BY <1>5, <1>6 DEF SInv

(* A frame that resumes finds the coroutine where it expects it. *)
LEMMA ResumeSInv ==
  ASSUME SInv, NEW k \in Frames, Resume(k)
  PROVE  SInv'
  <1>0. GoesOn /\ frame[k] = "queued"
    BY DEF Resume, MayRun
  <1>1. 0 \notin thrown /\ FramesInTurn /\ OwnersInTurn
    BY <1>0, Going
  <1>2. k = ops
    BY <1>0, <1>1, FrameTypes DEF FramesInTurn, Frames
  <1>3. Waiting
    BY <1>0, <1>2, Going DEF Inside, Ending, Ended, Gone
  <1>4. /\ mem' = [mem EXCEPT !.fiber = "running", !.f = "caller"]
        /\ frame' = [frame EXCEPT ![k] = "in"] /\ owns' = Released(k) /\ caller' = k
        /\ UNCHANGED <<strand, stopped, ops, completed, thrown>>
    BY <1>3 DEF Resume, Waiting
  <1>5. /\ mem' \in Memory /\ mem'.fiber = "running" /\ mem'.f = "caller"
        /\ mem'.destroyed = 0 /\ mem'.session /\ ~mem'.unwound /\ mem'.ub = {}
    BY <1>0, <1>3, <1>4, FrameTypes DEF Waiting, Memory
  <1>6. /\ frame' \in [Frames -> {"none", "queued", "in", "leaving", "done"}]
        /\ frame'[ops] = "in" /\ \A j \in Frames : j # ops => frame'[j] = frame[j]
    BY <1>2, <1>4, FrameTypes
  <1>7. result' \in {"ok", "eof", "error"} /\ (k = 0 => result' = "ok")
    BY DEF Resume
  <1>8. owns' \subseteq owns /\ (k # 0 => k \notin owns')
    BY <1>4 DEF Released
  <1>9. TypeOK'
    BY <1>4, <1>5, <1>6, <1>7, <1>8 DEF SInv, TypeOK, Memory
  <1>10. FramesInTurn'
    BY <1>1, <1>4, <1>6, FrameTypes DEF FramesInTurn, Frames
  <1>11. OwnersInTurn'
    <2>1. 0 \in owns' <=> frame'[0] # "done"
      <3>1. 0 \in owns <=> frame[0] # "done"
        BY <1>1 DEF OwnersInTurn
      <3>2. 0 \in owns' <=> 0 \in owns
        BY <1>4 DEF Released
      <3>3. frame'[0] = "done" <=> frame[0] = "done"
        BY <1>0, <1>2, <1>6, FrameTypes
      <3> QED
        BY <3>1, <3>2, <3>3
    <2> QED
      BY <1>1, <1>2, <1>4, <1>6, <1>8, <2>1 DEF OwnersInTurn
  <1>12. Inside'
    BY <1>2, <1>3, <1>4, <1>5, <1>6, <1>7 DEF Inside, Waiting
  <1> QED
    BY <1>1, <1>4, <1>9, <1>10, <1>11, <1>12 DEF SInv

(* A frame that returns has nothing left to destroy. *)
LEMMA LeaveSInv ==
  ASSUME SInv, NEW k \in Frames, Leave(k)
  PROVE  SInv'
  <1>0. GoesOn /\ frame[k] = "leaving"
    BY DEF Leave
  <1>1. 0 \notin thrown /\ FramesInTurn /\ OwnersInTurn
    BY <1>0, Going
  <1>2. /\ mem' = mem /\ owns' = owns \ {k} /\ frame' = [frame EXCEPT ![k] = "done"]
        /\ UNCHANGED <<strand, stopped, caller, ops, result, completed, thrown>>
    BY DEF Leave, AtReturn
  <1>3. /\ frame' \in [Frames -> {"none", "queued", "in", "leaving", "done"}]
        /\ frame'[k] = "done" /\ \A j \in Frames : j # k => frame'[j] = frame[j]
    BY <1>2, FrameTypes
  <1>4. TypeOK'
    BY <1>2, <1>3 DEF SInv, TypeOK
  <1>5. k <= ops
    BY <1>0, <1>1, FrameTypes DEF FramesInTurn, Frames
  <1>6. FramesInTurn'
    BY <1>1, <1>2, <1>3, <1>5, FrameTypes DEF FramesInTurn, Frames
  <1>7. OwnersInTurn'
    BY <1>0, <1>1, <1>2, <1>3, FrameTypes DEF OwnersInTurn
  <1>8. CASE k = ops
    <2>1. Gone
      BY <1>0, <1>8, Going DEF Waiting, Inside, Ending, Ended
    <2>2. Gone'
      BY <1>2, <1>3, <1>8, <2>1 DEF Gone
    <2> QED
      BY <1>1, <1>2, <1>4, <1>6, <1>7, <2>2 DEF SInv
  <1>9. CASE k # ops
    <2>1. frame'[ops] = frame[ops]
      BY <1>3, <1>9, FrameTypes
    <2>2. (Waiting \/ Inside \/ Ending \/ Gone)'
      BY <1>0, <1>2, <2>1, Going DEF Waiting, Inside, Ending, Ended, Gone
    <2> QED
      BY <1>1, <1>2, <1>4, <1>6, <1>7, <2>2 DEF SInv
  <1> QED
    BY <1>8, <1>9

(* The coroutine that runs is inside the latest frame. *)
LEMMA RunningInside ==
  ASSUME SInv, Running
  PROVE  /\ 0 \notin thrown /\ FramesInTurn /\ OwnersInTurn /\ Inside
         /\ \A who : Used(mem, who) = mem
  <1>1. 0 \notin thrown /\ FramesInTurn /\ OwnersInTurn /\ Inside
    BY Going DEF Running, Waiting, Inside, Ending, Ended, Gone
  <1> QED
    BY <1>1 DEF Inside, Used

(* Suspending the coroutine hands it to the handler of the operation. *)
LEMMA AwaitSInv ==
  ASSUME SInv, Await
  PROVE  SInv'
  <1>1. 0 \notin thrown /\ FramesInTurn /\ OwnersInTurn /\ Inside
    BY RunningInside DEF Await
  <1>2. /\ ops < MaxOps /\ ops' = ops + 1
        /\ mem' = [mem EXCEPT !.fiber = "suspended", !.f = "coroutine"]
        /\ frame' = [frame EXCEPT ![caller] = "leaving", ![ops + 1] = "queued"]
        /\ owns' = owns \cup {ops + 1}
        /\ UNCHANGED <<strand, stopped, caller, result, completed, thrown>>
    BY RunningInside DEF Await, Suspended
  <1>3. ops + 1 \in Frames /\ caller = ops /\ ops + 1 # 0 /\ ops + 1 # ops
    BY <1>1, <1>2, FrameTypes DEF Frames, Inside
  <1>4. /\ mem' \in Memory /\ mem'.fiber = "suspended" /\ mem'.f = "coroutine"
        /\ mem'.destroyed = 0 /\ mem'.session /\ ~mem'.unwound /\ mem'.ub = {}
    BY <1>1, <1>2, FrameTypes DEF Inside, Memory
  <1>5. /\ frame' \in [Frames -> {"none", "queued", "in", "leaving", "done"}]
        /\ frame'[ops] = "leaving" /\ frame'[ops + 1] = "queued"
        /\ \A j \in Frames : j # ops /\ j # ops + 1 => frame'[j] = frame[j]
    BY <1>2, <1>3, FrameTypes
  <1>6. TypeOK'
    BY <1>2, <1>3, <1>4, <1>5 DEF SInv, TypeOK, Memory
  <1>7. FramesInTurn'
    <2>1. ASSUME NEW j \in Frames, j > ops + 1 PROVE frame'[j] = "none"
      BY <1>1, <1>5, <2>1, FrameTypes DEF FramesInTurn, Frames
    <2>2. ASSUME NEW j \in Frames, j < ops + 1 PROVE frame'[j] \in {"leaving", "done"}
      BY <1>1, <1>5, <2>2, FrameTypes DEF FramesInTurn, Frames
    <2> QED
      BY <1>2, <1>5, <2>1, <2>2 DEF FramesInTurn
  <1>8. OwnersInTurn'
    <2>1. owns \subseteq {0}
      BY <1>1 DEF OwnersInTurn, Inside
    <2>2. 0 \in owns <=> frame[0] # "done"
      BY <1>1 DEF OwnersInTurn
    <2>3. frame'[0] = "done" <=> frame[0] = "done"
      <3>1. CASE ops = 0
        BY <1>1, <1>5, <3>1 DEF Inside
      <3>2. CASE ops # 0
        BY <1>3, <1>5, <3>2, FrameTypes
      <3> QED
        BY <3>1, <3>2
    <2>4. 0 \in owns' <=> 0 \in owns
      BY <1>2, <1>3
    <2>5. owns' \subseteq {0, ops'} /\ ops' \in owns'
      BY <1>2, <2>1
    <2> QED
      BY <1>2, <1>5, <2>2, <2>3, <2>4, <2>5 DEF OwnersInTurn
  <1>9. Waiting'
    BY <1>1, <1>2, <1>4, <1>5 DEF Waiting, Inside
  <1> QED
    BY <1>1, <1>2, <1>6, <1>7, <1>8, <1>9 DEF SInv

(* An initiation that throws destroys the coroutine, and only in the       *)
(* startup function does a second owner of it go the same way.             *)
LEMMA AwaitThrowsSInv ==
  ASSUME SInv, AwaitThrows
  PROVE  SInv'
  <1>1. 0 \notin thrown /\ FramesInTurn /\ OwnersInTurn /\ Inside
    BY RunningInside DEF AwaitThrows
  <1> DEFINE s == [mem EXCEPT !.fiber = "suspended", !.f = "coroutine"]
             m == Destroy(s)
  <1>2. /\ mem' = IF caller \in owns THEN Destroy(m) ELSE m
        /\ frame' = [frame EXCEPT ![caller] = "done"] /\ owns' = owns \ {caller}
        /\ thrown' = thrown \cup {caller}
        /\ UNCHANGED <<strand, stopped, caller, ops, result, completed>>
    BY RunningInside DEF AwaitThrows, Suspended
  <1>3. caller = ops /\ completed = << >>
    BY <1>1 DEF Inside
  <1>4. s \in Memory /\ s.fiber = "suspended" /\ s.f = "coroutine" /\ s.destroyed = 0
        /\ s.session /\ s.ub = {} /\ ~s.unwound
    BY <1>1, FrameTypes DEF Inside, Memory
  <1> HIDE DEF s
  <1>5. /\ m \in Memory /\ m.fiber = "gone" /\ m.destroyed = 2
        /\ ~m.session /\ m.unwound /\ m.ub = {"finalizer"}
    BY <1>4, DestroySuspended
  <1> HIDE DEF m
  <1>6. /\ frame' \in [Frames -> {"none", "queued", "in", "leaving", "done"}]
        /\ frame'[ops] = "done" /\ \A j \in Frames : j # ops => frame'[j] = frame[j]
    BY <1>2, <1>3, FrameTypes
  <1>7. CASE caller \in owns
    <2>1. caller = 0
      BY <1>1, <1>3, <1>7 DEF OwnersInTurn, Inside
    <2>2. mem' = Destroy(m)
      BY <1>2, <1>7
    <2>3. /\ mem' \in Memory /\ mem'.ub = {"frame", "finalizer"}
          /\ mem'.fiber = "gone" /\ mem'.unwound
      BY <1>5, <2>2, DestroyAgain
    <2>4. TypeOK'
      BY <1>2, <1>6, <2>3, FrameTypes DEF SInv, TypeOK, Memory
    <2>5. 0 \in thrown' /\ Broken'
      BY <1>2, <1>3, <2>1, <2>3 DEF Broken
    <2> QED
      BY <2>4, <2>5 DEF SInv
  <1>8. CASE caller \notin owns
    <2>1. mem' = m
      BY <1>2, <1>8
    <2>2. TypeOK'
      BY <1>2, <1>5, <1>6, <2>1, FrameTypes DEF SInv, TypeOK, Memory
    <2>3. FramesInTurn'
      BY <1>1, <1>2, <1>6, FrameTypes DEF FramesInTurn, Frames
    <2>4. OwnersInTurn'
      BY <1>1, <1>2, <1>3, <1>6, <1>8, FrameTypes DEF OwnersInTurn
    <2>5. Gone'
      BY <1>2, <1>3, <1>5, <1>6, <2>1 DEF Gone
    <2>6. 0 \notin thrown'
      <3>1. caller # 0
        BY <1>1, <1>3, <1>8 DEF OwnersInTurn, Inside
      <3> QED
        BY <1>1, <1>2, <3>1
    <2> QED
      BY <2>2, <2>3, <2>4, <2>5, <2>6 DEF SInv
  <1> QED
    BY <1>7, <1>8

(* The coroutine ends by itself, and its handler is executed or cannot be. *)
LEMMA FinalizeSInv ==
  ASSUME SInv, NEW how \in {"return", "exception"}, Finalize(how) \/ FinalizeThrows(how)
  PROVE  SInv'
  <1>1. 0 \notin thrown /\ FramesInTurn /\ OwnersInTurn /\ Inside
    BY RunningInside DEF Finalize, FinalizeThrows
  <1>2. ASSUME NEW fiber \in {"ended", "broken"}, mem' = Finalized(fiber),
               UNCHANGED <<strand, stopped, frame, owns, caller, ops, result, thrown>>
        PROVE  mem' \in Memory /\ Ended(fiber)' /\ FramesInTurn' /\ OwnersInTurn'
    <2>1. mem' = [mem EXCEPT !.fiber = fiber, !.f = "null", !.destroyed = @ + 1]
      BY <1>2, RunningInside DEF Finalized, Finalize, FinalizeThrows
    <2>2. /\ mem' \in Memory /\ mem'.fiber = fiber /\ mem'.f = "null"
          /\ mem'.destroyed = 1 /\ mem'.session /\ ~mem'.unwound /\ mem'.ub = {}
      BY <1>1, <2>1, FrameTypes DEF Inside, Memory
    <2>3. Ended(fiber)'
      BY <1>1, <1>2, <2>2 DEF Ended, Inside
    <2>4. FramesInTurn' /\ OwnersInTurn'
      BY <1>1, <1>2 DEF FramesInTurn, OwnersInTurn
    <2> QED
      BY <2>2, <2>3, <2>4
  <1>3. CASE Finalize(how)
    <2>1. /\ mem' = Finalized("ended") /\ completed' = Append(completed, how)
          /\ UNCHANGED <<strand, stopped, frame, owns, caller, ops, result, thrown>>
      BY <1>3 DEF Finalize
    <2>2. mem' \in Memory /\ Ended("ended")' /\ FramesInTurn' /\ OwnersInTurn'
      BY <1>2, <2>1
    <2>3. completed' = <<how>>
      BY <1>1, <2>1 DEF Inside
    <2>4. completed' \in Seq({"return", "exception"}) /\ Len(completed') = 1
      BY <2>3
    <2>5. TypeOK'
      BY <2>1, <2>2, <2>4 DEF SInv, TypeOK, Memory
    <2>6. result = "error" => how = "exception"
      BY <1>1, <1>3 DEF Finalize, Ends, Unwrap, Inside
    <2>7. Ending'
      BY <2>1, <2>2, <2>3, <2>4, <2>6 DEF Ending
    <2> QED
      BY <1>1, <2>1, <2>2, <2>5, <2>7 DEF SInv
  <1>4. CASE FinalizeThrows(how)
    <2>1. /\ mem' = Finalized("broken") /\ completed' = completed
          /\ UNCHANGED <<strand, stopped, frame, owns, caller, ops, result, thrown>>
      BY <1>4 DEF FinalizeThrows
    <2>2. mem' \in Memory /\ Ended("broken")' /\ FramesInTurn' /\ OwnersInTurn'
      BY <1>2, <2>1
    <2>3. TypeOK'
      BY <2>1, <2>2 DEF SInv, TypeOK, Memory
    <2>4. Stuck'
      BY <1>1, <2>1, <2>2 DEF Stuck, Inside
    <2> QED
      BY <1>1, <2>1, <2>2, <2>3, <2>4 DEF SInv
  <1> QED
    BY <1>3, <1>4

(* The fiber function returns to the frame. *)
LEMMA ExitSInv ==
  ASSUME SInv, Exit
  PROVE  SInv'
  <1>1. 0 \notin thrown /\ FramesInTurn /\ OwnersInTurn /\ Ending
    BY DEF SInv, Exit, Broken, Waiting, Inside, Stuck, Ended, Gone
  <1>2. /\ mem' = [mem EXCEPT !.fiber = "gone", !.session = FALSE]
        /\ frame' = [frame EXCEPT ![caller] = "leaving"]
        /\ UNCHANGED <<strand, stopped, owns, caller, ops, result, completed, thrown>>
    BY DEF Exit
  <1>3. /\ mem' \in Memory /\ mem'.fiber = "gone" /\ mem'.destroyed = 1
        /\ ~mem'.session /\ ~mem'.unwound /\ mem'.ub = {}
    BY <1>1, <1>2, FrameTypes DEF Ending, Ended, Memory
  <1>4. /\ frame' \in [Frames -> {"none", "queued", "in", "leaving", "done"}]
        /\ frame'[ops] = "leaving" /\ \A j \in Frames : j # ops => frame'[j] = frame[j]
    BY <1>1, <1>2, FrameTypes DEF Ending, Ended
  <1>5. TypeOK'
    BY <1>2, <1>3, <1>4 DEF SInv, TypeOK, Memory
  <1>6. FramesInTurn'
    BY <1>1, <1>2, <1>4, FrameTypes DEF FramesInTurn, Frames
  <1>7. OwnersInTurn'
    BY <1>1, <1>2, <1>4, FrameTypes DEF OwnersInTurn, Ending, Ended
  <1>8. Gone'
    BY <1>2, <1>3, <1>4 DEF Gone
  <1> QED
    BY <1>1, <1>2, <1>5, <1>6, <1>7, <1>8 DEF SInv

(* The io_context destroys the frame that was to resume the coroutine, and *)
(* with it the coroutine.                                                  *)
LEMMA DropSInv ==
  ASSUME SInv, NEW k \in Frames, Drop(k)
  PROVE  SInv'
  <1>0. GoesOn /\ frame[k] = "queued"
    BY DEF Drop
  <1>1. 0 \notin thrown /\ FramesInTurn /\ OwnersInTurn
    BY <1>0, Going
  <1>2. k = ops
    BY <1>0, <1>1, FrameTypes DEF FramesInTurn, Frames
  <1>3. Waiting
    BY <1>0, <1>2, Going DEF Inside, Ending, Ended, Gone
  <1>4. /\ mem' = Destroy(mem) /\ frame' = [frame EXCEPT ![k] = "done"] /\ owns' = owns \ {k}
        /\ UNCHANGED <<strand, stopped, caller, ops, result, completed, thrown>>
    BY <1>0, <1>1, <1>2 DEF Drop, OwnersInTurn
  <1>5. /\ mem' \in Memory /\ mem'.fiber = "gone" /\ mem'.destroyed > 0
        /\ ~mem'.session /\ (mem'.unwound => mem'.ub = {"finalizer"})
        /\ ~mem'.unwound => mem'.destroyed = 1 /\ mem'.ub = {}
    <2>1. CASE mem.fiber = "fresh"
      BY <1>0, <1>3, <1>4, <2>1, FrameTypes, DestroyFresh DEF Waiting
    <2>2. CASE mem.fiber = "suspended"
      BY <1>0, <1>3, <1>4, <2>2, FrameTypes, DestroySuspended DEF Waiting
    <2> QED
      BY <1>3, <2>1, <2>2 DEF Waiting
  <1>6. /\ frame' \in [Frames -> {"none", "queued", "in", "leaving", "done"}]
        /\ frame'[ops] = "done" /\ \A j \in Frames : j # ops => frame'[j] = frame[j]
    BY <1>2, <1>4, FrameTypes
  <1>7. TypeOK'
    BY <1>4, <1>5, <1>6 DEF SInv, TypeOK, Memory
  <1>8. FramesInTurn'
    BY <1>1, <1>4, <1>6, FrameTypes DEF FramesInTurn, Frames
  <1>9. OwnersInTurn'
    BY <1>1, <1>2, <1>4, <1>6, FrameTypes DEF OwnersInTurn
  <1>10. Gone'
    BY <1>3, <1>4, <1>5, <1>6 DEF Gone, Waiting
  <1> QED
    BY <1>1, <1>4, <1>7, <1>8, <1>9, <1>10 DEF SInv

(* Every step keeps the invariant. *)
LEMMA NextSInv == SInv /\ [Next]_vars => SInv'
  <1> SUFFICES ASSUME SInv, [Next]_vars PROVE SInv'
    OBVIOUS
  <1>1. CASE Stop \/ UNCHANGED vars
    <2>1. /\ stopped' \in BOOLEAN
          /\ UNCHANGED <<strand, frame, owns, caller, ops, result, mem, completed, thrown>>
      BY <1>1 DEF Stop, vars, SInv, TypeOK
    <2>2. TypeOK'
      BY <2>1 DEF SInv, TypeOK
    <2>3. 0 \in thrown' => Broken'
      BY <2>1 DEF SInv, Broken
    <2>4. 0 \notin thrown' =>
            FramesInTurn' /\ OwnersInTurn' /\ (Waiting \/ Inside \/ Ending \/ Stuck \/ Gone)'
      BY <2>1 DEF SInv, FramesInTurn, OwnersInTurn, Waiting, Inside, Ending, Stuck, Ended, Gone
    <2> QED
      BY <2>2, <2>3, <2>4 DEF SInv
  <1>2. CASE Await \/ AwaitThrows \/ Exit
    BY <1>2, AwaitSInv, AwaitThrowsSInv, ExitSInv
  <1>3. ASSUME NEW how \in {"return", "exception"}, Finalize(how) \/ FinalizeThrows(how)
        PROVE  SInv'
    BY <1>3, FinalizeSInv
  <1>4. ASSUME NEW k \in Frames, Resume(k) \/ Leave(k) \/ Drop(k) PROVE SInv'
    BY <1>4, ResumeSInv, LeaveSInv, DropSInv
  <1> QED
    BY <1>1, <1>2, <1>3, <1>4 DEF Next, Coroutine

(* The inductive invariant holds of every behaviour of the coroutine. *)
THEOREM SpawnInvariance == Spec => []SInv
  BY InitSInv, NextSInv, PTL DEF Spec

-----------------------------------------------------------------------------

(* On any executor and after any number of operations, who uses the state  *)
(* of a coroutine after its destruction is the startup function, when the  *)
(* first initiation has thrown, and the finalizer, when the stack is       *)
(* unwound; nobody else does, and each does in just those histories.       *)
THEOREM NoUseAfterDestroyCorrect == Spec => []NoUseAfterDestroy
  <1>1. ASSUME SInv PROVE NoUseAfterDestroy
    <2>1. TypeOK
      BY <1>1 DEF SInv
    <2>2. mem.ub = {c \in {"frame"} : 0 \in thrown} \cup {c \in {"finalizer"} : mem.unwound}
      <3>1. CASE 0 \in thrown
        BY <1>1, <3>1 DEF SInv, Broken
      <3>2. CASE 0 \notin thrown
        <4>1. IF mem.unwound THEN mem.ub = {"finalizer"} ELSE mem.ub = {}
          BY <1>1, <3>2 DEF SInv, Waiting, Inside, Ending, Stuck, Ended, Gone
        <4> QED
          BY <3>2, <4>1
      <3> QED
        BY <3>1, <3>2
    <2>3. ASSUME mem.destroyed > 0, "frame" \notin mem.ub
          PROVE  owns \subseteq {0} /\ (0 \in owns => frame[0] \in {"in", "leaving"})
      <3>1. FramesInTurn /\ OwnersInTurn /\ (Ending \/ Stuck \/ Gone)
        BY <1>1, <2>3 DEF SInv, Broken, Waiting, Inside
      <3>2. frame[ops] \in {"in", "leaving", "done"}
        BY <3>1 DEF Ending, Stuck, Ended, Gone
      <3>3. owns \subseteq {0}
        BY <3>1, <3>2 DEF OwnersInTurn
      <3>4. 0 \in owns => frame[0] \in {"in", "leaving"}
        BY <1>1, <3>1, <3>2, FrameTypes DEF OwnersInTurn, FramesInTurn
      <3> QED
        BY <3>3, <3>4
    <2> QED
      BY <2>1, <2>2, <2>3 DEF NoUseAfterDestroy
  <1> QED
    BY <1>1, SpawnInvariance, PTL

(* When no frame is left, nothing of the coroutine is. *)
THEOREM NothingLeaksCorrect == Spec => []NothingLeaks
  <1>1. ASSUME SInv PROVE NothingLeaks
    <2> SUFFICES ASSUME \A k \in Frames : frame[k] \in {"none", "done"}, "frame" \notin mem.ub
                 PROVE  /\ mem.fiber = "gone" /\ ~mem.session /\ mem.destroyed > 0
                        /\ ~mem.unwound => mem.destroyed = 1
      BY DEF NothingLeaks
    <2>1. frame[ops] \in {"none", "done"}
      BY <1>1, FrameTypes
    <2>2. Gone
      BY <1>1, <2>1 DEF SInv, Broken, Waiting, Inside, Ending, Stuck, Ended
    <2> QED
      BY <2>2 DEF Gone
  <1> QED
    BY <1>1, SpawnInvariance, PTL

(* The completion handler is called once, with what the coroutine ended    *)
(* with, and never for one that is unwound.                                *)
THEOREM EndIsReportedCorrect == Spec => []EndIsReported
  <1>1. ASSUME SInv PROVE EndIsReported
    <2>1. CASE 0 \in thrown
      BY <1>1, <2>1 DEF SInv, Broken, EndIsReported
    <2>2. CASE 0 \notin thrown
      BY <1>1, <2>2 DEF SInv, Waiting, Inside, Ending, Stuck, Ended, Gone, EndIsReported
    <2> QED
      BY <2>1, <2>2
  <1> QED
    BY <1>1, SpawnInvariance, PTL
=============================================================================
