--------------------------- MODULE SelectSession ---------------------------
(***************************************************************************)
(* One session of the select server (select/src/main.cpp) on top of the    *)
(* asynchronous operations of composite_async_ops.hpp and                  *)
(* async_file_descriptor.hpp: it reads two numbers, a line each, writes    *)
(* their product and starts again.                                         *)
(*                                                                         *)
(* A session is a chain of callbacks.  Between two of them it is a task of *)
(* the executor or a retry registered with the reactor; the code from      *)
(* there up to the next suspension is one action.  Each operation of the   *)
(* code is an operator from a state of the session to the set of states in *)
(* which it may leave it; "Posted" and "Dispatched" tell apart the two     *)
(* kinds of execution.  Bytes are digits and newlines, and junk where the  *)
(* buffer was enlarged but not filled.  The peer sends lines of any        *)
(* length.  Whether a line parses is left open, and an answer is a number  *)
(* of bytes.                                                               *)
(***************************************************************************)
EXTENDS Integers, Sequences, FiniteSets

CONSTANTS
  MaxSize,   \* max_size() of the input buffer
  MaxSend,   \* bound: bytes the peer sends
  OutLen,    \* bytes of an answer
  TxRoom     \* bytes the socket takes before the peer reads them

ASSUME SizesAssumption ==
  /\ MaxSize \in Nat \ {0} /\ MaxSend \in Nat
  /\ OutLen \in Nat \ {0} /\ TxRoom \in Nat \ {0}

VARIABLES
  stream,   \* history: everything the peer has sent
  peer,     \* the peer's end: "open", "closed", "rst" (after "closed"), "aborted"
  s         \* the session and its socket

vars == <<stream, peer, s>>

Bytes == {"digit", "newline", "junk"}
Failed == -1       \* an exception_ptr that is not null
WouldBlock == -2   \* EWOULDBLOCK

(* n is a byte count, the length of a line, or Failed. *)
Task(op, n) == [op |-> op, n |-> n]
Tasks == [op : {"begin", "line", "read_some", "read_on", "write_some"},
          n : Failed..(MaxSize + OutLen)]

Minimum(m, n) == IF m < n THEN m ELSE n
Junk(n) == [i \in 1..n |-> "junk"]
Prefix(q, n) == SubSeq(q, 1, n)
Suffix(q, n) == SubSeq(q, n + 1, Len(q))
Newlines(q) == {i \in 1..Len(q) : q[i] = "newline"}

TypeOK ==
  /\ stream \in Seq(Bytes \ {"junk"})
  /\ peer \in {"open", "closed", "rst", "aborted"}
  /\ s \in [rx : Seq(Bytes),        \* received by the kernel, not yet read
            tx : 0..TxRoom,         \* written, not yet taken by the peer
            in_buf : Seq(Bytes),    \* in_buf_
            capacity : 1..(2 * MaxSize),
            len : 0..MaxSize,       \* what in_buf_ was enlarged by
            idx : Nat,              \* where the delimiter search goes on
            reading_b : BOOLEAN,
            left : 0..OutLen,       \* bytes of the answer still to be written
            tasks : SUBSET Tasks,   \* what the executor holds for the session
            retry : {"none", "read", "write"},  \* registered with the reactor
            ret : Int,              \* result of the last system call
            alive : {"yes", "ended", "killed"},
            taken : Seq(Bytes),     \* history: lines the session has used
            answers : Nat,          \* history: answers completely written
            calls : Nat]            \* history: callbacks of this async_read_until

Init ==
  /\ stream = <<>>
  /\ peer = "open"
  /\ s = [rx |-> <<>>, tx |-> 0, in_buf |-> <<>>, capacity |-> 1, len |-> 0, idx |-> 0,
          reading_b |-> FALSE, left |-> 0, tasks |-> {Task("begin", 0)},
          retry |-> "none", ret |-> 0, alive |-> "yes", taken |-> <<>>, answers |-> 0,
          calls |-> 0]

-----------------------------------------------------------------------------

(* Sequential composition: F continues from each state of S. *)
Then(S, F(_)) == UNION {F(st) : st \in S}

(* Leave a task with the executor. *)
Post(st, op, n) == [st EXCEPT !.tasks = @ \cup {Task(op, n)}]

(* System calls. *)

(* read() into the last len bytes of in_buf_; it may return less than the  *)
(* kernel has.                                                             *)
Read(st) ==
  LET base == Len(st.in_buf) - st.len
  IN  IF st.len = 0 THEN {[st EXCEPT !.ret = 0]}
      ELSE IF st.rx # <<>>
      THEN {[st EXCEPT !.in_buf = Prefix(@, base) \o Prefix(st.rx, n) \o Junk(st.len - n),
                       !.rx = Suffix(@, n),
                       !.ret = n] : n \in 1..Minimum(st.len, Len(st.rx))}
      ELSE {[st EXCEPT !.ret = CASE peer = "open" -> WouldBlock
                                 [] peer = "closed" -> 0
                                 [] OTHER -> Failed]}

(* write() of what is left of the answer.  A connection that was reset     *)
(* after the peer had closed it raises SIGPIPE, which nothing handles.     *)
Write(st) ==
  LET n == Minimum(st.left, TxRoom - st.tx)
  IN  CASE peer = "rst" -> {[st EXCEPT !.alive = "killed", !.ret = Failed]}
        [] peer = "aborted" -> {[st EXCEPT !.ret = Failed]}
        [] OTHER -> {[st EXCEPT !.tx = @ + n, !.ret = IF n > 0 THEN n ELSE WouldBlock]}

-----------------------------------------------------------------------------
(* async_file_descriptor: try the call, wait for the reactor or complete.  *)

(* The operation waits to be retried. *)
Await(st, op) == [st EXCEPT !.retry = op]

AsyncReadSomePosted(st) ==
  {IF r.ret = WouldBlock THEN Await(r, "read") ELSE Post(r, "read_some", r.ret)
     : r \in Read(st)}

AsyncWriteSomePosted(st) ==
  {IF r.ret = WouldBlock THEN Await(r, "write") ELSE Post(r, "write_some", r.ret)
     : r \in Write(st)}

-----------------------------------------------------------------------------
(* async_read_until with a delimiter. *)

(* Mutation: the search goes on one byte too late. *)
SearchFromLate(st) == st.idx + 1

SearchFrom(st) == st.idx

(* Where the predicate finds the delimiter. *)
Hits(st) == {i \in Newlines(st.in_buf) : i > SearchFrom(st)}

(* The length of the first line. *)
Match(st) == CHOOSE i \in Hits(st) : \A j \in Hits(st) : i <= j

(* Mutation: a buffer with one free byte is taken for full. *)
FullEarly(st) == Len(st.in_buf) + 1 >= MaxSize

Full(st) == Len(st.in_buf) = MaxSize

Limited(capacity) == Minimum(MaxSize, capacity)

(* Enlarge the buffer up to its capacity, which doubles when it is used up. *)
Enlarge(st) ==
  LET capacity == IF Len(st.in_buf) = st.capacity THEN 2 * st.capacity ELSE st.capacity
      len == Limited(capacity) - Len(st.in_buf)
  IN  {[st EXCEPT !.capacity = capacity,
                  !.len = len,
                  !.in_buf = @ \o Junk(len),
                  !.idx = Len(st.in_buf)]}

(* The handler of the length_error does not return: a read of no bytes     *)
(* starts, which completes at once, with the callback that was moved into  *)
(* the report.                                                             *)
ReadOn(st) == {Post(st, "read_on", 0)}

ReadUntilPosted(st) ==
  IF Hits(st) # {} THEN {Post(st, "line", Match(st))}
  ELSE IF Full(st) THEN Then({Post(st, "line", Failed)}, ReadOn)
  ELSE Then(Enlarge(st), AsyncReadSomePosted)

(* async_read_until, called by the session. *)
BeginRead(st, reading_b) ==
  Then({[st EXCEPT !.reading_b = reading_b, !.idx = 0, !.calls = 0]}, ReadUntilPosted)

-----------------------------------------------------------------------------
(* The callbacks of the session. *)

(* Nobody keeps the session any more. *)
End(st) == [st EXCEPT !.alive = IF @ = "killed" THEN @ ELSE "ended"]

(* Mutation: the newline stays in the buffer. *)
LineWithoutNewline(n) == n - 1

LineLength(n) == n

(* read_buffered_number took the line: multiply and answer, or read b. *)
UseNumber(st) ==
  IF st.reading_b THEN Then({[st EXCEPT !.left = OutLen]}, AsyncWriteSomePosted)
                  ELSE BeginRead(st, TRUE)

(* operator()(exception_ptr, size_t). *)
LineRead(st, n) ==
  LET called == [st EXCEPT !.calls = @ + 1]
      parsed == [called EXCEPT !.taken = @ \o Prefix(st.in_buf, LineLength(n)),
                               !.in_buf = Suffix(@, LineLength(n))]
  IN  {End(called)} \cup (IF n > 0 THEN Then({parsed}, UseNumber) ELSE {})

(* Mutation: after a short write the answer is taken for written. *)
WrittenAny(st, n) == n > 0

Written(st, n) == n = st.left

(* The callback of async_write_some and operator()(exception_ptr). *)
WriteSomeDone(st, n) ==
  IF n = Failed THEN {End(st)}
  ELSE IF Written(st, n)
  THEN BeginRead([st EXCEPT !.left = 0, !.answers = @ + 1], FALSE)
  ELSE Then({[st EXCEPT !.left = @ - n]}, AsyncWriteSomePosted)

ReadUntilDispatched(st) ==
  IF Hits(st) # {} THEN LineRead(st, Match(st))
  ELSE IF Full(st) THEN Then(LineRead(st, Failed), ReadOn)
  ELSE Then(Enlarge(st), AsyncReadSomePosted)

(* Mutation: the buffer is cut back to what it held before the read. *)
CutToOld(st, n) == Len(st.in_buf) - st.len

CutTo(st, n) == Len(st.in_buf) - st.len + (IF n > 0 THEN n ELSE 0)

(* The callback of async_read_some: cut the buffer back, then go on. *)
ReadSomeDone(st, n) ==
  LET cut == [st EXCEPT !.in_buf = Prefix(@, CutTo(st, n)), !.len = 0]
  IN  IF n <= 0 THEN LineRead(cut, Failed) ELSE Then({cut}, ReadUntilDispatched)

(* Its second call goes through the null pointer that moving the session   *)
(* away has left (with a session that has ended its freed buffer is used   *)
(* as well): undefined behaviour, which ends the process.                  *)
CalledAgain(st) == {[st EXCEPT !.calls = @ + 1, !.alive = "killed"]}

-----------------------------------------------------------------------------
(* The executor and the reactor run the session. *)

(* A worker runs a task of the session. *)
Execute(st, t) ==
  CASE t.op = "begin" -> BeginRead(st, FALSE)
    [] t.op = "line" -> LineRead(st, t.n)
    [] t.op = "read_some" -> ReadSomeDone(st, t.n)
    [] t.op = "read_on" -> CalledAgain(st)
    [] t.op = "write_some" -> WriteSomeDone(st, t.n)

RunTask(t) ==
  /\ t \in s.tasks
  /\ s.alive # "killed"
  /\ s' \in Execute([s EXCEPT !.tasks = @ \ {t}], t)
  /\ UNCHANGED <<stream, peer>>

Readable == s.rx # <<>> \/ peer # "open"

(* Both operations are registered as reactor_op::read. *)
Reported(op) == s.retry = op /\ Readable

(* async_read_some_impl and async_write_some_impl once more, dispatched. *)
RetryRead ==
  /\ Reported("read")
  /\ \E r \in Read([s EXCEPT !.retry = "none"]) :
       IF r.ret = WouldBlock THEN s' = Await(r, "read") ELSE s' \in ReadSomeDone(r, r.ret)
  /\ UNCHANGED <<stream, peer>>

RetryWrite ==
  /\ Reported("write")
  /\ \E r \in Write([s EXCEPT !.retry = "none"]) :
       IF r.ret = WouldBlock THEN s' = Await(r, "write") ELSE s' \in WriteSomeDone(r, r.ret)
  /\ UNCHANGED <<stream, peer>>

-----------------------------------------------------------------------------
(* The peer and the network. *)

PeerSend(b) ==
  /\ peer = "open"
  /\ Len(stream) < MaxSend
  /\ stream' = Append(stream, b)
  /\ s' = [s EXCEPT !.rx = Append(@, b)]
  /\ UNCHANGED peer

PeerTake ==
  /\ peer = "open"
  /\ s.tx > 0
  /\ s' = [s EXCEPT !.tx = @ - 1]
  /\ UNCHANGED <<stream, peer>>

PeerLeaves ==
  /\ peer = "open"
  /\ peer' \in {"closed", "aborted"}
  /\ UNCHANGED <<stream, s>>

(* The peer's host answers data for a closed socket with a reset. *)
ResetArrives ==
  /\ peer = "closed"
  /\ s.tx > 0
  /\ peer' = "rst"
  /\ UNCHANGED <<stream, s>>

(* Nothing is left of the session. *)
Over ==
  /\ s.alive # "yes"
  /\ s.tasks = {} \/ s.alive = "killed"
  /\ UNCHANGED vars

Next ==
  \/ \E t \in s.tasks : RunTask(t)
  \/ RetryRead
  \/ RetryWrite
  \/ \E b \in {"digit", "newline"} : PeerSend(b)
  \/ PeerTake
  \/ PeerLeaves
  \/ ResetArrives
  \/ Over

(* Workers run tasks, the reactor reports what is readable, and a peer     *)
(* that stays takes what was sent to it; one that has left answers with a  *)
(* reset.  Nothing makes it send or leave.                                 *)
SessionStep == (\E t \in s.tasks : RunTask(t)) \/ RetryRead \/ RetryWrite

Fairness == WF_vars(SessionStep) /\ WF_vars(PeerTake) /\ WF_vars(ResetArrives)

Spec == Init /\ [][Next]_vars

FairSpec == Spec /\ Fairness

-----------------------------------------------------------------------------
(* Safety. *)

(* Bytes of in_buf_ that were really read. *)
Held ==
  LET done == {t.n : t \in {u \in s.tasks : u.op = "read_some" /\ u.n > 0}}
  IN  Prefix(s.in_buf, Len(s.in_buf) - s.len +
                       (IF done = {} THEN 0 ELSE CHOOSE n \in done : TRUE))

(* The bytes the session has used, those in its buffer and those still in  *)
(* the kernel are the peer's bytes in the peer's order: enlarging the      *)
(* buffer, short reads, cutting it back and erasing lines lose, repeat and *)
(* invent nothing.  The buffer never grows past max_size().                *)
StreamIntact ==
  /\ TypeOK
  /\ s.alive = "yes" => stream = s.taken \o Held \o s.rx
  /\ Len(s.in_buf) <= MaxSize

(* Every callback takes one whole line, and every two lines make one       *)
(* answer: a line that arrived in pieces, or together with the next one,   *)
(* is found.                                                               *)
LinesMatchAnswers ==
  s.alive = "yes" =>
    Cardinality(Newlines(s.taken)) =
      2 * s.answers + (IF s.left > 0 THEN 2 ELSE IF s.reading_b THEN 1 ELSE 0)

(* The peer sent a line that does not fit into the buffer. *)
Overlong(st) ==
  /\ Len(st.taken) + MaxSize <= Len(stream)
  /\ \A i \in 1..MaxSize : stream[Len(st.taken) + i] # "newline"

(* The callback of one async_read_until is called at most once, with one   *)
(* exception: a line that does not fit into the buffer is reported, read   *)
(* on into all the same, and a second call, on the session that was moved  *)
(* away, ends the process.  No other line, however cut, leads there.       *)
CallbackOnce == s.calls <= 1 \/ (s.calls = 2 /\ s.alive = "killed" /\ Overlong(s))

(* Liveness. *)

(* Two complete lines are answered, unless the session ends or its answer  *)
(* waits in async_write_some for the socket.                               *)
PairAnswered ==
  \A k \in 0..(MaxSend \div 2) :
    Cardinality(Newlines(stream)) >= 2 * (k + 1)
      ~> (s.answers > k \/ s.alive # "yes" \/ s.retry = "write")
=============================================================================
