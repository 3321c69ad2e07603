------------------------ MODULE SelectSessionProofs -------------------------
(***************************************************************************)
(* Proofs about SelectSession, for buffers, lines and answers of any size  *)
(* and any number of bytes that the peer sends.                            *)
(***************************************************************************)
EXTENDS SelectSession, SequenceTheorems, FiniteSetTheorems, WellFoundedInduction, TLAPS

-----------------------------------------------------------------------------
(* The inductive invariant. *)

Results == Failed..(MaxSize + OutLen)
Kept == [rx : Seq(Bytes), tx : 0..TxRoom, in_buf : Seq(Bytes), capacity : 1..(2 * MaxSize),
         len : 0..MaxSize, idx : Nat, reading_b : BOOLEAN, left : 0..OutLen,
         tasks : SUBSET Tasks, retry : {"none", "read", "write"}, ret : Int,
         alive : {"yes", "ended", "killed"}, taken : Seq(Bytes), answers : Nat, calls : Nat]

Lines(q) == Cardinality(Newlines(q))

(* The peer's bytes, split into what the session has used, what it holds   *)
(* and what the kernel holds.                                              *)
Split(st, held) == stream = st.taken \o held \o st.rx

(* A session that is being served. *)
Served(st) ==
  /\ st \in Kept /\ st.alive = "yes"
  /\ Len(st.in_buf) <= MaxSize /\ Len(st.in_buf) <= st.capacity
  /\ st.len <= Len(st.in_buf)

(* It waits for a line, the first or the second of a pair, and has found   *)
(* none up to idx.                                                         *)
Expecting(st) ==
  /\ Served(st) /\ st.left = 0 /\ st.calls = 0
  /\ Lines(st.taken) = 2 * st.answers + (IF st.reading_b THEN 1 ELSE 0)
  /\ \A j \in Newlines(st.in_buf) : j > st.idx

(* No read is under way. *)
Searching(st) == Expecting(st) /\ st.len = 0 /\ Split(st, st.in_buf)

(* A read into the last len bytes of the buffer has brought n of them. *)
Filled(st, n) ==
  /\ Expecting(st) /\ st.len > 0 /\ st.idx + st.len = Len(st.in_buf)
  /\ n \in Failed..st.len
  /\ Split(st, Prefix(st.in_buf, st.idx + (IF n > 0 THEN n ELSE 0)))

(* Both lines have been used and the answer is being written. *)
Answering(st) ==
  /\ Served(st) /\ st.left > 0 /\ st.calls <= 1 /\ st.len = 0 /\ Split(st, st.in_buf)
  /\ Lines(st.taken) = 2 * st.answers + 2

FirstNewline(q, n) == n \in Newlines(q) /\ \A j \in Newlines(q) : n <= j

(* The ways in which a session waits for its next task. *)
Suspended(st) ==
  \/ /\ st.retry = "none"
     /\ \/ Searching(st) /\ st.idx = 0 /\ ~st.reading_b /\ st.tasks = {Task("begin", 0)}
        \/ Searching(st) /\ \E n \in 1..MaxSize : FirstNewline(st.in_buf, n) /\ st.tasks = {Task("line", n)}
        \/ /\ Searching(st) /\ Overlong(st)
           /\ st.tasks = {Task("line", Failed), Task("read_on", 0)}
        \/ \E n \in Results : Filled(st, n) /\ st.tasks = {Task("read_some", n)}
        \/ /\ Answering(st)
           /\ \E n \in {Failed} \cup (1..st.left) : st.tasks = {Task("write_some", n)}
  \/ st.tasks = {} /\ st.retry = "read" /\ Filled(st, 0)
  \/ st.tasks = {} /\ st.retry = "write" /\ Answering(st)

(* What is left of a session that has ended: after a line that is too long *)
(* the task of the read that was started all the same, which kills it.     *)
Ended(st) ==
  /\ st \in Kept /\ Len(st.in_buf) <= MaxSize /\ st.retry = "none"
  /\ \/ /\ st.alive = "killed"
        /\ st.calls <= 1 \/ (st.calls = 2 /\ Overlong(st))
     \/ /\ st.alive = "ended" /\ st.len = 0 /\ st.calls <= 1
        /\ st.tasks = {} \/ (st.tasks = {Task("read_on", 0)} /\ Overlong(st))

Good(st) == Suspended(st) \/ Ended(st)

EInv ==
  /\ stream \in Seq(Bytes \ {"junk"}) /\ peer \in {"open", "closed", "rst", "aborted"}
  /\ Good(s)

-----------------------------------------------------------------------------
(* Sequences of bytes. *)

(* The first bytes of a sequence, ... *)
LEMMA Front ==
  ASSUME NEW q \in Seq(Bytes), NEW n \in 0..Len(q)
  PROVE  /\ Prefix(q, n) \in Seq(Bytes) /\ Len(Prefix(q, n)) = n
         /\ \A i \in 1..n : Prefix(q, n)[i] = q[i]
BY DEF Prefix

(* ... the others, ... *)
LEMMA Rest ==
  ASSUME NEW q \in Seq(Bytes), NEW n \in 0..Len(q)
  PROVE  /\ Suffix(q, n) \in Seq(Bytes) /\ Len(Suffix(q, n)) = Len(q) - n
         /\ \A i \in 1..(Len(q) - n) : Suffix(q, n)[i] = q[n + i]
BY DEF Suffix

(* ... and both together. *)
LEMMA Cut ==
  ASSUME NEW q \in Seq(Bytes), NEW n \in 0..Len(q)
  PROVE  Prefix(q, n) \o Suffix(q, n) = q
<1>1. 1 \in 1..(Len(q) + 1) /\ n \in (1 - 1)..Len(q) /\ Len(q) \in n..Len(q)
  OBVIOUS
<1>2. SubSeq(q, 1, n) \o SubSeq(q, n + 1, Len(q)) = SubSeq(q, 1, Len(q))
  BY <1>1, ConcatAdjacentSubSeq
<1>3. SubSeq(q, 1, Len(q)) = q
  BY SubSeqFull
<1>4. QED
  BY <1>2, <1>3 DEF Prefix, Suffix

(* All of it. *)
LEMMA Whole ==
  ASSUME NEW q \in Seq(Bytes)
  PROVE  Prefix(q, Len(q)) = q
BY SubSeqFull DEF Prefix

(* Putting two together. *)
LEMMA Joined ==
  ASSUME NEW q \in Seq(Bytes), NEW r \in Seq(Bytes)
  PROVE  /\ q \o r \in Seq(Bytes) /\ Len(q \o r) = Len(q) + Len(r)
         /\ \A i \in 1..Len(q) : (q \o r)[i] = q[i]
         /\ \A i \in 1..Len(r) : (q \o r)[Len(q) + i] = r[i]
         /\ Prefix(q \o r, Len(q)) = q
<1>1. SubSeq(q \o r, 1, Len(q)) = q
  BY ConcatSimplifications, SubSeqFull, SubSeqProperties, SeqEqual, ConcatProperties
<1>2. QED
  BY <1>1 DEF Prefix

Grouped(a, b, c) == (a \o b) \o c = a \o (b \o c)
Regroups(a, b, c, d) == (a \o (b \o c)) \o d = (a \o b) \o (c \o d)

(* Where the pieces of a sequence are divided does not matter: three ... *)
LEMMA Associative ==
  ASSUME NEW a \in Seq(Bytes), NEW b \in Seq(Bytes), NEW c \in Seq(Bytes)
  PROVE  Grouped(a, b, c)
BY ConcatAssociative DEF Grouped

(* ... and four of them. *)
LEMMA Regrouped ==
  ASSUME NEW a \in Seq(Bytes), NEW b \in Seq(Bytes), NEW c \in Seq(Bytes), NEW d \in Seq(Bytes)
  PROVE  Regroups(a, b, c, d)
<1>1. a \o b \in Seq(Bytes)
  BY Joined
<1>2. Grouped(a, b, c) /\ Grouped(a \o b, c, d)
  BY <1>1, Associative
<1>3. QED
  BY <1>2 DEF Grouped, Regroups

(* What a buffer is enlarged by holds no newline. *)
LEMMA JunkBytes ==
  ASSUME NEW n \in Nat
  PROVE  Junk(n) \in Seq(Bytes) /\ Len(Junk(n)) = n /\ \A i \in 1..n : Junk(n)[i] = "junk"
BY DEF Junk, Bytes

(* The newlines of a sequence are finitely many. *)
LEMMA NewlinesFinite ==
  ASSUME NEW q \in Seq(Bytes)
  PROVE  /\ Newlines(q) \subseteq 1..Len(q) /\ Newlines(q) \subseteq Nat
         /\ IsFiniteSet(Newlines(q)) /\ Lines(q) \in Nat
<1>1. Newlines(q) \in SUBSET (1..Len(q)) /\ Len(q) \in Nat
  BY DEF Newlines
<1>2. IsFiniteSet(Newlines(q))
  <2>1. IsFiniteSet(1..Len(q))
    BY <1>1, FS_Interval
  <2>2. QED
    BY <1>1, <2>1, FS_Subset
<1>3. QED
  BY <1>1, <1>2, FS_CardinalityType DEF Lines

(* A finite set of numbers that is not empty has a smallest one. *)
LEMMA Least ==
  ASSUME NEW S, S \subseteq Nat, S # {}, IsFiniteSet(S)
  PROVE  \E n \in S : \A m \in S : n <= m
<1> DEFINE Upto(m) == {x \in S : x <= m}
           T == {Upto(m) : m \in S}
<1>1. T # {} /\ T \subseteq FiniteSubsetsOf(S)
  <2>1. T # {}
    OBVIOUS
  <2>2. ASSUME NEW m \in S PROVE Upto(m) \in SUBSET S /\ IsFiniteSet(Upto(m))
    <3>1. Upto(m) \in SUBSET S
      OBVIOUS
    <3>2. QED
      BY <3>1, FS_Subset
  <2>3. QED
    BY <2>1, <2>2 DEF FiniteSubsetsOf
<1>2. PICK U \in T : \A V \in T : ~(<<V, U>> \in StrictSubsetOrdering(S))
  BY <1>1, WFMin, FS_StrictSubsetOrderingWellFounded
<1>3. PICK n \in S : U = Upto(n)
  OBVIOUS
<1>4. ASSUME NEW m \in S, m < n PROVE FALSE
  <2>1. m \in Nat /\ n \in Nat /\ \A x \in S : x \in Nat
    OBVIOUS
  <2>2. (\A x \in S : x <= m => x <= n) /\ n <= n /\ ~(n <= m)
    BY <1>4, <2>1
  <2>3. Upto(m) \subseteq Upto(n) /\ n \in Upto(n) /\ n \notin Upto(m)
    BY <2>2, Zenon
  <2>4. <<Upto(m), U>> \in StrictSubsetOrdering(S)
    BY <1>3, <2>3 DEF StrictSubsetOrdering
  <2>5. QED
    BY <1>2, <2>4
<1>5. QED
  BY <1>4

(* A line that is taken from the front of the buffer is one line more. *)
LEMMA LineTaken ==
  ASSUME NEW t \in Seq(Bytes), NEW q \in Seq(Bytes), NEW n, FirstNewline(q, n)
  PROVE  n \in 1..Len(q) /\ Lines(t \o Prefix(q, n)) = Lines(t) + 1
<1>1. n \in 1..Len(q) /\ q[n] = "newline" /\ \A j \in 1..(n - 1) : q[j] # "newline"
  BY NewlinesFinite DEF FirstNewline, Newlines
<1> DEFINE l == Prefix(q, n)
           c == t \o l
<1>2. l \in Seq(Bytes) /\ Len(l) = n /\ \A i \in 1..n : l[i] = q[i]
  BY <1>1, Front
<1> HIDE DEF l
<1>3. /\ c \in Seq(Bytes) /\ Len(c) = Len(t) + n /\ Len(t) \in Nat
      /\ \A i \in 1..Len(t) : c[i] = t[i]
      /\ \A i \in 1..n : c[Len(t) + i] = l[i]
  <2>1. /\ c \in Seq(Bytes) /\ Len(c) = Len(t) + Len(l)
        /\ \A i \in 1..Len(t) : c[i] = t[i]
        /\ \A i \in 1..Len(l) : c[Len(t) + i] = l[i]
    BY <1>2, Joined
  <2> HIDE DEF c
  <2>2. Len(t) \in Nat
    OBVIOUS
  <2>3. QED
    BY <1>2, <2>1, <2>2
<1> HIDE DEF c
<1>4. ASSUME NEW j \in 1..(Len(t) + n)
      PROVE  c[j] = "newline" <=> (j \in 1..Len(t) /\ t[j] = "newline") \/ j = Len(t) + n
  <2>1. CASE j \in 1..Len(t)
    BY <1>1, <1>3, <2>1
  <2>2. CASE j \notin 1..Len(t)
    <3>1. j - Len(t) \in 1..n /\ j = Len(t) + (j - Len(t))
      BY <1>1, <1>3, <2>2
    <3>2. c[j] = q[j - Len(t)]
      BY <1>2, <1>3, <3>1
    <3>3. j = Len(t) + n <=> j - Len(t) = n
      BY <1>1, <1>3
    <3>4. j - Len(t) = n \/ j - Len(t) \in 1..(n - 1)
      BY <1>1, <3>1
    <3>5. QED
      BY <1>1, <2>2, <3>2, <3>3, <3>4
  <2>3. QED
    BY <2>1, <2>2
<1>5. Newlines(c) = Newlines(t) \cup {Len(t) + n} /\ Len(t) + n \notin Newlines(t)
  <2>1. \A j : j \in Newlines(c) <=> j \in 1..(Len(t) + n) /\ c[j] = "newline"
    BY <1>3 DEF Newlines
  <2>2. \A j : j \in Newlines(t) <=> j \in 1..Len(t) /\ t[j] = "newline"
    BY DEF Newlines
  <2>3. 1..Len(t) \subseteq 1..(Len(t) + n) /\ Len(t) + n \in 1..(Len(t) + n)
        /\ Len(t) + n \notin 1..Len(t)
    BY <1>1, <1>3
  <2>4. QED
    BY <1>4, <2>1, <2>2, <2>3, Zenon
<1>6. Cardinality(Newlines(c)) = Cardinality(Newlines(t)) + 1
  BY <1>5, NewlinesFinite, FS_AddElement
<1>7. QED
  BY <1>1, <1>6 DEF Lines, c, l

-----------------------------------------------------------------------------
(* Scheduling: tasks, retry, ret and tx have no part in what a session     *)
(* holds.                                                                  *)

Alike(r, st) ==
  /\ r \in Kept /\ r.rx = st.rx /\ r.in_buf = st.in_buf /\ r.capacity = st.capacity
  /\ r.len = st.len /\ r.idx = st.idx /\ r.reading_b = st.reading_b /\ r.left = st.left
  /\ r.alive = st.alive /\ r.taken = st.taken /\ r.answers = st.answers /\ r.calls = st.calls

(* What holds of a session holds of one that is alike. *)
LEMMA AlikeKeeps ==
  ASSUME NEW st, NEW r, Alike(r, st)
  PROVE  /\ Searching(st) => Searching(r)
         /\ Answering(st) => Answering(r)
         /\ \A n : Filled(st, n) => Filled(r, n)
BY DEF Alike, Searching, Answering, Filled, Expecting, Served, Split

(* So are those that differ in their tasks, ... *)
LEMMA TasksAlike ==
  ASSUME NEW st \in Kept, NEW ts \in SUBSET Tasks
  PROVE  LET r == [st EXCEPT !.tasks = ts] IN Alike(r, st) /\ r.tasks = ts /\ r.retry = st.retry
<1>1. [st EXCEPT !.tasks = ts] \in Kept
  BY Zenon DEF Kept
<1>2. QED
  BY <1>1 DEF Kept, Alike

(* ... in what the reactor is asked for, ... *)
LEMMA RetryAlike ==
  ASSUME NEW st \in Kept, NEW op \in {"none", "read", "write"}
  PROVE  LET r == [st EXCEPT !.retry = op] IN Alike(r, st) /\ r.retry = op /\ r.tasks = st.tasks
<1>1. [st EXCEPT !.retry = op] \in Kept
  BY Zenon DEF Kept
<1>2. QED
  BY <1>1 DEF Kept, Alike

(* ... and in the result of a call. *)
LEMMA ResultAlike ==
  ASSUME NEW st \in Kept, NEW x \in Int
  PROVE  LET r == [st EXCEPT !.ret = x]
         IN Alike(r, st) /\ r.ret = x /\ r.tasks = st.tasks /\ r.retry = st.retry
<1>1. [st EXCEPT !.ret = x] \in Kept
  BY Zenon DEF Kept
<1>2. QED
  BY <1>1 DEF Kept, Alike

(* A task with a result is one. *)
LEMMA TaskTypes ==
  ASSUME NEW op \in {"begin", "line", "read_some", "read_on", "write_some"}, NEW n \in Results
  PROVE  Task(op, n) \in Tasks /\ Task(op, n).op = op /\ Task(op, n).n = n
BY DEF Task, Tasks, Results

(* Leaving a task with the executor. *)
LEMMA Posted ==
  ASSUME NEW st \in Kept, NEW op \in {"begin", "line", "read_some", "read_on", "write_some"},
         NEW n \in Results
  PROVE  LET r == Post(st, op, n)
         IN Alike(r, st) /\ r.tasks = st.tasks \cup {Task(op, n)} /\ r.retry = st.retry
<1>1. st.tasks \cup {Task(op, n)} \in SUBSET Tasks
  BY TaskTypes DEF Kept
<1>2. QED
  BY <1>1, TasksAlike DEF Post

(* The sizes of what is kept. *)
LEMMA KeptSizes ==
  ASSUME NEW st \in Kept
  PROVE  /\ st.in_buf \in Seq(Bytes) /\ st.rx \in Seq(Bytes) /\ st.taken \in Seq(Bytes)
         /\ Len(st.in_buf) \in Nat /\ Len(st.rx) \in Nat
         /\ st.capacity \in Nat /\ st.capacity > 0 /\ st.len \in Nat /\ st.idx \in Nat
         /\ st.left \in Nat /\ st.tx \in Nat /\ st.tx <= TxRoom /\ st.left <= OutLen
         /\ st.len <= MaxSize /\ st.capacity <= 2 * MaxSize
         /\ st.answers \in Nat /\ st.calls \in Nat /\ st.reading_b \in BOOLEAN /\ st.ret \in Int
<1> USE SizesAssumption DEF Kept
<1>1. st.in_buf \in Seq(Bytes) /\ st.rx \in Seq(Bytes) /\ st.taken \in Seq(Bytes)
  OBVIOUS
<1>2. st.tx \in 0..TxRoom /\ st.capacity \in 1..(2 * MaxSize) /\ st.len \in 0..MaxSize
      /\ st.left \in 0..OutLen
  OBVIOUS
<1>3. st.idx \in Nat /\ st.answers \in Nat /\ st.calls \in Nat /\ st.ret \in Int
  OBVIOUS
<1>4. st.reading_b \in BOOLEAN
  BY Zenon
<1>5. QED
  BY <1>1, <1>2, <1>3, <1>4

-----------------------------------------------------------------------------
(* Reading. *)

(* read() puts bytes of the kernel behind those that are held, or changes  *)
(* nothing.                                                                *)
LEMMA ReadFills ==
  ASSUME NEW st, Filled(st, 0), NEW r \in Read(st),
         peer \in {"open", "closed", "rst", "aborted"}
  PROVE  /\ r.tasks = st.tasks /\ r.retry = st.retry /\ r.ret \in Int
         /\ r.ret = WouldBlock => Filled(r, 0)
         /\ r.ret # WouldBlock => Filled(r, r.ret)
<1> USE SizesAssumption
<1>1. /\ st \in Kept /\ st.len > 0 /\ st.idx + st.len = Len(st.in_buf)
      /\ st.idx = Len(st.in_buf) - st.len /\ st.idx \in 0..Len(st.in_buf)
  BY KeptSizes DEF Filled, Expecting, Served
<1>2. CASE st.rx = << >>
  <2>1. PICK x \in {WouldBlock, 0, Failed} : r = [st EXCEPT !.ret = x]
    BY <1>1, <1>2, KeptSizes DEF Read
  <2>2. x \in Int
    BY <2>1 DEF WouldBlock, Failed
  <2>3. Alike(r, st) /\ r.ret = x /\ r.tasks = st.tasks /\ r.retry = st.retry
    BY <1>1, <2>1, <2>2, ResultAlike
  <2>4. Filled(r, 0)
    BY <2>3, AlikeKeeps
  <2>5. Filled(r, Failed)
    BY <1>1, <2>3, <2>4, KeptSizes DEF Filled, Failed, Alike
  <2>6. QED
    BY <2>1, <2>2, <2>3, <2>4, <2>5
<1>3. CASE st.rx # << >>
  <2> DEFINE held == Prefix(st.in_buf, Len(st.in_buf) - st.len)
  <2>1. PICK n \in 1..Minimum(st.len, Len(st.rx)) :
          r = [st EXCEPT !.in_buf = held \o Prefix(st.rx, n) \o Junk(st.len - n),
                         !.rx = Suffix(st.rx, n), !.ret = n]
    <3>1. st.len # 0
      BY <1>1, KeptSizes
    <3>2. QED
      BY <1>3, <3>1, Zenon DEF Read
  <2>2. n \in 1..st.len /\ n \in 0..Len(st.rx) /\ st.len - n \in Nat /\ n \in Int
    BY <1>1, <2>1, KeptSizes DEF Minimum
  <2> DEFINE new == Prefix(st.rx, n)
             more == Suffix(st.rx, n)
             junk == Junk(st.len - n)
             buf == (held \o new) \o junk
  <2>3. /\ held \in Seq(Bytes) /\ Len(held) = st.idx
        /\ \A i \in 1..st.idx : held[i] = st.in_buf[i]
        /\ new \in Seq(Bytes) /\ Len(new) = n /\ more \in Seq(Bytes) /\ new \o more = st.rx
        /\ junk \in Seq(Bytes) /\ Len(junk) = st.len - n
    <3>1. st.in_buf \in Seq(Bytes) /\ st.rx \in Seq(Bytes) /\ Len(st.in_buf) - st.len = st.idx
      BY <1>1, KeptSizes
    <3>2. /\ held \in Seq(Bytes) /\ Len(held) = st.idx
          /\ \A i \in 1..st.idx : held[i] = st.in_buf[i]
      <4>1. held = Prefix(st.in_buf, st.idx)
        BY <3>1
      <4>2. st.idx \in 0..Len(st.in_buf)
        BY <1>1
      <4>3. QED
        BY <3>1, <4>1, <4>2, Front
    <3>3. new \in Seq(Bytes) /\ Len(new) = n /\ more \in Seq(Bytes) /\ new \o more = st.rx
      BY <2>2, <3>1, Front, Rest, Cut
    <3>4. junk \in Seq(Bytes) /\ Len(junk) = st.len - n
      BY <2>2, JunkBytes
    <3>5. QED
      BY <3>2, <3>3, <3>4
  <2> HIDE DEF held, new, more, junk
  <2>4. held \o new \in Seq(Bytes) /\ Len(held \o new) = st.idx + n
        /\ \A i \in 1..st.idx : (held \o new)[i] = st.in_buf[i]
    <3>1. /\ held \o new \in Seq(Bytes) /\ Len(held \o new) = Len(held) + Len(new)
          /\ \A i \in 1..Len(held) : (held \o new)[i] = held[i]
      BY <2>3, Joined
    <3>2. QED
      BY <2>3, <3>1
  <2>5. buf \in Seq(Bytes) /\ Len(buf) = Len(held \o new) + Len(junk)
        /\ Prefix(buf, Len(held \o new)) = held \o new
        /\ \A i \in 1..Len(held \o new) : buf[i] = (held \o new)[i]
    BY <2>3, <2>4, Joined
  <2> HIDE DEF buf
  <2>6. Len(buf) = Len(st.in_buf) /\ Prefix(buf, st.idx + n) = held \o new
        /\ \A i \in 1..st.idx : buf[i] = st.in_buf[i]
    <3>1. Len(buf) = st.idx + n + (st.len - n)
      BY <2>3, <2>4, <2>5
    <3>2. st.idx \in Nat /\ st.len \in Nat /\ n \in Nat /\ 1..st.idx \subseteq 1..(st.idx + n)
      BY <1>1, <2>2, KeptSizes
    <3>3. Len(buf) = Len(st.in_buf)
      BY <1>1, <3>1, <3>2
    <3>4. \A i \in 1..st.idx : buf[i] = st.in_buf[i]
      BY <2>4, <2>5, <3>2
    <3>5. Prefix(buf, st.idx + n) = held \o new
      BY <2>4, <2>5, Zenon
    <3>6. QED
      BY <3>3, <3>4, <3>5
  <2>7. r = [st EXCEPT !.in_buf = buf, !.rx = more, !.ret = n]
    BY <2>1 DEF held, new, more, junk, buf
  <2>8. r \in Kept
    BY <1>1, <2>2, <2>3, <2>5, <2>7, Zenon DEF Kept
  <2>9. /\ r.in_buf = buf /\ r.rx = more /\ r.ret = n /\ r.tasks = st.tasks /\ r.retry = st.retry
        /\ r.capacity = st.capacity /\ r.len = st.len /\ r.idx = st.idx /\ r.left = st.left
        /\ r.reading_b = st.reading_b /\ r.alive = st.alive /\ r.taken = st.taken
        /\ r.answers = st.answers /\ r.calls = st.calls
    BY <1>1, <2>7 DEF Kept
  <2>10. Served(r)
    BY <2>6, <2>8, <2>9 DEF Filled, Expecting, Served
  <2>11. \A j \in Newlines(r.in_buf) : j > r.idx
    <3> SUFFICES ASSUME NEW j \in 1..Len(buf), buf[j] = "newline", ~(j > st.idx) PROVE FALSE
      BY <2>9 DEF Newlines
    <3>1. j \in 1..st.idx
      <4>1. st.idx \in Nat /\ j \in Nat /\ j >= 1
        BY <1>1, <2>5
      <4>2. QED
        BY <4>1
    <3>2. st.in_buf[j] = "newline"
      BY <2>6, <3>1
    <3>3. j \in Newlines(st.in_buf)
      BY <2>6, <3>2 DEF Newlines
    <3>4. QED
      BY <1>1, <3>3, KeptSizes DEF Filled, Expecting
  <2>12. Expecting(r)
    BY <2>9, <2>10, <2>11 DEF Filled, Expecting
  <2>13. stream = st.taken \o (held \o new) \o more
    <3>1. stream = st.taken \o held \o st.rx
      <4>1. st.idx + (IF 0 > 0 THEN 0 ELSE 0) = Len(st.in_buf) - st.len
        BY <1>1, KeptSizes
      <4>2. QED
        BY <4>1 DEF Filled, Split, held
    <3>2. st.taken \in Seq(Bytes)
      BY <1>1, KeptSizes
    <3>3. (st.taken \o (held \o new)) \o more = (st.taken \o held) \o (new \o more)
      <4>1. held \in Seq(Bytes) /\ new \in Seq(Bytes) /\ more \in Seq(Bytes)
        BY <2>3
      <4>2. Regroups(st.taken, held, new, more)
        BY <3>2, <4>1, Regrouped
      <4>3. QED
        BY <4>2, Zenon DEF Regroups
    <3>4. QED
      BY <2>3, <3>1, <3>3, Zenon
  <2>14. Split(r, Prefix(r.in_buf, r.idx + n))
    BY <2>6, <2>9, <2>13 DEF Split
  <2>15. Filled(r, n)
    <3>1. n \in Failed..r.len /\ n > 0
      BY <2>2, <2>9 DEF Failed
    <3>2. QED
      BY <1>1, <2>6, <2>9, <2>12, <2>14, <3>1 DEF Filled
  <2>16. n # WouldBlock
    BY <2>2 DEF WouldBlock
  <2>17. QED
    BY <2>2, <2>9, <2>15, <2>16
<1>4. QED
  BY <1>2, <1>3

(* The same, with the outcome left to the reactor or the executor. *)
LEMMA ReadPosted ==
  ASSUME NEW st, Filled(st, 0), st.tasks = {}, st.retry = "none",
         NEW r \in AsyncReadSomePosted(st), peer \in {"open", "closed", "rst", "aborted"}
  PROVE  Suspended(r)
<1>1. PICK q \in Read(st) :
        r = IF q.ret = WouldBlock THEN Await(q, "read") ELSE Post(q, "read_some", q.ret)
  BY Zenon DEF AsyncReadSomePosted
<1>2. /\ q.tasks = {} /\ q.retry = "none" /\ q.ret \in Int
      /\ q.ret = WouldBlock => Filled(q, 0)
      /\ q.ret # WouldBlock => Filled(q, q.ret)
  BY ReadFills
<1>3. q \in Kept
  BY <1>2 DEF Filled, Expecting, Served
<1>4. CASE q.ret = WouldBlock
  <2>1. r = [q EXCEPT !.retry = "read"]
    BY <1>1, <1>4 DEF Await
  <2>2. Alike(r, q) /\ r.retry = "read" /\ r.tasks = q.tasks
    BY <1>3, <2>1, RetryAlike
  <2>3. Filled(r, 0)
    BY <1>2, <1>4, <2>2, AlikeKeeps
  <2>4. QED
    BY <1>2, <2>2, <2>3 DEF Suspended
<1>5. CASE q.ret # WouldBlock
  <2>1. q.ret \in Results
    BY <1>2, <1>3, <1>5, KeptSizes, SizesAssumption DEF Filled, Results, Failed
  <2>2. r = Post(q, "read_some", q.ret)
    BY <1>1, <1>5
  <2>3. Alike(r, q) /\ r.tasks = q.tasks \cup {Task("read_some", q.ret)} /\ r.retry = q.retry
    BY <1>3, <2>1, <2>2, Posted
  <2>4. Filled(r, q.ret)
    BY <1>2, <1>5, <2>3, AlikeKeeps
  <2>5. r.tasks = {Task("read_some", q.ret)} /\ r.retry = "none"
    BY <1>2, <2>3
  <2>6. QED
    BY <2>1, <2>4, <2>5 DEF Suspended
<1>6. QED
  BY <1>4, <1>5

(* The delimiter is searched for in all of the buffer, and the first one   *)
(* is found: going on from idx misses none.                                *)
LEMMA Searched ==
  ASSUME NEW st, Searching(st)
  PROVE  /\ Hits(st) = Newlines(st.in_buf)
         /\ Hits(st) # {} => FirstNewline(st.in_buf, Match(st)) /\ Match(st) \in 1..MaxSize
<1>1. st \in Kept /\ Len(st.in_buf) <= MaxSize /\ \A j \in Newlines(st.in_buf) : j > st.idx
  BY DEF Searching, Expecting, Served
<1>2. /\ Newlines(st.in_buf) \subseteq 1..Len(st.in_buf) /\ Newlines(st.in_buf) \subseteq Nat
      /\ IsFiniteSet(Newlines(st.in_buf))
  BY <1>1, KeptSizes, NewlinesFinite
<1>3. Hits(st) = Newlines(st.in_buf)
  BY <1>1 DEF Hits, SearchFrom
<1>4. ASSUME Hits(st) # {}
      PROVE  FirstNewline(st.in_buf, Match(st)) /\ Match(st) \in 1..MaxSize
  <2>1. \E i \in Hits(st) : \A j \in Hits(st) : i <= j
    BY <1>2, <1>3, <1>4, Least
  <2>2. Match(st) \in Hits(st) /\ \A j \in Hits(st) : Match(st) <= j
    BY <2>1 DEF Match
  <2>3. Match(st) \in 1..MaxSize
    BY <1>1, <1>2, <1>3, <2>2, KeptSizes, SizesAssumption
  <2>4. QED
    BY <1>3, <2>2, <2>3 DEF FirstNewline
<1>5. QED
  BY <1>3, <1>4

(* A full buffer without a newline is part of a line that is too long. *)
LEMMA TooLong ==
  ASSUME NEW st, Searching(st), Newlines(st.in_buf) = {}, Len(st.in_buf) = MaxSize
  PROVE  Overlong(st)
<1> USE SizesAssumption
<1> DEFINE t == st.taken
           b == st.in_buf
<1>1. /\ t \in Seq(Bytes) /\ b \in Seq(Bytes) /\ st.rx \in Seq(Bytes) /\ Len(t) \in Nat
      /\ stream = (t \o b) \o st.rx /\ Len(b) = MaxSize
      /\ \A k \in 1..Len(b) : b[k] # "newline"
  <2>1. st \in Kept /\ stream = (t \o b) \o st.rx
    BY DEF Searching, Expecting, Served, Split
  <2>2. t \in Seq(Bytes) /\ b \in Seq(Bytes) /\ st.rx \in Seq(Bytes)
    BY <2>1, KeptSizes
  <2>3. \A k \in 1..Len(b) : b[k] # "newline"
    BY DEF Newlines
  <2>4. QED
    BY <2>1, <2>2, <2>3
<1> HIDE DEF t, b
<1>2. /\ t \o b \in Seq(Bytes) /\ Len(t \o b) = Len(t) + MaxSize
      /\ \A i \in 1..MaxSize : (t \o b)[Len(t) + i] = b[i]
  <2>1. /\ t \o b \in Seq(Bytes) /\ Len(t \o b) = Len(t) + Len(b)
        /\ \A i \in 1..Len(b) : (t \o b)[Len(t) + i] = b[i]
    BY <1>1, Joined
  <2>2. QED
    BY <1>1, <2>1
<1>3. /\ Len(stream) = Len(t \o b) + Len(st.rx) /\ Len(st.rx) \in Nat
      /\ \A i \in 1..Len(t \o b) : stream[i] = (t \o b)[i]
  <2>1. st.rx \in Seq(Bytes) /\ stream = (t \o b) \o st.rx
    BY <1>1
  <2>2. t \o b \in Seq(Bytes)
    BY <1>2
  <2> DEFINE tb == t \o b
  <2> HIDE DEF tb
  <2>3. tb \in Seq(Bytes)
    BY <2>2 DEF tb
  <2>4. /\ Len(tb \o st.rx) = Len(tb) + Len(st.rx) /\ Len(st.rx) \in Nat
        /\ \A i \in 1..Len(tb) : (tb \o st.rx)[i] = tb[i]
    BY <2>1, <2>3, Joined
  <2>5. QED
    BY <2>1, <2>4 DEF tb
<1>4. ASSUME NEW k \in 1..MaxSize PROVE stream[Len(t) + k] # "newline"
  <2>1. Len(t) + k \in 1..(Len(t) + MaxSize)
    BY <1>1
  <2>2. stream[Len(t) + k] = (t \o b)[Len(t) + k] /\ (t \o b)[Len(t) + k] = b[k]
    BY <1>2, <1>3, <2>1
  <2>3. QED
    BY <1>1, <2>2
<1>5. Len(t) + MaxSize <= Len(stream)
  <2> DEFINE a == Len(t)
             z == Len(stream)
             x == Len(st.rx)
  <2>1. a \in Nat /\ x \in Nat /\ z = (a + MaxSize) + x
    BY <1>1, <1>2, <1>3, Zenon
  <2> HIDE DEF a, z, x
  <2>2. a + MaxSize <= z
    BY <2>1
  <2>3. QED
    BY <2>2 DEF a, z
<1>6. QED
  BY <1>4, <1>5 DEF Overlong, t

(* The buffer is enlarged by at least a byte and never past max_size(). *)
LEMMA Enlarged ==
  ASSUME NEW st, Searching(st), Newlines(st.in_buf) = {}, Len(st.in_buf) # MaxSize,
         NEW r \in Enlarge(st)
  PROVE  Filled(r, 0) /\ r.tasks = st.tasks /\ r.retry = st.retry
<1> USE SizesAssumption
<1> DEFINE capacity == IF Len(st.in_buf) = st.capacity THEN 2 * st.capacity ELSE st.capacity
           len == Limited(capacity) - Len(st.in_buf)
           b == st.in_buf
           buf == b \o Junk(len)
<1>1. /\ st \in Kept /\ Len(b) <= MaxSize /\ Len(b) <= st.capacity /\ st.left = 0
      /\ st.calls = 0 /\ st.alive = "yes" /\ Split(st, b)
      /\ Lines(st.taken) = 2 * st.answers + (IF st.reading_b THEN 1 ELSE 0)
  BY DEF Searching, Expecting, Served
<1>2. /\ b \in Seq(Bytes) /\ Len(b) \in Nat /\ st.capacity \in Nat /\ st.capacity > 0
      /\ st.capacity <= 2 * MaxSize
  BY <1>1, KeptSizes
<1>3. /\ capacity \in 1..(2 * MaxSize) /\ len \in 1..MaxSize /\ len \in Nat
      /\ Len(b) + len <= MaxSize /\ Len(b) + len <= capacity
  <2> DEFINE l == Len(st.in_buf)
             c == st.capacity
  <2>1. l \in Nat /\ c \in Nat /\ c > 0 /\ c <= 2 * MaxSize /\ l < MaxSize /\ l <= c
    BY <1>1, <1>2
  <2>2. /\ capacity = IF l = c THEN 2 * c ELSE c
        /\ len = (IF MaxSize < capacity THEN MaxSize ELSE capacity) - l
    BY DEF Limited, Minimum
  <2> HIDE DEF l, c, capacity, len
  <2>3. capacity \in Nat /\ capacity > l /\ capacity <= 2 * MaxSize
    BY <2>1, <2>2
  <2>4. len \in Nat /\ len > 0 /\ len <= MaxSize /\ l + len <= MaxSize /\ l + len <= capacity
    BY <2>1, <2>2, <2>3
  <2>5. QED
    BY <2>1, <2>3, <2>4 DEF l
<1>4. r = [st EXCEPT !.capacity = capacity, !.len = len, !.in_buf = buf, !.idx = Len(b)]
  BY DEF Enlarge
<1> HIDE DEF capacity, len, b
<1>5. Junk(len) \in Seq(Bytes) /\ Len(Junk(len)) = len /\ \A i \in 1..len : Junk(len)[i] = "junk"
  BY <1>3, JunkBytes
<1>6. /\ buf \in Seq(Bytes) /\ Len(buf) = Len(b) + len /\ Prefix(buf, Len(b)) = b
      /\ \A i \in 1..Len(b) : buf[i] = b[i]
      /\ \A i \in 1..len : buf[Len(b) + i] = "junk"
  <2> DEFINE j == Junk(len)
  <2> HIDE DEF j
  <2>1. j \in Seq(Bytes) /\ Len(j) = len /\ \A i \in 1..len : j[i] = "junk"
    BY <1>5 DEF j
  <2>2. /\ b \o j \in Seq(Bytes) /\ Len(b \o j) = Len(b) + Len(j) /\ Prefix(b \o j, Len(b)) = b
        /\ \A i \in 1..Len(b) : (b \o j)[i] = b[i]
        /\ \A i \in 1..Len(j) : (b \o j)[Len(b) + i] = j[i]
    BY <1>2, <2>1, Joined
  <2>3. buf = b \o j
    BY DEF j
  <2> HIDE DEF buf
  <2>4. QED
    BY <2>1, <2>2, <2>3
<1> HIDE DEF buf
<1>7. Newlines(buf) = {}
  <2> SUFFICES ASSUME NEW i \in 1..Len(buf), buf[i] = "newline" PROVE FALSE
    BY DEF Newlines
  <2>1. CASE i <= Len(b)
    <3>1. i \in 1..Len(b) /\ b[i] = "newline"
      BY <1>2, <1>6, <2>1
    <3>2. i \in Newlines(st.in_buf)
      BY <3>1 DEF Newlines, b
    <3>3. QED
      BY <3>2
  <2>2. CASE ~(i <= Len(b))
    <3>1. i - Len(b) \in 1..len /\ i = Len(b) + (i - Len(b))
      BY <1>2, <1>3, <1>6, <2>2
    <3>2. QED
      BY <1>6, <3>1
  <2>3. QED
    BY <2>1, <2>2
<1>8. r \in Kept
  <2>1. len \in 0..MaxSize /\ Len(b) \in Nat
    BY <1>2, <1>3
  <2>2. QED
    BY <1>1, <1>3, <1>4, <1>6, <2>1, Zenon DEF Kept
<1>9. /\ r.capacity = capacity /\ r.len = len /\ r.in_buf = buf /\ r.idx = Len(b)
      /\ r.tasks = st.tasks /\ r.retry = st.retry /\ r.left = st.left /\ r.rx = st.rx
      /\ r.reading_b = st.reading_b /\ r.alive = st.alive /\ r.taken = st.taken
      /\ r.answers = st.answers /\ r.calls = st.calls
  BY <1>1, <1>4 DEF Kept
<1>10. Expecting(r)
  <2>1. Served(r)
    BY <1>1, <1>2, <1>3, <1>6, <1>8, <1>9 DEF Served
  <2>2. \A j \in Newlines(r.in_buf) : j > r.idx
    BY <1>7, <1>9
  <2>3. Lines(r.taken) = 2 * r.answers + (IF r.reading_b THEN 1 ELSE 0)
    BY <1>1, <1>9
  <2>4. QED
    BY <1>1, <1>9, <2>1, <2>2, <2>3 DEF Expecting
<1>11. Split(r, Prefix(r.in_buf, r.idx + 0))
  <2>1. r.idx + 0 = Len(b)
    BY <1>2, <1>9
  <2>2. Prefix(r.in_buf, r.idx + 0) = b
    BY <1>6, <1>9, <2>1
  <2>3. QED
    BY <1>1, <1>9, <2>2 DEF Split
<1>12. Filled(r, 0)
  BY <1>2, <1>3, <1>6, <1>9, <1>10, <1>11 DEF Filled, Failed
<1>13. QED
  BY <1>9, <1>12

(* async_read_until leaves the session waiting for a line: it has it, has  *)
(* to read on, or finds that there is no room for it.                      *)
LEMMA ReadUntil ==
  ASSUME NEW st, Searching(st), st.tasks = {}, st.retry = "none",
         peer \in {"open", "closed", "rst", "aborted"}, NEW r \in ReadUntilPosted(st)
  PROVE  Suspended(r)
<1> USE SizesAssumption
<1>1. st \in Kept /\ st.len = 0
  BY DEF Searching, Expecting, Served
<1>2. CASE Hits(st) # {}
  <2>1. FirstNewline(st.in_buf, Match(st)) /\ Match(st) \in 1..MaxSize
    BY <1>2, Searched
  <2>2. Match(st) \in Results
    BY <2>1 DEF Results, Failed
  <2>3. r = Post(st, "line", Match(st))
    BY <1>2 DEF ReadUntilPosted
  <2>4. /\ Alike(r, st) /\ r.tasks = st.tasks \cup {Task("line", Match(st))}
        /\ r.retry = st.retry
    BY <1>1, <2>2, <2>3, Posted
  <2>5. Searching(r) /\ r.in_buf = st.in_buf
    BY <2>4, AlikeKeeps DEF Alike
  <2>6. r.tasks = {Task("line", Match(st))} /\ r.retry = "none" /\ FirstNewline(r.in_buf, Match(st))
    BY <2>1, <2>4, <2>5
  <2>7. QED
    BY <2>1, <2>5, <2>6 DEF Suspended
<1>3. CASE Hits(st) = {} /\ Full(st)
  <2> DEFINE p == Post(st, "line", Failed)
  <2>1. Overlong(st)
    BY <1>3, Searched, TooLong DEF Full
  <2>2. Failed \in Results /\ 0 \in Results
    BY DEF Results, Failed
  <2>3. Alike(p, st) /\ p.tasks = {Task("line", Failed)} /\ p.retry = "none"
    <3>1. Alike(p, st) /\ p.tasks = st.tasks \cup {Task("line", Failed)} /\ p.retry = st.retry
      BY <1>1, <2>2, Posted
    <3>2. QED
      BY <3>1
  <2>4. p \in Kept
    BY <2>3 DEF Alike
  <2>5. r = Post(p, "read_on", 0)
    BY <1>3 DEF ReadUntilPosted, ReadOn, Then
  <2> HIDE DEF p
  <2>6. Alike(r, p) /\ r.tasks = p.tasks \cup {Task("read_on", 0)} /\ r.retry = p.retry
    BY <2>2, <2>4, <2>5, Posted
  <2>7. r.tasks = {Task("line", Failed), Task("read_on", 0)} /\ r.retry = "none"
    BY <2>3, <2>6
  <2>8. Searching(r)
    BY <2>3, <2>6, AlikeKeeps
  <2>9. Overlong(r)
    BY <2>1, <2>3, <2>6 DEF Alike, Overlong
  <2>10. QED
    BY <2>7, <2>8, <2>9 DEF Suspended
<1>4. CASE Hits(st) = {} /\ ~Full(st)
  <2>1. PICK q \in Enlarge(st) : r \in AsyncReadSomePosted(q)
    BY <1>4 DEF ReadUntilPosted, Then
  <2>2. Newlines(st.in_buf) = {} /\ Len(st.in_buf) # MaxSize
    BY <1>4, Searched DEF Full
  <2>3. Filled(q, 0) /\ q.tasks = {} /\ q.retry = "none"
    BY <2>2, Enlarged
  <2>4. QED
    BY <2>1, <2>3, ReadPosted
<1>5. QED
  BY <1>2, <1>3, <1>4

-----------------------------------------------------------------------------
(* The callbacks. *)

(* The session is between two operations, next to read a or b. *)
Idle(st, reading_b) ==
  /\ Served(st) /\ st.left = 0 /\ st.len = 0 /\ Split(st, st.in_buf)
  /\ st.tasks = {} /\ st.retry = "none"
  /\ Lines(st.taken) = 2 * st.answers + (IF reading_b THEN 1 ELSE 0)

(* From there it goes on to wait for a line. *)
LEMMA Begun ==
  ASSUME NEW st, NEW b \in BOOLEAN, Idle(st, b),
         peer \in {"open", "closed", "rst", "aborted"}, NEW r \in BeginRead(st, b)
  PROVE  Suspended(r)
<1> DEFINE q == [st EXCEPT !.reading_b = b, !.idx = 0, !.calls = 0]
<1>1. r \in ReadUntilPosted(q)
  BY DEF BeginRead, Then
<1>2. st \in Kept
  BY DEF Idle, Served
<1>3. q \in Kept
  BY <1>2, Zenon DEF Kept
<1>4. /\ q.idx = 0 /\ q.calls = 0 /\ q.rx = st.rx /\ q.in_buf = st.in_buf /\ q.len = st.len
      /\ q.capacity = st.capacity /\ q.left = st.left /\ q.tasks = st.tasks
      /\ q.retry = st.retry /\ q.alive = st.alive /\ q.taken = st.taken
      /\ q.answers = st.answers
  BY <1>2 DEF Kept
<1>5. q.reading_b = b
  BY <1>2, Zenon DEF Kept
<1> HIDE DEF q
<1>6. Served(q)
  BY <1>3, <1>4 DEF Idle, Served
<1>7. \A j \in Newlines(q.in_buf) : j > q.idx
  BY <1>3, <1>4, KeptSizes, NewlinesFinite
<1>8. Lines(q.taken) = 2 * q.answers + (IF q.reading_b THEN 1 ELSE 0)
  BY <1>4, <1>5 DEF Idle
<1>9. Searching(q)
  BY <1>4, <1>6, <1>7, <1>8 DEF Idle, Searching, Expecting, Split
<1>10. QED
  BY <1>1, <1>4, <1>9, ReadUntil DEF Idle

(* What a session that ends or is killed leaves behind. *)
LEMMA EndLeaves ==
  ASSUME NEW st \in Kept, st.alive \in {"yes", "killed"}, Len(st.in_buf) <= MaxSize,
         st.retry = "none", st.len = 0, st.calls <= 1, st.tasks = {}
  PROVE  Ended(End(st))
<1> DEFINE q == End(st)
           x == IF st.alive = "killed" THEN st.alive ELSE "ended"
<1>1. q = [st EXCEPT !.alive = x] /\ x \in {"ended", "killed"}
  BY DEF End
<1> HIDE DEF x
<1>2. q \in Kept
  BY <1>1, Zenon DEF Kept
<1>3. /\ q.alive = x /\ q.in_buf = st.in_buf /\ q.retry = st.retry /\ q.len = st.len
      /\ q.calls = st.calls /\ q.tasks = st.tasks
  BY <1>1 DEF Kept
<1> HIDE DEF q
<1>4. Ended(q)
  BY <1>1, <1>2, <1>3 DEF Ended
<1>5. QED
  BY <1>4 DEF q

(* write() takes part of the answer, nothing, or the process with it. *)
LEMMA WriteSends ==
  ASSUME NEW st, Answering(st), NEW r \in Write(st)
  PROVE  /\ r.tasks = st.tasks /\ r.retry = st.retry /\ r.left = st.left /\ r.calls = st.calls
         /\ r.in_buf = st.in_buf /\ r.len = st.len /\ r \in Kept
         /\ r.ret \in {Failed, WouldBlock} \cup (1..st.left)
         /\ Answering(r) \/ (r.alive = "killed" /\ r.ret = Failed)
<1> USE SizesAssumption
<1>1. st \in Kept /\ st.tx \in Nat /\ st.tx <= TxRoom /\ st.left \in Nat /\ st.left > 0
  BY KeptSizes DEF Answering, Served
<1>2. Failed \in Int /\ WouldBlock \in Int
  BY DEF Failed, WouldBlock
<1>3. CASE peer = "rst"
  <2>1. r = [st EXCEPT !.alive = "killed", !.ret = Failed]
    BY <1>3 DEF Write
  <2>2. r \in Kept
    BY <1>1, <1>2, <2>1, Zenon DEF Kept
  <2>3. QED
    BY <1>1, <2>1, <2>2 DEF Kept
<1>4. CASE peer = "aborted"
  <2>1. r = [st EXCEPT !.ret = Failed]
    BY <1>4 DEF Write
  <2>2. Alike(r, st) /\ r.ret = Failed /\ r.tasks = st.tasks /\ r.retry = st.retry
    BY <1>1, <1>2, <2>1, ResultAlike
  <2>3. Answering(r)
    BY <2>2, AlikeKeeps
  <2>4. QED
    BY <2>2, <2>3 DEF Alike
<1>5. CASE peer \notin {"rst", "aborted"}
  <2> DEFINE n == Minimum(st.left, TxRoom - st.tx)
             x == IF n > 0 THEN n ELSE WouldBlock
  <2>1. r = [st EXCEPT !.tx = @ + n, !.ret = x]
    BY <1>5 DEF Write
  <2>2. n \in 0..st.left /\ st.tx + n \in 0..TxRoom
    BY <1>1 DEF Minimum
  <2> HIDE DEF n
  <2>3. x \in {WouldBlock} \cup (1..st.left) /\ x \in Int
    BY <1>1, <1>2, <2>2
  <2> HIDE DEF x
  <2>4. r \in Kept
    BY <1>1, <2>1, <2>2, <2>3, Zenon DEF Kept
  <2>5. Alike(r, st) /\ r.ret = x /\ r.tasks = st.tasks /\ r.retry = st.retry
    BY <1>1, <2>1, <2>4 DEF Alike, Kept
  <2>6. Answering(r)
    BY <2>5, AlikeKeeps
  <2>7. QED
    BY <2>3, <2>5, <2>6 DEF Alike
<1>6. QED
  BY <1>3, <1>4, <1>5

(* async_write_some leaves the session waiting to go on with the answer, *)
(* or it is killed.                                                      *)
LEMMA WritePosted ==
  ASSUME NEW st, Answering(st), st.tasks = {}, st.retry = "none",
         NEW r \in AsyncWriteSomePosted(st)
  PROVE  Good(r)
<1> USE SizesAssumption
<1>1. PICK q \in Write(st) :
        r = IF q.ret = WouldBlock THEN Await(q, "write") ELSE Post(q, "write_some", q.ret)
  BY Zenon DEF AsyncWriteSomePosted
<1>2. /\ q.tasks = {} /\ q.retry = "none" /\ q.left = st.left /\ q.calls = st.calls
      /\ q.in_buf = st.in_buf /\ q.len = st.len /\ q \in Kept
      /\ q.ret \in {Failed, WouldBlock} \cup (1..st.left)
      /\ Answering(q) \/ (q.alive = "killed" /\ q.ret = Failed)
  BY WriteSends
<1>3. /\ st \in Kept /\ st.calls <= 1 /\ Len(st.in_buf) <= MaxSize
      /\ st.left \in Nat /\ st.left <= OutLen
  BY KeptSizes DEF Answering, Served
<1>4. CASE q.ret = WouldBlock
  <2>1. r = [q EXCEPT !.retry = "write"]
    BY <1>1, <1>4 DEF Await
  <2>2. Alike(r, q) /\ r.retry = "write" /\ r.tasks = q.tasks
    BY <1>2, <2>1, RetryAlike
  <2>3. Answering(r)
    BY <1>2, <1>4, <2>2, AlikeKeeps DEF WouldBlock, Failed
  <2>4. QED
    BY <1>2, <2>2, <2>3 DEF Good, Suspended
<1>5. CASE q.ret # WouldBlock
  <2>1. q.ret \in {Failed} \cup (1..st.left) /\ q.ret \in Results
    BY <1>2, <1>3, <1>5 DEF Results, Failed
  <2>2. r = Post(q, "write_some", q.ret)
    BY <1>1, <1>5
  <2>3. Alike(r, q) /\ r.tasks = q.tasks \cup {Task("write_some", q.ret)} /\ r.retry = q.retry
    BY <1>2, <2>1, <2>2, Posted
  <2>4. r.tasks = {Task("write_some", q.ret)} /\ r.retry = "none"
    BY <1>2, <2>3
  <2>5. CASE Answering(q)
    <3>1. Answering(r) /\ r.left = st.left
      BY <1>2, <2>3, <2>5, AlikeKeeps DEF Alike
    <3>2. QED
      BY <2>1, <2>4, <3>1 DEF Good, Suspended
  <2>6. CASE q.alive = "killed"
    <3>1. r \in Kept /\ r.alive = "killed" /\ r.calls <= 1 /\ Len(r.in_buf) <= MaxSize
      BY <1>2, <1>3, <2>3, <2>6 DEF Alike
    <3>2. QED
      BY <2>4, <3>1 DEF Good, Ended
  <2>7. QED
    BY <1>2, <2>5, <2>6
<1>6. QED
  BY <1>4, <1>5

(* A failed read ends the session, and leaves it the tasks that it had. *)
LEMMA ReadFailed ==
  ASSUME NEW st \in Kept, st.alive = "yes", Len(st.in_buf) <= MaxSize,
         st.retry = "none", st.len = 0, st.calls = 0,
         st.tasks = {} \/ (st.tasks = {Task("read_on", 0)} /\ Overlong(st)),
         NEW r \in LineRead(st, Failed)
  PROVE  /\ Ended(r) /\ r.alive = "ended" /\ r.len = 0 /\ r.calls = 1
         /\ r.tasks = st.tasks /\ r.taken = st.taken
<1>1. st.calls + 1 \in Nat /\ ~(Failed > 0)
  BY DEF Failed
<1>2. r = End([st EXCEPT !.calls = @ + 1])
  BY <1>1 DEF LineRead
<1>3. [st EXCEPT !.calls = @ + 1] \in Kept
  BY <1>1, Zenon DEF Kept
<1> DEFINE c == [st EXCEPT !.calls = @ + 1]
<1>4. /\ c.calls = 1 /\ c.alive = st.alive /\ c.in_buf = st.in_buf
      /\ c.retry = st.retry /\ c.len = st.len /\ c.tasks = st.tasks /\ c.taken = st.taken
  BY DEF Kept
<1> HIDE DEF c
<1>5. r = [c EXCEPT !.alive = "ended"]
  BY <1>2, <1>4 DEF End, c
<1>6. r \in Kept
  BY <1>3, <1>5, Zenon DEF Kept, c
<1>7. /\ r.alive = "ended" /\ r.calls = c.calls /\ r.in_buf = c.in_buf /\ r.retry = c.retry
      /\ r.len = c.len /\ r.tasks = c.tasks /\ r.taken = c.taken
  BY <1>3, <1>5 DEF Kept, c
<1>8. Overlong(st) => Overlong(r)
  BY <1>4, <1>7 DEF Overlong
<1>9. QED
  BY <1>1, <1>4, <1>6, <1>7, <1>8 DEF Ended

(* A line that was found is used: it ends the session, is the first number *)
(* of a pair, or the second, whose answer is written.                      *)
LEMMA LineUsed ==
  ASSUME NEW st, Searching(st), st.tasks = {}, st.retry = "none",
         peer \in {"open", "closed", "rst", "aborted"},
         NEW n, FirstNewline(st.in_buf, n), NEW r \in LineRead(st, n)
  PROVE  Good(r)
<1> USE SizesAssumption
<1> DEFINE called == [st EXCEPT !.calls = @ + 1]
           line == Prefix(st.in_buf, n)
           rest == Suffix(st.in_buf, n)
           parsed == [called EXCEPT !.taken = @ \o line, !.in_buf = rest]
<1>1. /\ st \in Kept /\ st.alive = "yes" /\ st.len = 0 /\ st.left = 0 /\ st.calls = 0
      /\ Len(st.in_buf) <= MaxSize /\ Len(st.in_buf) <= st.capacity /\ Split(st, st.in_buf)
      /\ Lines(st.taken) = 2 * st.answers + (IF st.reading_b THEN 1 ELSE 0)
  BY DEF Searching, Expecting, Served
<1>2. /\ st.in_buf \in Seq(Bytes) /\ st.taken \in Seq(Bytes) /\ st.rx \in Seq(Bytes)
      /\ Len(st.in_buf) \in Nat /\ st.answers \in Nat /\ st.capacity \in Nat
  BY <1>1, KeptSizes
<1>3. n \in 1..Len(st.in_buf) /\ Lines(st.taken \o line) = Lines(st.taken) + 1
  BY <1>2, LineTaken
<1>4. line \in Seq(Bytes) /\ rest \in Seq(Bytes) /\ Len(rest) = Len(st.in_buf) - n /\ line \o rest = st.in_buf
  <2>1. n \in 0..Len(st.in_buf)
    BY <1>3
  <2>2. QED
    BY <1>2, <2>1, Front, Rest, Cut
<1>5. called \in Kept
  <2>1. st.calls + 1 \in Nat
    BY <1>1
  <2>2. QED
    BY <1>1, <2>1, Zenon DEF Kept
<1>6. /\ called.calls = 1 /\ called.taken = st.taken /\ called.in_buf = st.in_buf
      /\ called.alive = st.alive /\ called.len = st.len /\ called.left = st.left
      /\ called.capacity = st.capacity /\ called.rx = st.rx /\ called.tasks = st.tasks
      /\ called.retry = st.retry /\ called.answers = st.answers
      /\ called.reading_b = st.reading_b
  BY <1>1 DEF Kept
<1>7. r = End(called) \/ r \in UseNumber(parsed)
  BY <1>3 DEF LineRead, LineLength, Then
<1> HIDE DEF called, line, rest
<1>8. CASE r = End(called)
  <2>1. Ended(End(called))
    BY <1>1, <1>5, <1>6, EndLeaves
  <2>2. QED
    BY <1>8, <2>1 DEF Good
<1>9. CASE r \in UseNumber(parsed)
  <2>1. st.taken \o line \in Seq(Bytes)
    BY <1>2, <1>4, Joined
  <2>2. parsed \in Kept
    BY <1>4, <1>5, <1>6, <2>1, Zenon DEF Kept
  <2>3. /\ parsed.taken = st.taken \o line /\ parsed.in_buf = rest /\ parsed.calls = 1
        /\ parsed.alive = "yes" /\ parsed.len = 0 /\ parsed.left = 0
        /\ parsed.capacity = st.capacity /\ parsed.rx = st.rx /\ parsed.tasks = {}
        /\ parsed.retry = "none" /\ parsed.answers = st.answers
        /\ parsed.reading_b = st.reading_b
    BY <1>1, <1>5, <1>6 DEF Kept
  <2> HIDE DEF parsed
  <2>4. Served(parsed)
    <3>1. Len(rest) <= Len(st.in_buf) /\ Len(rest) >= 0 /\ Len(rest) \in Nat
      BY <1>2, <1>3, <1>4
    <3>2. Len(rest) <= MaxSize /\ Len(rest) <= st.capacity
      BY <1>1, <1>2, <3>1
    <3>3. QED
      BY <2>2, <2>3, <3>1, <3>2 DEF Served
  <2>5. Split(parsed, parsed.in_buf)
    <3>1. stream = (st.taken \o (line \o rest)) \o st.rx
      BY <1>1, <1>4 DEF Split
    <3>2. (st.taken \o line) \o rest = st.taken \o (line \o rest)
      <4>1. st.taken \in Seq(Bytes) /\ line \in Seq(Bytes) /\ rest \in Seq(Bytes)
        BY <1>2, <1>4
      <4>2. Grouped(st.taken, line, rest)
        BY <4>1, Associative
      <4>3. QED
        BY <4>2, Zenon DEF Grouped
    <3>3. QED
      BY <2>3, <3>1, <3>2 DEF Split
  <2>6. Lines(parsed.taken) = 2 * st.answers + (IF st.reading_b THEN 2 ELSE 1)
    <3>1. CASE st.reading_b
      BY <1>1, <1>2, <1>3, <2>3, <3>1
    <3>2. CASE ~st.reading_b
      BY <1>1, <1>2, <1>3, <2>3, <3>2
    <3>3. QED
      BY <3>1, <3>2
  <2>7. CASE st.reading_b
    <3> DEFINE q == [parsed EXCEPT !.left = OutLen]
    <3>1. r \in AsyncWriteSomePosted(q)
      BY <1>9, <2>3, <2>7 DEF UseNumber, Then
    <3>2. OutLen \in 0..OutLen /\ OutLen > 0
      OBVIOUS
    <3>3. q \in Kept
      BY <2>2, <3>2, Zenon DEF Kept
    <3>4. /\ q.left = OutLen /\ q.taken = parsed.taken /\ q.in_buf = parsed.in_buf
          /\ q.calls = parsed.calls /\ q.alive = parsed.alive /\ q.len = parsed.len
          /\ q.capacity = parsed.capacity /\ q.rx = parsed.rx /\ q.tasks = parsed.tasks
          /\ q.retry = parsed.retry /\ q.answers = parsed.answers
      BY <2>2 DEF Kept
    <3> HIDE DEF q
    <3>5. Served(q) /\ Split(q, q.in_buf)
      BY <2>4, <2>5, <3>3, <3>4 DEF Served, Split
    <3>6. Answering(q)
      BY <2>3, <2>6, <2>7, <3>2, <3>4, <3>5 DEF Answering
    <3>7. QED
      BY <2>3, <3>1, <3>4, <3>6, WritePosted
  <2>8. CASE ~st.reading_b
    <3>1. r \in BeginRead(parsed, TRUE)
      BY <1>9, <2>3, <2>8 DEF UseNumber
    <3>2. Idle(parsed, TRUE)
      BY <2>3, <2>4, <2>5, <2>6, <2>8 DEF Idle
    <3>3. QED
      BY <3>1, <3>2, Begun DEF Good
  <2>9. QED
    BY <2>7, <2>8
<1>10. QED
  BY <1>7, <1>8, <1>9

(* After a write the session goes on with the answer, or with the next pair. *)
LEMMA WriteDone ==
  ASSUME NEW st, Answering(st), st.tasks = {}, st.retry = "none",
         peer \in {"open", "closed", "rst", "aborted"},
         NEW n \in {Failed} \cup (1..st.left), NEW r \in WriteSomeDone(st, n)
  PROVE  Good(r)
<1> USE SizesAssumption
<1>1. /\ st \in Kept /\ st.alive = "yes" /\ st.len = 0 /\ st.calls <= 1 /\ st.left > 0
      /\ Served(st) /\ Split(st, st.in_buf) /\ Lines(st.taken) = 2 * st.answers + 2
      /\ Len(st.in_buf) <= MaxSize
  BY DEF Answering, Served
<1>2. st.left \in 0..OutLen /\ st.answers \in Nat
  BY <1>1, KeptSizes
<1>3. CASE n = Failed
  <2>1. r = End(st)
    BY <1>3 DEF WriteSomeDone
  <2>2. QED
    BY <1>1, <2>1, EndLeaves DEF Good
<1>4. CASE n # Failed /\ n = st.left
  <2> DEFINE q == [st EXCEPT !.left = 0, !.answers = @ + 1]
  <2>1. r \in BeginRead(q, FALSE)
    BY <1>4 DEF WriteSomeDone, Written
  <2>2. 0 \in 0..OutLen /\ st.answers + 1 \in Nat
    BY <1>2
  <2>3. q \in Kept
    BY <1>1, <2>2, Zenon DEF Kept
  <2>4. /\ q.left = 0 /\ q.answers = st.answers + 1 /\ q.taken = st.taken
        /\ q.in_buf = st.in_buf /\ q.alive = st.alive /\ q.len = st.len /\ q.rx = st.rx
        /\ q.capacity = st.capacity /\ q.tasks = st.tasks /\ q.retry = st.retry
    BY <1>1 DEF Kept
  <2> HIDE DEF q
  <2>5. Served(q) /\ Split(q, q.in_buf)
    BY <1>1, <2>3, <2>4 DEF Served, Split
  <2>6. Lines(q.taken) = 2 * q.answers + 0
    BY <1>1, <1>2, <2>4
  <2>7. Idle(q, FALSE)
    BY <1>1, <2>4, <2>5, <2>6 DEF Idle
  <2>8. QED
    BY <2>1, <2>7, Begun DEF Good
<1>5. CASE n # Failed /\ n # st.left
  <2> DEFINE q == [st EXCEPT !.left = @ - n]
  <2>1. r \in AsyncWriteSomePosted(q)
    BY <1>5 DEF WriteSomeDone, Written, Then
  <2>2. st.left - n \in 0..OutLen /\ st.left - n > 0
    BY <1>2, <1>5
  <2>3. q \in Kept
    BY <1>1, <2>2, Zenon DEF Kept
  <2>4. /\ q.left = st.left - n /\ q.answers = st.answers /\ q.taken = st.taken
        /\ q.in_buf = st.in_buf /\ q.alive = st.alive /\ q.len = st.len /\ q.rx = st.rx
        /\ q.capacity = st.capacity /\ q.tasks = st.tasks /\ q.retry = st.retry
        /\ q.calls = st.calls
    BY <1>1 DEF Kept
  <2> HIDE DEF q
  <2>5. Served(q) /\ Split(q, q.in_buf)
    BY <1>1, <2>3, <2>4 DEF Served, Split
  <2>6. Answering(q)
    BY <1>1, <2>2, <2>4, <2>5 DEF Answering
  <2>7. QED
    BY <2>1, <2>4, <2>6, WritePosted
<1>6. QED
  BY <1>3, <1>4, <1>5

(* After a read the buffer is cut back to what it holds, and the search    *)
(* goes on; with nothing read the session ends.                            *)
LEMMA ReadDone ==
  ASSUME NEW st, NEW n, Filled(st, n), st.tasks = {}, st.retry = "none",
         peer \in {"open", "closed", "rst", "aborted"}, NEW r \in ReadSomeDone(st, n)
  PROVE  Good(r)
<1> USE SizesAssumption
<1> DEFINE k == st.idx + (IF n > 0 THEN n ELSE 0)
           buf == Prefix(st.in_buf, k)
           cut == [st EXCEPT !.in_buf = buf, !.len = 0]
<1>1. /\ st \in Kept /\ st.alive = "yes" /\ st.left = 0 /\ st.calls = 0 /\ st.len > 0
      /\ Len(st.in_buf) <= MaxSize /\ Len(st.in_buf) <= st.capacity
      /\ st.idx + st.len = Len(st.in_buf) /\ n \in Failed..st.len /\ Split(st, buf)
      /\ Lines(st.taken) = 2 * st.answers + (IF st.reading_b THEN 1 ELSE 0)
      /\ \A j \in Newlines(st.in_buf) : j > st.idx
  BY DEF Filled, Expecting, Served
<1>2. /\ st.in_buf \in Seq(Bytes) /\ Len(st.in_buf) \in Nat /\ st.idx \in Nat /\ st.len \in Nat
      /\ st.capacity \in Nat
  BY <1>1, KeptSizes
<1>3. n \in Int /\ n <= st.len /\ k \in 0..Len(st.in_buf) /\ k \in Nat
      /\ CutTo(st, n) = k
  <2>1. n \in Int /\ n <= st.len
    BY <1>1, <1>2 DEF Failed
  <2>2. QED
    BY <1>1, <1>2, <2>1 DEF CutTo
<1> HIDE DEF k
<1>4. buf \in Seq(Bytes) /\ Len(buf) = k /\ \A i \in 1..k : buf[i] = st.in_buf[i]
  BY <1>2, <1>3, Front
<1>5. r \in IF n <= 0 THEN LineRead(cut, Failed) ELSE ReadUntilDispatched(cut)
  BY <1>3 DEF ReadSomeDone, Then
<1> HIDE DEF buf
<1>6. cut \in Kept
  <2>1. 0 \in 0..MaxSize
    OBVIOUS
  <2>2. QED
    BY <1>1, <1>4, <2>1, Zenon DEF Kept
<1>7. /\ cut.in_buf = buf /\ cut.len = 0 /\ cut.tasks = {} /\ cut.retry = "none"
      /\ cut.alive = "yes" /\ cut.left = 0 /\ cut.calls = 0 /\ cut.idx = st.idx
      /\ cut.capacity = st.capacity /\ cut.rx = st.rx /\ cut.taken = st.taken
      /\ cut.answers = st.answers /\ cut.reading_b = st.reading_b
  BY <1>1 DEF Kept
<1> HIDE DEF cut
<1>8. Served(cut)
  <2>1. Len(buf) \in Nat /\ Len(buf) <= MaxSize /\ Len(buf) <= st.capacity
    BY <1>1, <1>2, <1>3, <1>4
  <2>2. QED
    BY <1>6, <1>7, <2>1 DEF Served
<1>9. \A j \in Newlines(cut.in_buf) : j > cut.idx
  <2> SUFFICES ASSUME NEW j \in 1..Len(buf), buf[j] = "newline" PROVE j > st.idx
    BY <1>7 DEF Newlines
  <2>1. j \in 1..Len(st.in_buf) /\ st.in_buf[j] = "newline"
    BY <1>2, <1>3, <1>4
  <2>2. QED
    BY <1>1, <2>1 DEF Newlines
<1>10. Searching(cut)
  <2>1. Split(cut, cut.in_buf)
    BY <1>1, <1>7 DEF Split
  <2>2. Expecting(cut)
    BY <1>1, <1>7, <1>8, <1>9 DEF Expecting
  <2>3. QED
    BY <1>7, <2>1, <2>2 DEF Searching
<1>11. Len(cut.in_buf) <= MaxSize
  BY <1>8 DEF Served
<1>12. CASE n <= 0
  <2>1. r \in LineRead(cut, Failed)
    BY <1>5, <1>12
  <2>2. Ended(r)
    BY <1>6, <1>7, <1>11, <2>1, ReadFailed
  <2>3. QED
    BY <2>2 DEF Good
<1>13. CASE ~(n <= 0) /\ Hits(cut) # {}
  <2>1. r \in LineRead(cut, Match(cut))
    BY <1>5, <1>13 DEF ReadUntilDispatched
  <2>2. FirstNewline(cut.in_buf, Match(cut))
    BY <1>10, <1>13, Searched
  <2>3. QED
    BY <1>7, <1>10, <2>1, <2>2, LineUsed
<1>14. CASE ~(n <= 0) /\ Hits(cut) = {} /\ Full(cut)
  <2>1. Overlong(cut)
    BY <1>10, <1>14, Searched, TooLong DEF Full
  <2>2. PICK e \in LineRead(cut, Failed) : r = Post(e, "read_on", 0)
    BY <1>5, <1>14 DEF ReadUntilDispatched, ReadOn, Then
  <2>3. /\ Ended(e) /\ e.alive = "ended" /\ e.len = 0 /\ e.calls = 1 /\ e.tasks = {}
        /\ e.taken = cut.taken
    BY <1>6, <1>7, <1>11, ReadFailed
  <2>4. e \in Kept /\ Len(e.in_buf) <= MaxSize /\ e.retry = "none" /\ 0 \in Results
    BY <2>3 DEF Ended, Results, Failed
  <2>5. Alike(r, e) /\ r.tasks = e.tasks \cup {Task("read_on", 0)} /\ r.retry = e.retry
    BY <2>2, <2>4, Posted
  <2>6. /\ r \in Kept /\ Len(r.in_buf) <= MaxSize /\ r.retry = "none" /\ r.alive = "ended"
        /\ r.len = 0 /\ r.calls = 1 /\ r.taken = cut.taken
    BY <2>3, <2>4, <2>5 DEF Alike
  <2>7. r.tasks = {Task("read_on", 0)}
    BY <2>3, <2>5
  <2>8. Overlong(r)
    BY <2>1, <2>6 DEF Overlong
  <2>9. QED
    BY <2>6, <2>7, <2>8 DEF Good, Ended
<1>15. CASE ~(n <= 0) /\ Hits(cut) = {} /\ ~Full(cut)
  <2>1. PICK q \in Enlarge(cut) : r \in AsyncReadSomePosted(q)
    BY <1>5, <1>15 DEF ReadUntilDispatched, Then
  <2>2. Newlines(cut.in_buf) = {} /\ Len(cut.in_buf) # MaxSize
    BY <1>10, <1>15, Searched DEF Full
  <2>3. Filled(q, 0) /\ q.tasks = {} /\ q.retry = "none"
    BY <1>7, <1>10, <2>2, Enlarged
  <2>4. QED
    BY <2>1, <2>3, ReadPosted DEF Good
<1>16. QED
  BY <1>12, <1>13, <1>14, <1>15

-----------------------------------------------------------------------------
(* The actions. *)

(* What the peer and the socket do not change. *)
LEMMA StreamKept ==
  ASSUME stream' = stream, Good(s')
  PROVE  Good(s)'
<1>1. Searching(s') => Searching(s)'
  BY DEF Searching, Expecting, Served, Split, Lines
<1>2. Answering(s') => Answering(s)'
  BY DEF Answering, Served, Split, Lines
<1>3. ASSUME NEW n PROVE Filled(s', n) => Filled(s, n)'
  BY DEF Filled, Expecting, Served, Split, Lines
<1>4. Overlong(s') => Overlong(s)'
  BY DEF Overlong
<1>5. Ended(s') => Ended(s)'
  BY <1>4 DEF Ended
<1>6. Suspended(s') => Suspended(s)'
  BY <1>1, <1>2, <1>3, <1>4 DEF Suspended
<1>7. QED
  BY <1>5, <1>6 DEF Good

(* What a task runs. *)
LEMMA Executed ==
  ASSUME NEW st, NEW n \in Results
  PROVE  /\ Execute(st, Task("begin", n)) = BeginRead(st, FALSE)
         /\ Execute(st, Task("line", n)) = LineRead(st, n)
         /\ Execute(st, Task("read_some", n)) = ReadSomeDone(st, n)
         /\ Execute(st, Task("read_on", n)) = CalledAgain(st)
         /\ Execute(st, Task("write_some", n)) = WriteSomeDone(st, n)
<1>1. ASSUME NEW op \in {"begin", "line", "read_some", "read_on", "write_some"}
      PROVE  Task(op, n).op = op /\ Task(op, n).n = n
  BY TaskTypes
<1>2. QED
  BY <1>1 DEF Execute

(* The read that goes on behind a full buffer kills the process. *)
LEMMA ReadOnKills ==
  ASSUME NEW st \in Kept, Len(st.in_buf) <= MaxSize, st.retry = "none",
         st.calls <= 1, Overlong(st), NEW r \in CalledAgain(st)
  PROVE  Ended(r)
<1>1. r = [st EXCEPT !.calls = @ + 1, !.alive = "killed"] /\ st.calls \in Nat
  BY KeptSizes DEF CalledAgain
<1>2. r \in Kept
  <2>1. st.calls + 1 \in Nat
    BY <1>1
  <2>2. QED
    BY <1>1, <2>1, Zenon DEF Kept
<1>3. /\ r.calls = st.calls + 1 /\ r.alive = "killed" /\ r.in_buf = st.in_buf
      /\ r.retry = st.retry /\ r.taken = st.taken
  BY <1>1 DEF Kept
<1>4. r.calls <= 1 \/ r.calls = 2
  BY <1>1, <1>3
<1>5. Overlong(r)
  BY <1>3 DEF Overlong
<1>6. QED
  BY <1>2, <1>3, <1>4, <1>5 DEF Ended

(* A worker runs a task of the session. *)
LEMMA TaskRun ==
  ASSUME Good(s), peer \in {"open", "closed", "rst", "aborted"},
         NEW t, RunTask(t)
  PROVE  Good(s')
<1> USE SizesAssumption
<1> DEFINE st == [s EXCEPT !.tasks = @ \ {t}]
<1>1. t \in s.tasks /\ s.alive # "killed" /\ s' \in Execute(st, t)
  BY DEF RunTask
<1>2. s \in Kept
  BY DEF Good, Suspended, Ended, Searching, Answering, Filled, Expecting, Served
<1>3. Alike(st, s) /\ st.tasks = s.tasks \ {t} /\ st.retry = s.retry
  <2>1. s.tasks \ {t} \in SUBSET Tasks
    BY <1>2 DEF Kept
  <2>2. QED
    BY <1>2, <2>1, TasksAlike
<1>4. /\ st \in Kept /\ st.len = s.len /\ st.left = s.left /\ st.in_buf = s.in_buf
      /\ st.alive = s.alive /\ st.calls = s.calls /\ st.reading_b = s.reading_b
      /\ st.taken = s.taken
  BY <1>3 DEF Alike
<1> HIDE DEF st
<1>5. Failed \in Results /\ 0 \in Results
  BY DEF Results, Failed
<1>6. CASE /\ s.retry = "none" /\ Searching(s) /\ ~s.reading_b
           /\ s.tasks = {Task("begin", 0)}
  <2>1. t = Task("begin", 0) /\ st.tasks = {} /\ st.retry = "none"
    BY <1>1, <1>3, <1>6
  <2>2. s' \in BeginRead(st, FALSE)
    BY <1>1, <1>5, <2>1, Executed
  <2>3. Searching(st)
    BY <1>3, <1>6, AlikeKeeps
  <2>4. Lines(st.taken) = 2 * st.answers + (IF FALSE THEN 1 ELSE 0)
    BY <1>4, <1>6, <2>3 DEF Searching, Expecting
  <2>5. Idle(st, FALSE)
    BY <2>1, <2>3, <2>4 DEF Searching, Expecting, Idle
  <2>6. QED
    BY <2>2, <2>5, Begun DEF Good
<1>7. ASSUME s.retry = "none", Searching(s), NEW n \in 1..MaxSize, FirstNewline(s.in_buf, n),
             s.tasks = {Task("line", n)}
      PROVE  Good(s')
  <2>1. t = Task("line", n) /\ st.tasks = {} /\ st.retry = "none"
    BY <1>1, <1>3, <1>7
  <2>2. n \in Results
    BY DEF Results, Failed
  <2>3. s' \in LineRead(st, n)
    BY <1>1, <2>1, <2>2, Executed
  <2>4. Searching(st) /\ FirstNewline(st.in_buf, n)
    BY <1>3, <1>4, <1>7, AlikeKeeps
  <2>5. QED
    BY <2>1, <2>3, <2>4, LineUsed
<1>8. ASSUME s.retry = "none", Searching(s), Overlong(s),
             s.tasks = {Task("line", Failed), Task("read_on", 0)}
      PROVE  Good(s')
  <2>1. /\ Overlong(st) /\ st.retry = "none" /\ st.alive = "yes" /\ st.len = 0
        /\ st.calls = 0 /\ Len(st.in_buf) <= MaxSize
    BY <1>3, <1>4, <1>8 DEF Searching, Expecting, Served, Overlong
  <2>2. CASE t = Task("line", Failed)
    <3>1. s' \in LineRead(st, Failed)
      BY <1>1, <1>5, <2>2, Executed
    <3>2. Task("line", Failed) # Task("read_on", 0)
      BY <1>5, TaskTypes
    <3>3. st.tasks = {Task("read_on", 0)}
      BY <1>3, <1>8, <2>2, <3>2
    <3>4. Ended(s')
      BY <1>4, <2>1, <3>1, <3>3, ReadFailed
    <3>5. QED
      BY <3>4 DEF Good
  <2>3. CASE t = Task("read_on", 0)
    <3>1. s' \in CalledAgain(st)
      BY <1>1, <1>5, <2>3, Executed
    <3>2. Ended(s')
      BY <1>4, <2>1, <3>1, ReadOnKills
    <3>3. QED
      BY <3>2 DEF Good
  <2>4. QED
    BY <1>1, <1>8, <2>2, <2>3
<1>9. ASSUME s.retry = "none", NEW n \in Results, Filled(s, n), s.tasks = {Task("read_some", n)}
      PROVE  Good(s')
  <2>1. t = Task("read_some", n) /\ st.tasks = {} /\ st.retry = "none"
    BY <1>1, <1>3, <1>9
  <2>2. s' \in ReadSomeDone(st, n)
    BY <1>1, <2>1, Executed
  <2>3. Filled(st, n)
    BY <1>3, <1>9, AlikeKeeps
  <2>4. QED
    BY <2>1, <2>2, <2>3, ReadDone
<1>10. ASSUME s.retry = "none", Answering(s), NEW n \in {Failed} \cup (1..s.left),
              s.tasks = {Task("write_some", n)}
       PROVE  Good(s')
  <2>1. t = Task("write_some", n) /\ st.tasks = {} /\ st.retry = "none"
    BY <1>1, <1>3, <1>10
  <2>2. n \in Results
    BY <1>2, KeptSizes DEF Results, Failed
  <2>3. s' \in WriteSomeDone(st, n)
    BY <1>1, <2>1, <2>2, Executed
  <2>4. Answering(st) /\ n \in {Failed} \cup (1..st.left)
    BY <1>3, <1>4, <1>10, AlikeKeeps
  <2>5. QED
    BY <2>1, <2>3, <2>4, WriteDone
<1>11. CASE Ended(s)
  <2>1. /\ s.tasks = {Task("read_on", 0)} /\ Overlong(s) /\ s.retry = "none"
        /\ s.calls <= 1 /\ Len(s.in_buf) <= MaxSize
    BY <1>1, <1>11 DEF Ended
  <2>2. Overlong(st) /\ st.retry = "none" /\ st.calls <= 1 /\ Len(st.in_buf) <= MaxSize
    BY <1>3, <1>4, <2>1 DEF Overlong
  <2>3. s' \in CalledAgain(st)
    BY <1>1, <1>5, <2>1, Executed
  <2>4. Ended(s')
    BY <1>4, <2>2, <2>3, ReadOnKills
  <2>5. QED
    BY <2>4 DEF Good
<1>12. CASE Suspended(s)
  <2>1. s.retry = "none"
    BY <1>1, <1>12 DEF Suspended
  <2>2. QED
    BY <1>1, <1>6, <1>7, <1>8, <1>9, <1>10, <1>12, <2>1 DEF Suspended
<1>13. QED
  BY <1>11, <1>12 DEF Good

(* The reactor retries a read, ... *)
LEMMA ReadRetried ==
  ASSUME Good(s), peer \in {"open", "closed", "rst", "aborted"}, RetryRead
  PROVE  Good(s')
<1> DEFINE st == [s EXCEPT !.retry = "none"]
<1>1. s.tasks = {} /\ s.retry = "read" /\ Filled(s, 0)
  BY DEF RetryRead, Reported, Good, Suspended, Ended
<1>2. s \in Kept
  BY <1>1 DEF Filled, Expecting, Served
<1>3. Alike(st, s) /\ st.retry = "none" /\ st.tasks = {}
  BY <1>1, <1>2, RetryAlike
<1>4. PICK r \in Read(st) :
        IF r.ret = WouldBlock THEN s' = Await(r, "read") ELSE s' \in ReadSomeDone(r, r.ret)
  BY DEF RetryRead
<1> HIDE DEF st
<1>5. Filled(st, 0)
  BY <1>1, <1>3, AlikeKeeps
<1>6. /\ r.tasks = {} /\ r.retry = "none" /\ r.ret \in Int
      /\ r.ret = WouldBlock => Filled(r, 0)
      /\ r.ret # WouldBlock => Filled(r, r.ret)
  BY <1>3, <1>5, ReadFills
<1>7. CASE r.ret = WouldBlock
  <2>1. r \in Kept /\ s' = [r EXCEPT !.retry = "read"]
    BY <1>4, <1>6, <1>7 DEF Await, Filled, Expecting, Served
  <2>2. Alike(s', r) /\ s'.retry = "read" /\ s'.tasks = r.tasks
    BY <2>1, RetryAlike
  <2>3. Filled(s', 0)
    BY <1>6, <1>7, <2>2, AlikeKeeps
  <2>4. QED
    BY <1>6, <2>2, <2>3 DEF Good, Suspended
<1>8. CASE r.ret # WouldBlock
  BY <1>4, <1>6, <1>8, ReadDone
<1>9. QED
  BY <1>7, <1>8

(* ... or a write. *)
LEMMA WriteRetried ==
  ASSUME Good(s), peer \in {"open", "closed", "rst", "aborted"}, RetryWrite
  PROVE  Good(s')
<1> DEFINE st == [s EXCEPT !.retry = "none"]
<1>1. s.tasks = {} /\ s.retry = "write" /\ Answering(s)
  BY DEF RetryWrite, Reported, Good, Suspended, Ended
<1>2. s \in Kept
  BY <1>1 DEF Answering, Served
<1>3. Alike(st, s) /\ st.retry = "none" /\ st.tasks = {}
  BY <1>1, <1>2, RetryAlike
<1>4. PICK r \in Write(st) :
        IF r.ret = WouldBlock THEN s' = Await(r, "write") ELSE s' \in WriteSomeDone(r, r.ret)
  BY DEF RetryWrite
<1> HIDE DEF st
<1>5. Answering(st)
  BY <1>1, <1>3, AlikeKeeps
<1>6. /\ r.tasks = {} /\ r.retry = "none" /\ r.left = st.left /\ r.calls = st.calls
      /\ r.in_buf = st.in_buf /\ r.len = st.len /\ r \in Kept
      /\ r.ret \in {Failed, WouldBlock} \cup (1..st.left)
      /\ Answering(r) \/ (r.alive = "killed" /\ r.ret = Failed)
  BY <1>3, <1>5, WriteSends
<1>7. CASE r.ret = WouldBlock
  <2>1. s' = [r EXCEPT !.retry = "write"]
    BY <1>4, <1>7 DEF Await
  <2>2. Alike(s', r) /\ s'.retry = "write" /\ s'.tasks = r.tasks
    BY <1>6, <2>1, RetryAlike
  <2>3. Answering(s')
    BY <1>6, <1>7, <2>2, AlikeKeeps DEF WouldBlock, Failed
  <2>4. QED
    BY <1>6, <2>2, <2>3 DEF Good, Suspended
<1>8. CASE r.ret # WouldBlock /\ Answering(r)
  <2>1. r.ret \in {Failed} \cup (1..r.left) /\ s' \in WriteSomeDone(r, r.ret)
    BY <1>4, <1>6, <1>8
  <2>2. QED
    BY <1>6, <1>8, <2>1, WriteDone
<1>9. CASE r.alive = "killed" /\ r.ret = Failed
  <2>1. s' = End(r)
    BY <1>4, <1>9 DEF WriteSomeDone, Failed, WouldBlock
  <2>2. r.len = 0 /\ r.calls <= 1 /\ Len(r.in_buf) <= MaxSize
    BY <1>5, <1>6 DEF Answering, Served
  <2>3. QED
    BY <1>6, <1>9, <2>1, <2>2, EndLeaves DEF Good
<1>10. QED
  BY <1>6, <1>7, <1>8, <1>9

(* A byte more. *)
LEMMA Appended ==
  ASSUME NEW q \in Seq(Bytes), NEW b \in Bytes
  PROVE  /\ Append(q, b) \in Seq(Bytes) /\ Len(Append(q, b)) = Len(q) + 1
         /\ Append(q, b)[Len(q) + 1] = b /\ \A i \in 1..Len(q) : Append(q, b)[i] = q[i]
         /\ Append(q, b) = q \o <<b>>
BY AppendProperties, AppendIsConcat

(* A byte that arrives goes behind all others. *)
LEMMA Arrived ==
  ASSUME NEW t \in Seq(Bytes), NEW h \in Seq(Bytes), NEW x \in Seq(Bytes), NEW b \in Bytes
  PROVE  Append((t \o h) \o x, b) = (t \o h) \o Append(x, b)
<1> DEFINE a == t \o h
<1>1. a \in Seq(Bytes)
  BY Joined
<1> HIDE DEF a
<1>2. Append(a \o x, b) = a \o Append(x, b)
  <2>1. a \o x \in Seq(Bytes) /\ <<b>> \in Seq(Bytes)
    BY <1>1, Joined
  <2>2. Append(a \o x, b) = (a \o x) \o <<b>> /\ Append(x, b) = x \o <<b>>
    BY <2>1, Appended
  <2>3. (a \o x) \o <<b>> = a \o (x \o <<b>>)
    <3>1. Grouped(a, x, <<b>>)
      BY <1>1, <2>1, Associative
    <3>2. QED
      BY <3>1, Zenon DEF Grouped
  <2>4. QED
    BY <2>2, <2>3
<1>3. QED
  BY <1>2 DEF a

(* The peer sends a byte. *)
LEMMA Sent ==
  ASSUME stream \in Seq(Bytes), Good(s), NEW b \in {"digit", "newline"}, PeerSend(b)
  PROVE  Good(s)'
<1> USE SizesAssumption
<1>1. s \in Kept
  BY DEF Good, Suspended, Ended, Searching, Answering, Filled, Expecting, Served
<1>2. /\ s.rx \in Seq(Bytes) /\ s.in_buf \in Seq(Bytes) /\ s.taken \in Seq(Bytes)
      /\ s.idx \in Nat /\ s.len \in Nat /\ Len(s.in_buf) \in Nat
  BY <1>1, KeptSizes
<1>3. stream' = Append(stream, b) /\ s' = [s EXCEPT !.rx = Append(@, b)] /\ b \in Bytes
  BY DEF PeerSend, Bytes
<1>4. s' \in Kept
  <2>1. Append(s.rx, b) \in Seq(Bytes)
    BY <1>2, <1>3
  <2>2. QED
    BY <1>1, <1>3, <2>1, Zenon DEF Kept
<1>5. /\ s'.rx = Append(s.rx, b) /\ s'.in_buf = s.in_buf /\ s'.capacity = s.capacity
      /\ s'.len = s.len /\ s'.idx = s.idx /\ s'.left = s.left /\ s'.tasks = s.tasks
      /\ s'.retry = s.retry /\ s'.alive = s.alive /\ s'.taken = s.taken
      /\ s'.answers = s.answers /\ s'.calls = s.calls
  BY <1>1, <1>3 DEF Kept
<1>6. s'.reading_b = s.reading_b
  BY <1>1, <1>3, Zenon DEF Kept
<1>7. ASSUME NEW h \in Seq(Bytes), Split(s, h)
      PROVE  stream' = s'.taken \o h \o s'.rx
  <2>1. Append((s.taken \o h) \o s.rx, b) = (s.taken \o h) \o Append(s.rx, b)
    <3>1. s.taken \in Seq(Bytes) /\ h \in Seq(Bytes) /\ s.rx \in Seq(Bytes) /\ b \in Bytes
      BY <1>2, <1>3
    <3>2. QED
      BY <3>1, Arrived, Zenon
  <2>2. stream = (s.taken \o h) \o s.rx
    BY <1>7 DEF Split
  <2>3. QED
    BY <1>3, <1>5, <2>1, <2>2
<1>8. Served(s) => Served(s)'
  BY <1>4, <1>5 DEF Served
<1>9. Expecting(s) => Expecting(s)'
  BY <1>5, <1>6, <1>8 DEF Expecting, Lines
<1>10. Searching(s) => Searching(s)'
  BY <1>2, <1>5, <1>7, <1>9 DEF Searching, Split
<1>11. Answering(s) => Answering(s)'
  BY <1>2, <1>5, <1>7, <1>8 DEF Answering, Split, Lines
<1>12. ASSUME NEW n, Filled(s, n) PROVE Filled(s, n)'
  <2> DEFINE k == s.idx + (IF n > 0 THEN n ELSE 0)
  <2>1. k \in 0..Len(s.in_buf)
    BY <1>2, <1>12 DEF Filled, Failed
  <2>2. Prefix(s.in_buf, k) \in Seq(Bytes)
    BY <1>2, <2>1, Front
  <2>3. stream' = s'.taken \o Prefix(s.in_buf, k) \o s'.rx
    BY <1>7, <1>12, <2>2 DEF Filled
  <2>4. QED
    BY <1>5, <1>9, <1>12, <2>3 DEF Filled, Split
<1>13. ASSUME Overlong(s) PROVE Overlong(s)'
  <2>1. /\ Len(stream') = Len(stream) + 1 /\ Len(stream) \in Nat
        /\ \A i \in 1..Len(stream) : stream'[i] = stream[i]
    BY <1>3, Appended
  <2>2. Len(s.taken) + MaxSize <= Len(stream) /\ Len(s.taken) \in Nat
    BY <1>2, <1>13 DEF Overlong
  <2>3. ASSUME NEW i \in 1..MaxSize PROVE stream'[Len(s.taken) + i] # "newline"
    <3>1. Len(s.taken) + i \in 1..Len(stream)
      BY <2>1, <2>2
    <3>2. QED
      BY <1>13, <2>1, <3>1 DEF Overlong
  <2>4. Len(s'.taken) + MaxSize <= Len(stream')
    BY <1>5, <2>1, <2>2
  <2>5. QED
    BY <1>5, <2>3, <2>4 DEF Overlong
<1>14. Ended(s) => Ended(s)'
  BY <1>4, <1>5, <1>13 DEF Ended
<1>15. Suspended(s) => Suspended(s)'
  BY <1>5, <1>6, <1>10, <1>11, <1>12, <1>13 DEF Suspended
<1>16. QED
  BY <1>14, <1>15 DEF Good

(* The peer takes a byte of an answer. *)
LEMMA Took ==
  ASSUME Good(s), PeerTake
  PROVE  Good(s')
<1> USE SizesAssumption
<1>1. s \in Kept
  BY DEF Good, Suspended, Ended, Searching, Answering, Filled, Expecting, Served
<1>2. s' = [s EXCEPT !.tx = @ - 1] /\ s.tx - 1 \in 0..TxRoom
  BY <1>1, KeptSizes DEF PeerTake
<1>3. s' \in Kept
  BY <1>1, <1>2, Zenon DEF Kept
<1>4. Alike(s', s) /\ s'.tasks = s.tasks /\ s'.retry = s.retry
  BY <1>1, <1>2, <1>3 DEF Alike, Kept
<1>5. CASE Ended(s)
  BY <1>4, <1>5 DEF Good, Ended, Overlong, Alike
<1>6. CASE Suspended(s)
  <2>1. /\ Searching(s) => Searching(s')
        /\ Answering(s) => Answering(s')
        /\ \A n : Filled(s, n) => Filled(s', n)
    BY <1>4, AlikeKeeps
  <2>2. s'.idx = s.idx /\ s'.in_buf = s.in_buf /\ s'.left = s.left /\ s'.reading_b = s.reading_b
    BY <1>4 DEF Alike
  <2>3. Overlong(s) => Overlong(s')
    BY <1>4 DEF Alike, Overlong
  <2>4. QED
    BY <1>4, <1>6, <2>1, <2>2, <2>3 DEF Good, Suspended
<1>7. QED
  BY <1>5, <1>6 DEF Good

-----------------------------------------------------------------------------
(* The invariant. *)

(* A new session has nothing, and is about to be begun. *)
LEMMA InitEInv == Init => EInv
<1> USE SizesAssumption
<1> SUFFICES ASSUME Init PROVE EInv
  OBVIOUS
<1>1. /\ s.rx = <<>> /\ s.tx = 0 /\ s.in_buf = <<>> /\ s.capacity = 1 /\ s.len = 0 /\ s.idx = 0
      /\ s.left = 0 /\ s.tasks = {Task("begin", 0)} /\ s.retry = "none" /\ s.ret = 0
      /\ s.alive = "yes" /\ s.taken = <<>> /\ s.answers = 0 /\ s.calls = 0
      /\ stream = <<>> /\ peer = "open"
  BY DEF Init
<1>2. s.reading_b = FALSE
  BY Zenon DEF Init
<1>3. s \in Kept
  <2>1. /\ <<>> \in Seq(Bytes) /\ 0 \in 0..TxRoom /\ 1 \in 1..(2 * MaxSize) /\ 0 \in 0..MaxSize
        /\ 0 \in Nat /\ FALSE \in BOOLEAN /\ 0 \in 0..OutLen /\ 0 \in Int
        /\ {Task("begin", 0)} \in SUBSET Tasks
    BY DEF Task, Tasks, Failed
  <2>2. s = [rx |-> <<>>, tx |-> 0, in_buf |-> <<>>, capacity |-> 1, len |-> 0, idx |-> 0,
             reading_b |-> FALSE, left |-> 0, tasks |-> {Task("begin", 0)},
             retry |-> "none", ret |-> 0, alive |-> "yes", taken |-> <<>>, answers |-> 0,
             calls |-> 0]
    BY Zenon DEF Init
  <2>3. QED
    BY <2>1, <2>2, Zenon DEF Kept
<1>4. Newlines(<<>>) = {} /\ Lines(<<>>) = 0
  <2>1. Newlines(<<>>) = {}
    BY DEF Newlines
  <2>2. QED
    BY <2>1, FS_EmptySet DEF Lines
<1>5. Served(s) /\ Split(s, s.in_buf)
  <2>1. Len(<<>>) = 0 /\ <<>> = (<<>> \o <<>>) \o <<>>
    BY ConcatEmptySeq, EmptySeq
  <2>2. QED
    BY <1>1, <1>3, <2>1 DEF Served, Split
<1>6. Searching(s)
  BY <1>1, <1>2, <1>4, <1>5 DEF Searching, Expecting
<1>7. Good(s)
  BY <1>1, <1>2, <1>6 DEF Good, Suspended
<1>8. QED
  BY <1>1, <1>7 DEF EInv

(* Every step keeps it. *)
LEMMA NextEInv == EInv /\ [Next]_vars => EInv'
<1> SUFFICES ASSUME EInv, [Next]_vars PROVE EInv'
  OBVIOUS
<1>1. /\ stream \in Seq(Bytes \ {"junk"}) /\ peer \in {"open", "closed", "rst", "aborted"}
      /\ Good(s)
  BY DEF EInv
<1>2. ASSUME stream' = stream, peer' = peer, Good(s') PROVE EInv'
  <2>1. Good(s)'
    BY <1>2, StreamKept
  <2>2. QED
    BY <1>1, <1>2, <2>1 DEF EInv
<1>3. ASSUME NEW t \in s.tasks, RunTask(t) PROVE EInv'
  <2>1. stream' = stream /\ peer' = peer
    BY <1>3 DEF RunTask
  <2>2. QED
    BY <1>1, <1>2, <1>3, <2>1, TaskRun
<1>4. CASE RetryRead
  <2>1. stream' = stream /\ peer' = peer
    BY <1>4 DEF RetryRead
  <2>2. QED
    BY <1>1, <1>2, <1>4, <2>1, ReadRetried
<1>5. CASE RetryWrite
  <2>1. stream' = stream /\ peer' = peer
    BY <1>5 DEF RetryWrite
  <2>2. QED
    BY <1>1, <1>2, <1>5, <2>1, WriteRetried
<1>6. ASSUME NEW b \in {"digit", "newline"}, PeerSend(b) PROVE EInv'
  <2>1. stream' = Append(stream, b) /\ peer' = peer
    BY <1>6 DEF PeerSend
  <2>2. stream' \in Seq(Bytes \ {"junk"})
    BY <1>1, <2>1, AppendProperties DEF Bytes
  <2>3. stream \in Seq(Bytes)
    BY <1>1
  <2>4. Good(s)'
    BY <1>1, <1>6, <2>3, Sent
  <2>5. QED
    BY <1>1, <2>1, <2>2, <2>4 DEF EInv
<1>7. CASE PeerTake
  <2>1. stream' = stream /\ peer' = peer
    BY <1>7 DEF PeerTake
  <2>2. QED
    BY <1>1, <1>2, <1>7, <2>1, Took
<1>8. ASSUME stream' = stream, s' = s, peer' \in {"open", "closed", "rst", "aborted"}
      PROVE  EInv'
  <2>1. Good(s)'
    BY <1>1, <1>8, StreamKept
  <2>2. QED
    BY <1>1, <1>8, <2>1 DEF EInv
<1>9. CASE PeerLeaves
  BY <1>8, <1>9 DEF PeerLeaves
<1>10. CASE ResetArrives
  BY <1>8, <1>10 DEF ResetArrives
<1>11. CASE Over \/ UNCHANGED vars
  BY <1>1, <1>8, <1>11 DEF Over, vars
<1>12. QED
  BY <1>3, <1>4, <1>5, <1>6, <1>7, <1>9, <1>10, <1>11 DEF Next

(* A session waits for its next task in one of the ways of Good, whatever  *)
(* was read, written or sent so far.                                       *)
THEOREM SessionInvariance == Spec => []EInv
BY InitEInv, NextEInv, PTL DEF Spec

(* Which bytes of the buffer count as read, while no read has completed ... *)
LEMMA NoneDone ==
  ASSUME s \in Kept, \A u \in s.tasks : ~(u.op = "read_some" /\ u.n > 0)
  PROVE  Held = Prefix(s.in_buf, Len(s.in_buf) - s.len)
<1>1. {t.n : t \in {u \in s.tasks : u.op = "read_some" /\ u.n > 0}} = {}
  OBVIOUS
<1>2. Len(s.in_buf) \in Nat /\ s.len \in Nat
  BY KeptSizes
<1>3. Held = Prefix(s.in_buf, Len(s.in_buf) - s.len + 0)
  BY <1>1 DEF Held
<1>4. Len(s.in_buf) - s.len + 0 = Len(s.in_buf) - s.len
  BY <1>2
<1>5. QED
  BY <1>3, <1>4

(* ... and while the callback of one that has is a task. *)
LEMMA OneDone ==
  ASSUME s \in Kept, NEW n \in Results, n > 0, s.tasks = {Task("read_some", n)}
  PROVE  Held = Prefix(s.in_buf, Len(s.in_buf) - s.len + n)
<1> DEFINE done == {t.n : t \in {u \in s.tasks : u.op = "read_some" /\ u.n > 0}}
<1>1. Task("read_some", n).op = "read_some" /\ Task("read_some", n).n = n
  BY TaskTypes
<1>2. done = {n}
  BY <1>1
<1>3. (CHOOSE x \in done : TRUE) = n
  BY <1>2
<1>4. QED
  BY <1>2, <1>3 DEF Held

(* A session that is alive holds what EInv says that it holds. *)
LEMMA HeldIntact ==
  ASSUME EInv, s.alive = "yes"
  PROVE  stream = s.taken \o Held \o s.rx
<1> USE SizesAssumption
<1>1. Suspended(s)
  BY DEF EInv, Good, Ended
<1>2. s \in Kept
  BY <1>1 DEF Suspended, Searching, Answering, Filled, Expecting, Served
<1>3. /\ s.in_buf \in Seq(Bytes) /\ Len(s.in_buf) \in Nat /\ s.len \in Nat /\ s.idx \in Nat
      /\ s.left \in Nat /\ s.left <= OutLen
  BY <1>2, KeptSizes
<1>4. ASSUME s.len = 0, Split(s, s.in_buf), \A u \in s.tasks : ~(u.op = "read_some" /\ u.n > 0)
      PROVE  stream = s.taken \o Held \o s.rx
  <2>1. Held = Prefix(s.in_buf, Len(s.in_buf))
    BY <1>2, <1>3, <1>4, NoneDone
  <2>2. Held = s.in_buf
    BY <1>3, <2>1, Whole
  <2>3. QED
    BY <1>4, <2>2 DEF Split
<1>5. ASSUME NEW n \in Results, ~(n > 0), Filled(s, n),
             \A u \in s.tasks : ~(u.op = "read_some" /\ u.n > 0)
      PROVE  stream = s.taken \o Held \o s.rx
  <2>1. Len(s.in_buf) - s.len = s.idx + (IF n > 0 THEN n ELSE 0)
    BY <1>3, <1>5 DEF Filled
  <2>2. QED
    BY <1>2, <1>5, <2>1, NoneDone DEF Filled, Split
<1>6. ASSUME NEW n \in Results, n > 0, Filled(s, n), s.tasks = {Task("read_some", n)}
      PROVE  stream = s.taken \o Held \o s.rx
  <2>1. Len(s.in_buf) - s.len + n = s.idx + (IF n > 0 THEN n ELSE 0)
    BY <1>3, <1>6 DEF Filled, Failed
  <2>2. QED
    BY <1>2, <1>6, <2>1, OneDone DEF Filled, Split
<1>7. Failed \in Results /\ 0 \in Results /\ ~(Failed > 0) /\ ~(0 > 0)
  BY DEF Results, Failed
<1>8. ASSUME NEW op \in {"begin", "line", "read_some", "read_on", "write_some"}, NEW n \in Results,
             op # "read_some" \/ ~(n > 0)
      PROVE  ~(Task(op, n).op = "read_some" /\ Task(op, n).n > 0)
  BY <1>8, TaskTypes
<1>9. CASE Searching(s) /\ s.tasks = {Task("begin", 0)}
  BY <1>4, <1>7, <1>8, <1>9 DEF Searching
<1>10. ASSUME Searching(s), NEW n \in 1..MaxSize, s.tasks = {Task("line", n)}
       PROVE  stream = s.taken \o Held \o s.rx
  <2>1. n \in Results
    BY DEF Results, Failed
  <2>2. QED
    BY <1>4, <1>8, <1>10, <2>1 DEF Searching
<1>11. CASE Searching(s) /\ s.tasks = {Task("line", Failed), Task("read_on", 0)}
  BY <1>4, <1>7, <1>8, <1>11 DEF Searching
<1>12. ASSUME NEW n \in Results, Filled(s, n), s.tasks = {Task("read_some", n)}
       PROVE  stream = s.taken \o Held \o s.rx
  BY <1>5, <1>6, <1>8, <1>12
<1>13. ASSUME Answering(s), NEW n \in {Failed} \cup (1..s.left), s.tasks = {Task("write_some", n)}
       PROVE  stream = s.taken \o Held \o s.rx
  <2>1. n \in Results
    BY <1>3 DEF Results, Failed
  <2>2. QED
    BY <1>4, <1>8, <1>13, <2>1 DEF Answering
<1>14. CASE s.tasks = {} /\ Filled(s, 0)
  BY <1>5, <1>7, <1>14
<1>15. CASE s.tasks = {} /\ Answering(s)
  BY <1>4, <1>15 DEF Answering
<1>16. QED
  BY <1>1, <1>9, <1>10, <1>11, <1>12, <1>13, <1>14, <1>15 DEF Suspended

(* The bytes the session has used, those in its buffer and those in the    *)
(* kernel are always the peer's bytes in the peer's order, and the buffer  *)
(* stays within max_size(): in_buf_ is enlarged, filled, cut back and      *)
(* erased from without a byte lost, repeated or made up.                   *)
THEOREM StreamIntactCorrect == Spec => []StreamIntact
<1>1. EInv => StreamIntact
  <2> SUFFICES ASSUME EInv PROVE StreamIntact
    OBVIOUS
  <2>1. s \in Kept /\ Len(s.in_buf) <= MaxSize
    BY DEF EInv, Good, Suspended, Ended, Searching, Answering, Filled, Expecting, Served
  <2>2. TypeOK
    BY <2>1, Zenon DEF EInv, TypeOK, Kept
  <2>3. QED
    BY <2>1, <2>2, HeldIntact DEF StreamIntact
<1>2. QED
  BY <1>1, SessionInvariance, PTL

(* Two lines are used for every answer: the delimiter is found in a line   *)
(* that arrived in pieces, or behind another one, and never twice.         *)
THEOREM LinesMatchAnswersCorrect == Spec => []LinesMatchAnswers
<1>1. EInv => LinesMatchAnswers
  <2> SUFFICES ASSUME EInv, s.alive = "yes" PROVE LinesMatchAnswers
    BY DEF LinesMatchAnswers
  <2>1. Suspended(s)
    BY DEF EInv, Good, Ended
  <2>2. \/ Expecting(s)
        \/ Answering(s)
    BY <2>1 DEF Suspended, Searching, Filled
  <2>3. CASE Expecting(s)
    BY <2>3 DEF Expecting, LinesMatchAnswers, Lines
  <2>4. CASE Answering(s)
    BY <2>4 DEF Answering, LinesMatchAnswers, Lines
  <2>5. QED
    BY <2>2, <2>3, <2>4
<1>2. QED
  BY <1>1, SessionInvariance, PTL

(* The callback of one async_read_until is called at most once, whatever   *)
(* the peer sends, except for a line that does not fit into the buffer:    *)
(* the branch for a full buffer reports the length_error and reads on, and *)
(* the second call ends the process.                                       *)
THEOREM CallbackOnceCorrect == Spec => []CallbackOnce
<1>1. EInv => CallbackOnce
  <2> SUFFICES ASSUME EInv PROVE CallbackOnce
    OBVIOUS
  <2>1. CASE Ended(s)
    BY <2>1 DEF Ended, CallbackOnce
  <2>2. CASE Suspended(s)
    BY <2>2 DEF Suspended, Searching, Answering, Filled, Expecting, CallbackOnce
  <2>3. QED
    BY <2>1, <2>2 DEF EInv, Good
<1>2. QED
  BY <1>1, SessionInvariance, PTL
=============================================================================
