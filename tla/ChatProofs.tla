----------------------------- MODULE ChatProofs -----------------------------
(***************************************************************************)
(* Proofs about Chat, for any number of sessions, threads and lines, any   *)
(* size of the queue and any range of the counters that can count the      *)
(* sessions.                                                               *)
(***************************************************************************)
EXTENDS Chat, FiniteSetTheorems, SequenceTheorems, WellFoundedInduction, TLAPS

(* A session that has connected and whose destructor has not run. *)
Present(s) == life[s] \in {"live", "closed"}

(* The k-th function given to the strand is of this kind and about s. *)
Job(k, kind, s) == strand[k].kind = kind /\ strand[k].s = s

(* What holds of every history: the types, every line has a number, and    *)
(* with one thread nothing waits for the strand.                           *)
Entry == [m : 1..MaxLines, sender : Session, intact : BOOLEAN, rem : 0..(Wide - 1)]
Fates == {"none", "pending", "done", "failed"}

OwnPlain ==
  /\ threads \in Threads /\ crashed \in BOOLEAN /\ orderly \in BOOLEAN
  /\ life \in [Session -> {"new", "live", "closed", "dead"}]
  /\ lines \in 0..MaxLines
QueuePlain ==
  /\ queue \in Seq(Entry) /\ Len(queue) <= MaxQueue
  /\ threads = 1 => \A i \in DOMAIN queue : queue[i].intact
StrandPlain ==
  /\ strand \in Seq(Jobs)
  /\ \A k \in DOMAIN strand : strand[k].kind \in {"message", "written"} => strand[k].m # 0
  /\ threads = 1 => \A k \in DOMAIN strand : strand[k].inside
SessionsPlain ==
  /\ DOMAIN sessions \subseteq Session
  /\ \A s \in DOMAIN sessions : sessions[s] \in 0..MaxLines
WritesPlain ==
  /\ write \in [Session -> [m : 0..MaxLines, fate : Fates]]
  /\ \A s \in Session : write[s].fate # "none" => write[s].m # 0
ListsPlain == due \in [Session -> Seq(1..MaxLines)] /\ got \in [Session -> Seq(1..MaxLines)]

Plain == OwnPlain /\ QueuePlain /\ StrandPlain /\ SessionsPlain /\ WritesPlain /\ ListsPlain

(* Messages are numbered in the order of the lines, also on their way.     *)
IdsRight ==
  /\ \A i, j \in DOMAIN queue : i < j => queue[i].m < queue[j].m
  /\ \A i \in DOMAIN queue : queue[i].m <= lines
  /\ \A s \in Session : \A n \in DOMAIN due[s] : due[s][n] <= lines
  /\ \A k \in DOMAIN strand : strand[k].kind = "message" =>
       /\ strand[k].m <= lines
       /\ \A i \in DOMAIN queue : queue[i].m < strand[k].m
       /\ \A s \in Session : \A n \in DOMAIN due[s] : due[s][n] < strand[k].m
       /\ \A l \in DOMAIN strand : l < k /\ strand[l].kind = "message" =>
            strand[l].m < strand[k].m

(* Who is in sessions_. *)
MembersRight ==
  /\ \A s \in DOMAIN sessions :
       Present(s) \/ (life[s] = "dead" /\ \E k \in DOMAIN strand : Job(k, "destroyed", s))
  /\ \A s \in Session : Present(s) /\ s \notin DOMAIN sessions =>
       \E k \in DOMAIN strand : Job(k, "created", s)
  /\ \A s \in Session : life[s] # "dead" /\ s \notin DOMAIN sessions =>
       due[s] = << >> /\ got[s] = << >>

(* The queue lets s go: see Harmless. *)
LetsGo(s) ==
  sessions[s] # 0 =>
    \A p \in DOMAIN queue : queue[p].m = sessions[s] =>
      \A i \in p..Len(queue) :
        /\ queue[i].sender # s
        /\ queue[i].rem > 1 \/ (p = 1 /\ \A j \in 1..i : queue[j].rem = 1)

(* What the functions given to the strand rely on. *)
CreatedRight(k, s) ==
  /\ Present(s) /\ s \notin DOMAIN sessions
  /\ \A l \in DOMAIN strand : Job(l, "created", s) => l = k
MessageRight(k, s) ==
  /\ Present(s)
  /\ s \in DOMAIN sessions \/ \E l \in DOMAIN strand : l < k /\ Job(l, "created", s)
WrittenRight(k, s) ==
  /\ Present(s) /\ s \in DOMAIN sessions
  /\ strand[k].m = sessions[s] /\ write[s].fate = "none"
  /\ \A l \in DOMAIN strand : Job(l, "written", s) => l = k
DestroyedRight(k, s) ==
  /\ k = 1 /\ life[s] = "dead" /\ s \in DOMAIN sessions
  /\ write[s].fate = "none" /\ LetsGo(s)
JobsRight ==
  \A k \in DOMAIN strand : \A s \in Session :
    /\ Job(k, "created", s) => CreatedRight(k, s)
    /\ Job(k, "message", s) => MessageRight(k, s)
    /\ Job(k, "written", s) => WrittenRight(k, s)
    /\ Job(k, "destroyed", s) => DestroyedRight(k, s)

(* A write is of the message that the session is marked with, ... *)
WritesRight ==
  \A s \in Session : write[s].fate # "none" =>
    /\ Present(s) /\ s \in DOMAIN sessions /\ sessions[s] = write[s].m
    /\ \A k \in DOMAIN strand : ~Job(k, "written", s)

(* ... which is in the queue and not its own. *)
PointersRight ==
  \A s \in DOMAIN sessions : sessions[s] # 0 =>
    \E i \in DOMAIN queue : queue[i].m = sessions[s] /\ queue[i].sender # s

(* The sessions that entry e is still to be sent to, if ss is sessions_. *)
Waiting(ss, e) == {s \in DOMAIN ss : ss[s] # 0 /\ s # e.sender /\ ss[s] <= e.m}
CountsRight ==
  \A i \in DOMAIN queue :
    queue[i].rem = Cardinality(Waiting(sessions, queue[i])) /\ queue[i].rem > 0

(* What a session has been sent is the first part of what it is due; the   *)
(* message it is marked with comes next, or is the last one if the write   *)
(* has ended; the queue holds the rest.                                    *)
Sent(s) == write[s].fate = "done" \/ \E k \in DOMAIN strand : Job(k, "written", s)
Place(s) == IF Sent(s) THEN Len(got[s]) ELSE Len(got[s]) + 1
Rest(s) == {queue[i].m : i \in {j \in DOMAIN queue :
              queue[j].sender # s /\ queue[j].m > sessions[s]}}
Delivered(s) ==
  /\ Len(got[s]) <= Len(due[s])
  /\ \A n \in DOMAIN got[s] : got[s][n] = due[s][n]
  /\ \A i, j \in DOMAIN due[s] : i < j => due[s][i] < due[s][j]
  /\ sessions[s] = 0 => Len(got[s]) = Len(due[s])
  /\ sessions[s] # 0 =>
       /\ Place(s) \in DOMAIN due[s] /\ due[s][Place(s)] = sessions[s]
       /\ {due[s][n] : n \in {k \in DOMAIN due[s] : k > Place(s)}} = Rest(s)
DeliveryRight == \A s \in DOMAIN sessions : Delivered(s)

Right ==
  /\ ~crashed /\ IdsRight /\ MembersRight /\ JobsRight /\ WritesRight
  /\ PointersRight /\ CountsRight /\ DeliveryRight

ChatInv == Plain /\ (orderly => Right)

-----------------------------------------------------------------------------
(* Types. *)

LEMMA DecType ==
  ASSUME NEW n \in Nat
  PROVE  /\ Dec(n) \in 0..(Wide - 1)
         /\ n \in 1..Wide => Dec(n) = n - 1
  BY ChatAssumption DEF Dec

LEMMA EntryType ==
  ASSUME queue \in Seq(Entry)
  PROVE  /\ Len(queue) \in Nat /\ DOMAIN queue = 1..Len(queue)
         /\ \A i \in DOMAIN queue :
              /\ i \in Nat \ {0} /\ queue[i] \in Entry
              /\ queue[i].m \in 1..MaxLines /\ queue[i].m \in Nat \ {0}
              /\ queue[i].sender \in Session
              /\ queue[i].rem \in 0..(Wide - 1) /\ queue[i].rem \in Nat
<1>1. /\ Len(queue) \in Nat /\ DOMAIN queue = 1..Len(queue)
      /\ \A i \in DOMAIN queue : queue[i] \in Entry
  OBVIOUS
<1>2. \A e \in Entry : /\ e.m \in 1..MaxLines /\ e.m \in Nat \ {0} /\ e.sender \in Session
                       /\ e.rem \in 0..(Wide - 1) /\ e.rem \in Nat
  BY ChatAssumption DEF Entry
<1>3. QED
  BY <1>1, <1>2

(* A function given to the strand comes last. *)
LEMMA Given ==
  ASSUME strand \in Seq(Jobs), NEW kind \in {"created", "destroyed", "message", "written"},
         NEW s \in Session, NEW m \in 0..MaxLines, Execute(kind, s, m)
  PROVE  /\ strand' \in Seq(Jobs) /\ Len(strand') = Len(strand) + 1
         /\ \A k \in DOMAIN strand : k \in DOMAIN strand' /\ strand'[k] = strand[k]
         /\ strand'[Len(strand')] = [kind |-> kind, s |-> s, m |-> m, inside |-> strand = << >>]
  BY DEF Execute, Jobs

LEMMA Popped ==
  ASSUME strand \in Seq(Jobs), strand # << >>, strand' = Tail(strand)
  PROVE  /\ strand' \in Seq(Jobs) /\ Len(strand') = Len(strand) - 1
         /\ Head(strand) = strand[1] /\ 1 \in DOMAIN strand
         /\ \A k \in DOMAIN strand' : k + 1 \in DOMAIN strand /\ strand'[k] = strand[k + 1]
  OBVIOUS

-----------------------------------------------------------------------------
(* The queue without a receiver. *)

(* r is the queue from entry c on, decremented from entry f on. *)
CutAt(r, c, f) ==
  /\ r \in Seq(Entry) /\ Len(r) = Len(queue) - c + 1
  /\ \A i \in DOMAIN r :
       /\ i + c - 1 \in DOMAIN queue
       /\ r[i] = IF i + c - 1 >= f THEN Decremented(queue[i + c - 1]) ELSE queue[i + c - 1]

(* Where the queue is cut when the receiver is at its entry p: behind the  *)
(* entries at the front that wait for nobody else, if p is the first.      *)
Where(p, c, f) ==
  IF p = 1 /\ queue[1].rem = 1
  THEN /\ f = c /\ c \in 2..Len(queue) + 1
       /\ \A i \in 2..c - 1 : queue[i].rem <= 1
       /\ c \in DOMAIN queue => queue[c].rem > 1
  ELSE c = 1 /\ f = p

LEMMA IndexFound ==
  ASSUME NEW m, Queued(m)
  PROVE  Index(m) \in DOMAIN queue /\ queue[Index(m)].m = m
  BY DEF Queued, Index

(* The least element of a set of positions. *)
LEMMA LeastExists ==
  ASSUME NEW m \in Nat, NEW n \in Nat, NEW T \in SUBSET (m..n), T # {}
  PROVE  \E i \in T : \A j \in T : i <= j
<1> DEFINE Before(k) == {j \in T : j <= k}
           U == {Before(k) : k \in T}
<1>1. IsFiniteSet(T)
  <2>1. IsFiniteSet(m..n)
    BY FS_Interval
  <2>2. QED
    BY <2>1, FS_Subset
<1>2. U # {} /\ U \subseteq FiniteSubsetsOf(T)
  <2>1. ASSUME NEW k \in T PROVE Before(k) \in SUBSET T /\ IsFiniteSet(Before(k))
    <3>1. Before(k) \in SUBSET T
      OBVIOUS
    <3>2. QED
      BY <1>1, <3>1, FS_Subset
  <2>2. QED
    BY <2>1 DEF FiniteSubsetsOf
<1>3. PICK V \in U : \A W \in U : ~(<<W, V>> \in StrictSubsetOrdering(T))
  BY <1>2, WFMin, FS_StrictSubsetOrderingWellFounded
<1>4. PICK k \in T : V = Before(k)
  OBVIOUS
<1>5. SUFFICES ASSUME NEW j \in T, ~(k <= j) PROVE FALSE
  BY <1>4
<1>6. Before(j) \subseteq Before(k) /\ k \in Before(k) /\ k \notin Before(j)
  <2>1. j \in Int /\ k \in Int /\ \A i \in T : i \in Int
    OBVIOUS
  <2>2. j <= k
    BY <1>5, <2>1
  <2>3. \A i \in T : i <= j => i <= k
    BY <2>1, <2>2
  <2>4. Before(j) \subseteq Before(k)
    BY <2>3
  <2>5. k \in Before(k)
    BY <2>1
  <2>6. k \notin Before(j)
    BY <1>5
  <2>7. QED
    BY <2>4, <2>5, <2>6
<1>7. Before(j) \in U /\ Before(j) \subseteq T
  BY Zenon
<1> HIDE DEF Before
<1>8. <<Before(j), Before(k)>> \in StrictSubsetOrdering(T)
  BY <1>6, <1>7 DEF StrictSubsetOrdering, Before
<1> QED
  BY <1>3, <1>4, <1>7, <1>8

LEMMA DroppedAt ==
  ASSUME queue \in Seq(Entry), NEW m, Queued(m)
  PROVE  \E c \in 1..Len(queue) + 1, f \in 1..Len(queue) + 1 :
           Where(Index(m), c, f) /\ CutAt(DropReceiver(m), c, f)
<1> DEFINE p == Index(m)
           more == {i \in 2..Len(queue) : queue[i].rem > 1}
           behind == IF more = {} THEN Len(queue) + 1
                     ELSE CHOOSE i \in more : \A j \in more : i <= j
           cut == IF p = 1 /\ queue[1].rem = 1 THEN behind ELSE 0
           from == IF cut = 0 THEN p ELSE cut
           c == IF cut = 0 THEN 1 ELSE cut
           q == [i \in DOMAIN queue |->
                   IF i >= from THEN Decremented(queue[i]) ELSE queue[i]]
<1>1. p \in DOMAIN queue /\ Len(queue) \in Nat /\ DOMAIN queue = 1..Len(queue)
  BY IndexFound
<1>2. /\ behind \in 2..Len(queue) + 1
      /\ \A i \in 2..behind - 1 : ~(queue[i].rem > 1)
      /\ behind \in DOMAIN queue => queue[behind].rem > 1
  <2>1. CASE more = {}
    BY <1>1, <2>1
  <2>2. CASE more # {}
    <3>1. more \in SUBSET (2..Len(queue))
      OBVIOUS
    <3>2. \E i \in more : \A j \in more : i <= j
      BY <1>1, <2>2, <3>1, LeastExists
    <3>3. behind \in more /\ \A j \in more : behind <= j
      <4>1. behind = CHOOSE i \in more : \A j \in more : i <= j
        BY <2>2
      <4> HIDE DEF behind, more
      <4>2. QED
        BY <3>2, <4>1
    <3> HIDE DEF behind
    <3>4. \A i \in 2..behind - 1 : i \notin more
      BY <1>1, <3>3
    <3>5. QED
      BY <1>1, <3>3, <3>4
  <2>3. QED
    BY <2>1, <2>2
<1>3. DropReceiver(m) = SubSeq(q, c, Len(queue))
  BY DEF DropReceiver
<1> HIDE DEF behind
<1>4. from \in 1..Len(queue) + 1 /\ c \in 1..Len(queue) + 1 /\ Where(p, c, from)
  <2>1. CASE p = 1 /\ queue[1].rem = 1
    <3>1. cut = behind /\ from = behind /\ c = behind
      BY <1>2, <2>1
    <3>2. \A i \in 2..behind - 1 : queue[i].rem <= 1
      <4>1. \A i \in DOMAIN queue : queue[i].rem \in Nat
        BY EntryType
      <4>2. \A i \in 2..behind - 1 : i \in DOMAIN queue
        BY <1>1, <1>2
      <4>3. QED
        BY <1>2, <4>1, <4>2
    <3>3. QED
      BY <1>2, <2>1, <3>1, <3>2 DEF Where
  <2>2. CASE ~(p = 1 /\ queue[1].rem = 1)
    BY <1>1, <2>2 DEF Where
  <2>3. QED
    BY <2>1, <2>2
<1> HIDE DEF from, c, p
<1>5. q \in Seq(Entry) /\ Len(q) = Len(queue)
  <2>1. \A e \in Entry : Decremented(e) \in Entry
    BY DecType DEF Entry, Decremented
  <2>2. QED
    BY <1>1, <2>1
<1>6. CutAt(SubSeq(q, c, Len(queue)), c, from)
  BY <1>1, <1>4, <1>5 DEF CutAt
<1>7. QED
  BY <1>3, <1>4, <1>6 DEF p

(* The queue with entry i decremented, ... *)
LEMMA EntryLess ==
  ASSUME queue \in Seq(Entry), NEW i \in DOMAIN queue,
         NEW r, r = [queue EXCEPT ![i] = Decremented(@)]
  PROVE  /\ r \in Seq(Entry) /\ Len(r) = Len(queue)
         /\ r[i] = Decremented(queue[i])
         /\ \A k \in DOMAIN queue : k # i => r[k] = queue[k]
<1>1. Decremented(queue[i]) \in Entry
  BY EntryType, DecType DEF Entry, Decremented
<1> HIDE DEF Decremented
<1>2. QED
  BY <1>1

(* ... and without it. *)
LEMMA EntryRemoved ==
  ASSUME queue \in Seq(Entry), NEW i \in DOMAIN queue
  PROVE  /\ RemoveAt(queue, i) \in Seq(Entry) /\ Len(RemoveAt(queue, i)) = Len(queue) - 1
         /\ \A k \in 1..Len(queue) - 1 :
              RemoveAt(queue, i)[k] = IF k < i THEN queue[k] ELSE queue[k + 1]
<1> DEFINE a == SubSeq(queue, 1, i - 1)
           b == SubSeq(queue, i + 1, Len(queue))
<1>1. /\ a \in Seq(Entry) /\ Len(a) = i - 1 /\ \A k \in 1..i - 1 : a[k] = queue[k]
      /\ i \in 1..Len(queue) /\ Len(queue) \in Nat
  OBVIOUS
<1>2. /\ b \in Seq(Entry) /\ Len(b) = Len(queue) - i
      /\ \A k \in 1..Len(queue) - i : b[k] = queue[k + i]
  OBVIOUS
<1>3. RemoveAt(queue, i) = a \o b
  BY DEF RemoveAt
<1> HIDE DEF a, b
<1>4. /\ a \o b \in Seq(Entry) /\ Len(a \o b) = Len(a) + Len(b)
      /\ \A k \in 1..Len(a) + Len(b) :
           (a \o b)[k] = IF k <= Len(a) THEN a[k] ELSE b[k - Len(a)]
  BY <1>1, <1>2, ConcatProperties
<1>5. Len(a) + Len(b) = Len(queue) - 1
  BY <1>1, <1>2
<1>6. ASSUME NEW k \in 1..Len(queue) - 1
      PROVE  (a \o b)[k] = IF k < i THEN queue[k] ELSE queue[k + 1]
  <2>1. CASE k < i
    BY <1>1, <1>4, <1>5, <2>1
  <2>2. CASE ~(k < i)
    <3>1. k - (i - 1) \in 1..Len(queue) - i /\ k - (i - 1) + i = k + 1 /\ ~(k <= Len(a))
      BY <1>1, <2>2
    <3>2. QED
      BY <1>1, <1>2, <1>4, <1>5, <2>2, <3>1
  <2>3. QED
    BY <2>1, <2>2
<1>7. QED
  BY <1>3, <1>4, <1>5, <1>6

-----------------------------------------------------------------------------
(* What holds of every history. *)

LEMMA PlainTypes == Plain => TypeOK
<1> SUFFICES ASSUME Plain PROVE TypeOK
  OBVIOUS
<1> USE DEF Plain
<1>1. Range(sessions) \subseteq 0..MaxLines
  BY DEF SessionsPlain, Range
<1>2. QED
  BY <1>1 DEF TypeOK, OwnPlain, QueuePlain, StrandPlain, SessionsPlain, WritesPlain,
              ListsPlain, Entry, Fates

LEMMA PlainInit == Init => Plain
<1> SUFFICES ASSUME Init PROVE Plain
  OBVIOUS
<1> USE DEF Init
<1>1. OwnPlain
  <2>1. life \in [Session -> {"new", "live", "closed", "dead"}]
    OBVIOUS
  <2>2. lines \in 0..MaxLines
    BY ChatAssumption
  <2>3. QED
    BY <2>1, <2>2, Zenon DEF OwnPlain
<1>2. QueuePlain
  BY ChatAssumption DEF QueuePlain
<1>3. StrandPlain
  BY DEF StrandPlain
<1>4. SessionsPlain
  BY DEF SessionsPlain
<1>5. WritesPlain
  BY ChatAssumption DEF WritesPlain, NoWrite, Fates
<1>6. ListsPlain
  BY DEF ListsPlain
<1>7. QED
  BY <1>1, <1>2, <1>3, <1>4, <1>5, <1>6 DEF Plain

LEMMA Gives ==
  ASSUME StrandPlain, NEW kind \in {"created", "destroyed", "message", "written"},
         NEW s \in Session, NEW m \in 0..MaxLines, Execute(kind, s, m), MayRun(s),
         kind \in {"message", "written"} => m # 0, UNCHANGED threads
  PROVE  StrandPlain'
<1>1. /\ strand' \in Seq(Jobs) /\ Len(strand') = Len(strand) + 1
      /\ \A k \in DOMAIN strand : k \in DOMAIN strand' /\ strand'[k] = strand[k]
      /\ strand'[Len(strand')] = [kind |-> kind, s |-> s, m |-> m, inside |-> strand = << >>]
  BY Given DEF StrandPlain
<1>2. DOMAIN strand' = DOMAIN strand \cup {Len(strand')}
  BY <1>1 DEF StrandPlain
<1>3. \A k \in DOMAIN strand' : strand'[k].kind \in {"message", "written"} => strand'[k].m # 0
  BY <1>1, <1>2 DEF StrandPlain
<1>4. threads = 1 => strand = << >>
  BY DEF MayRun, StrandPlain
<1>5. threads = 1 => strand'[Len(strand')].inside
  <2>1. SUFFICES ASSUME strand = << >> PROVE strand'[Len(strand')].inside
    BY <1>4
  <2>2. (strand = << >>) = TRUE
    BY <2>1, Zenon
  <2>3. strand'[Len(strand')] = [kind |-> kind, s |-> s, m |-> m, inside |-> TRUE]
    BY <1>1, <2>2, Zenon
  <2>4. QED
    BY <2>3
<1>6. threads' = 1 => \A k \in DOMAIN strand' : strand'[k].inside
  BY <1>1, <1>2, <1>5 DEF StrandPlain
<1>7. QED
  BY <1>1, <1>3, <1>6 DEF StrandPlain

(* Only the head of the strand changes sessions_ and the queue. *)
LEMMA PlainStep ==
  ASSUME Plain, NEW s \in Session,
         \/ Start(s) \/ ReadLine(s) \/ Leave(s) \/ WriteDone(s) \/ WriteFailed(s)
         \/ \E fate \in {"done", "failed"} : Transfer(s, fate)
  PROVE  Plain'
<1>1. UNCHANGED <<threads, sessions, queue, due>>
  BY DEF Start, ReadLine, Leave, WriteDone, WriteFailed, Transfer
<1>2. QueuePlain' /\ SessionsPlain'
  BY <1>1 DEF Plain, QueuePlain, SessionsPlain
<1>3. CASE Start(s)
  <2> USE <1>3 DEF Start
  <2>1. OwnPlain' /\ WritesPlain' /\ ListsPlain'
    BY DEF Plain, OwnPlain, WritesPlain, ListsPlain
  <2>2. StrandPlain'
    BY <1>1, ChatAssumption, Gives DEF Plain
  <2>3. QED
    BY <1>2, <2>1, <2>2 DEF Plain
<1>4. CASE ReadLine(s)
  <2> USE <1>4 DEF ReadLine
  <2>1. lines' \in 1..MaxLines
    BY ChatAssumption DEF Plain, OwnPlain
  <2>2. OwnPlain' /\ WritesPlain' /\ ListsPlain'
    BY <2>1 DEF Plain, OwnPlain, WritesPlain, ListsPlain
  <2>3. StrandPlain'
    BY <1>1, <2>1, Gives DEF Plain
  <2>4. QED
    BY <1>2, <2>2, <2>3 DEF Plain
<1>5. CASE Leave(s)
  <2> USE <1>5 DEF Leave
  <2>1. OwnPlain' /\ ListsPlain'
    BY DEF Plain, OwnPlain, ListsPlain
  <2>2. WritesPlain'
    BY ChatAssumption DEF Plain, WritesPlain, NoWrite, Fates
  <2>3. StrandPlain'
    BY <1>1, ChatAssumption, Gives DEF Plain
  <2>4. QED
    BY <1>2, <2>1, <2>2, <2>3 DEF Plain
<1>6. CASE WriteDone(s)
  <2> USE <1>6 DEF WriteDone
  <2>1. OwnPlain' /\ ListsPlain'
    BY DEF Plain, OwnPlain, ListsPlain
  <2>2. WritesPlain'
    BY ChatAssumption DEF Plain, WritesPlain, NoWrite, Fates
  <2>3. write[s].m \in 0..MaxLines /\ write[s].m # 0
    BY DEF Plain, WritesPlain
  <2>4. StrandPlain'
    BY <1>1, <2>3, Gives DEF Plain
  <2>5. QED
    BY <1>2, <2>1, <2>2, <2>4 DEF Plain
<1>7. CASE WriteFailed(s)
  <2> USE <1>7 DEF WriteFailed
  <2>1. OwnPlain' /\ ListsPlain' /\ StrandPlain'
    BY DEF Plain, OwnPlain, ListsPlain, StrandPlain
  <2>2. WritesPlain'
    BY ChatAssumption DEF Plain, WritesPlain, NoWrite, Fates
  <2>3. QED
    BY <1>2, <2>1, <2>2 DEF Plain
<1>8. ASSUME NEW fate \in {"done", "failed"}, Transfer(s, fate) PROVE Plain'
  <2> USE <1>8 DEF Transfer
  <2>1. OwnPlain' /\ StrandPlain'
    BY DEF Plain, OwnPlain, StrandPlain
  <2>2. write[s].m \in 1..MaxLines
    BY ChatAssumption DEF Plain, WritesPlain
  <2>3. WritesPlain'
    BY ChatAssumption DEF Plain, WritesPlain, Fates
  <2>4. ListsPlain'
    BY <2>2 DEF Plain, ListsPlain
  <2>5. QED
    BY <1>2, <2>1, <2>3, <2>4 DEF Plain
<1>9. QED
  BY <1>3, <1>4, <1>5, <1>6, <1>7, <1>8

LEMMA SessionsFinite ==
  /\ IsFiniteSet(Session)
  /\ \A S \in SUBSET Session : IsFiniteSet(S) /\ Cardinality(S) \in Nat /\ Cardinality(S) <= Sessions
<1>1. IsFiniteSet(Session) /\ Cardinality(Session) = Sessions
  BY ChatAssumption, FS_Interval DEF Session
<1>2. QED
  BY <1>1, FS_Subset, FS_CardinalityType

LEMMA NextLater ==
  ASSUME queue \in Seq(Entry), NEW s, NEW m, Queued(m), Later(s, m) # {},
         NEW j, j = CHOOSE i \in Later(s, m) : \A k \in Later(s, m) : i <= k
  PROVE  /\ j \in Later(s, m) /\ \A k \in Later(s, m) : j <= k
         /\ j \in DOMAIN queue /\ j > Index(m) /\ queue[j].sender # s
<1>1. Index(m) \in DOMAIN queue /\ Len(queue) \in Nat /\ DOMAIN queue = 1..Len(queue)
  BY IndexFound
<1>2. Later(s, m) \in SUBSET (1..Len(queue))
  BY <1>1 DEF Later
<1>3. \E i \in Later(s, m) : \A k \in Later(s, m) : i <= k
  BY <1>1, <1>2, LeastExists
<1>4. j \in Later(s, m) /\ \A k \in Later(s, m) : j <= k
  BY <1>3, Zenon
<1>5. \A i \in Later(s, m) : i \in DOMAIN queue /\ i > Index(m) /\ queue[i].sender # s
  BY <1>1 DEF Later
<1>6. QED
  BY <1>4, <1>5, Zenon

LEMMA AssignedPlain ==
  ASSUME SessionsPlain, NEW ss \in SUBSET Session, NEW m \in 0..MaxLines,
         sessions' = Assigned(ss, m)
  PROVE  SessionsPlain'
  BY DEF SessionsPlain, Assigned

LEMMA SendPlain ==
  ASSUME SessionsPlain, WritesPlain, NEW ss \in SUBSET Session, NEW m \in 1..MaxLines, Send(ss, m)
  PROVE  SessionsPlain' /\ WritesPlain'
<1>1. m \in 0..MaxLines /\ m # 0
  BY ChatAssumption
<1>2. SessionsPlain'
  BY <1>1, AssignedPlain DEF Send
<1>3. \A x \in Session : write'[x] = IF x \in ss THEN [m |-> m, fate |-> "pending"] ELSE write[x]
  BY DEF Send
<1>4. write' \in [Session -> [m : 0..MaxLines, fate : Fates]]
  BY <1>1 DEF Send, WritesPlain, Fates
<1>5. \A x \in Session : write'[x].fate # "none" => write'[x].m # 0
  BY <1>1, <1>3 DEF WritesPlain
<1>6. QED
  BY <1>2, <1>4, <1>5 DEF WritesPlain

LEMMA HeadPlain ==
  ASSUME StrandPlain, strand # << >>
  PROVE  /\ Head(strand) = strand[1] /\ 1 \in DOMAIN strand /\ Head(strand) \in Jobs
         /\ Head(strand).kind \in {"created", "destroyed", "message", "written"}
         /\ Head(strand).s \in Session /\ Head(strand).m \in 0..MaxLines
         /\ Head(strand).kind \in {"message", "written"} =>
              Head(strand).m \in 1..MaxLines
         /\ Head(strand).inside \in BOOLEAN
         /\ threads = 1 => Head(strand).inside
<1>1. Head(strand) = strand[1] /\ 1 \in DOMAIN strand /\ Head(strand) \in Jobs
  BY DEF StrandPlain
<1>2. \A j \in Jobs : /\ j.kind \in {"created", "destroyed", "message", "written"}
                      /\ j.s \in Session /\ j.m \in 0..MaxLines /\ j.inside \in BOOLEAN
  BY DEF Jobs
<1>3. QED
  BY <1>1, <1>2, ChatAssumption DEF StrandPlain

LEMMA CreatedPlain ==
  ASSUME Plain, NEW s \in Session, Created(s), UNCHANGED threads
  PROVE  QueuePlain' /\ SessionsPlain' /\ WritesPlain' /\ crashed' \in BOOLEAN /\ UNCHANGED due
<1> USE DEF Created
<1>1. SessionsPlain'
  BY AssignedPlain, ChatAssumption DEF Plain
<1>2. QED
  BY <1>1 DEF Plain, OwnPlain, QueuePlain, WritesPlain

LEMMA DestroyedPlain ==
  ASSUME Plain, NEW s \in Session, Destroyed(s), UNCHANGED threads
  PROVE  QueuePlain' /\ SessionsPlain' /\ WritesPlain' /\ crashed' \in BOOLEAN /\ UNCHANGED due
<1> USE DEF Destroyed
<1>1. SessionsPlain'
  BY DEF Plain, SessionsPlain
<1>2. WritesPlain' /\ UNCHANGED due /\ crashed' \in BOOLEAN
  BY DEF Plain, WritesPlain
<1>3. QueuePlain'
  <2>1. CASE queue' = queue
    BY <2>1 DEF Plain, QueuePlain
  <2>2. CASE queue' # queue
    <3>1. Queued(sessions[s]) /\ queue' = DropReceiver(sessions[s])
      BY <2>2
    <3>2. PICK c \in 1..Len(queue) + 1, f \in 1..Len(queue) + 1 : CutAt(queue', c, f)
      BY <3>1, DroppedAt DEF Plain, QueuePlain
    <3>3. queue' \in Seq(Entry) /\ Len(queue') <= MaxQueue
      BY <3>2, ChatAssumption DEF CutAt, Plain, QueuePlain
    <3>4. ASSUME threads = 1, NEW i \in DOMAIN queue' PROVE queue'[i].intact
      <4>1. i + c - 1 \in DOMAIN queue
        BY <3>2 DEF CutAt
      <4>2. queue[i + c - 1].intact /\ queue[i + c - 1] \in Entry
        BY <3>4, <4>1, EntryType DEF Plain, QueuePlain
      <4>3. \A e \in Entry : e.intact => Decremented(e).intact
        BY DEF Entry, Decremented
      <4>4. QED
        BY <3>2, <4>2, <4>3 DEF CutAt
    <3>5. QED
      BY <3>3, <3>4 DEF QueuePlain
  <2>3. QED
    BY <2>1, <2>2
<1>4. QED
  BY <1>1, <1>2, <1>3

LEMMA MessagePlain ==
  ASSUME Plain, NEW s \in Session, NEW m \in 1..MaxLines, NEW inside \in BOOLEAN,
         Message(s, m, inside), UNCHANGED <<threads, got>>, threads = 1 => inside
  PROVE  QueuePlain' /\ SessionsPlain' /\ WritesPlain' /\ crashed' \in BOOLEAN /\ ListsPlain'
<1>1. crashed' \in BOOLEAN
  BY DEF Message
<1>2. CASE ~Keeps
  BY <1>1, <1>2 DEF Message, Plain, QueuePlain, SessionsPlain, WritesPlain, ListsPlain
<1>3. CASE Keeps
  <2>1. PICK others, e, r :
          /\ others = DOMAIN sessions \ {s}
          /\ r = Dec(Cardinality(DOMAIN sessions))
          /\ e = [m |-> m, sender |-> s, intact |-> inside, rem |-> r]
          /\ queue' = Append(queue, e)
          /\ due' = [x \in Session |-> IF x \in others THEN Append(due[x], m) ELSE due[x]]
          /\ Send({x \in others : sessions[x] = 0}, m)
    BY <1>3 DEF Message
  <2>2. SessionsPlain' /\ WritesPlain'
    BY <2>1, SendPlain DEF Plain, SessionsPlain
  <2>3. e \in Entry /\ (threads = 1 => e.intact)
    <3>1. Cardinality(DOMAIN sessions) \in Nat
      BY SessionsFinite DEF Plain, SessionsPlain
    <3>2. r \in 0..(Wide - 1)
      BY <2>1, <3>1, DecType
    <3>3. QED
      BY <2>1, <3>2 DEF Entry
  <2>4. QueuePlain'
    BY <1>3, <2>1, <2>3, ChatAssumption DEF Plain, QueuePlain, Keeps
  <2>5. ListsPlain'
    <3>1. \A x \in Session : due[x] \in Seq(1..MaxLines) /\ Append(due[x], m) \in Seq(1..MaxLines)
      BY DEF Plain, ListsPlain
    <3>2. due' \in [Session -> Seq(1..MaxLines)]
      BY <2>1, <3>1
    <3>3. QED
      BY <3>2 DEF Plain, ListsPlain
  <2>6. QED
    BY <1>1, <2>2, <2>4, <2>5
<1>4. QED
  BY <1>2, <1>3

LEMMA WrittenPlain ==
  ASSUME Plain, NEW s \in Session, NEW m \in 1..MaxLines, Written(s, m), UNCHANGED threads
  PROVE  QueuePlain' /\ SessionsPlain' /\ WritesPlain' /\ crashed' \in BOOLEAN /\ UNCHANGED due
<1>1. CASE ~Queued(m)
  BY <1>1 DEF Written, Plain, QueuePlain, SessionsPlain, WritesPlain
<1>2. CASE Queued(m)
  <2>1. PICK i, less :
          /\ i = Index(m) /\ less = [queue EXCEPT ![i] = Decremented(@)]
          /\ queue' = IF less[i].rem = 0 THEN RemoveAt(queue, i) ELSE less
    BY <1>2 DEF Written
  <2>2. i \in DOMAIN queue /\ queue \in Seq(Entry) /\ Len(queue) \in Nat
    BY <1>2, <2>1, IndexFound DEF Plain, QueuePlain
  <2>3. QueuePlain'
    <3>1. CASE queue' = less
      <4>1. /\ less \in Seq(Entry) /\ Len(less) = Len(queue)
            /\ less[i] = Decremented(queue[i])
            /\ \A k \in DOMAIN queue : k # i => less[k] = queue[k]
        BY <2>1, <2>2, EntryLess
      <4>2. DOMAIN less = DOMAIN queue
        BY <2>2, <4>1
      <4>3. \A e \in Entry : e.intact => Decremented(e).intact
        BY DEF Entry, Decremented
      <4>4. threads = 1 => \A k \in DOMAIN queue : less[k].intact
        BY <2>2, <4>1, <4>3, EntryType DEF Plain, QueuePlain
      <4>5. QED
        BY <3>1, <4>1, <4>2, <4>4 DEF Plain, QueuePlain
    <3>2. CASE queue' = RemoveAt(queue, i)
      <4>1. /\ queue' \in Seq(Entry) /\ Len(queue') = Len(queue) - 1
            /\ \A k \in 1..Len(queue) - 1 :
                 queue'[k] = IF k < i THEN queue[k] ELSE queue[k + 1]
        BY <2>2, <3>2, EntryRemoved
      <4>2. \A k \in DOMAIN queue' : k \in DOMAIN queue /\ k + 1 \in DOMAIN queue
        BY <2>2, <4>1
      <4>3. threads = 1 => \A k \in DOMAIN queue' : queue'[k].intact
        BY <2>2, <4>1, <4>2 DEF Plain, QueuePlain
      <4>4. Len(queue') <= MaxQueue
        BY <2>2, <4>1, ChatAssumption DEF Plain, QueuePlain
      <4>5. QED
        BY <4>1, <4>3, <4>4 DEF QueuePlain
    <3>3. QED
      BY <2>1, <3>1, <3>2
  <2>4. crashed' \in BOOLEAN /\ UNCHANGED due
    BY <1>2 DEF Written
  <2>5. SessionsPlain' /\ WritesPlain'
    <3>1. CASE Later(s, m) = {}
      <4>1. sessions' = Assigned({s}, 0) /\ UNCHANGED write
        BY <1>2, <3>1 DEF Written
      <4>2. SessionsPlain'
        BY <4>1, AssignedPlain, ChatAssumption DEF Plain
      <4>3. QED
        BY <4>1, <4>2 DEF Plain, WritesPlain
    <3>2. CASE Later(s, m) # {}
      <4>1. PICK j : /\ j = CHOOSE first \in Later(s, m) : \A k \in Later(s, m) : first <= k
                     /\ Send({s}, queue[j].m)
        BY <1>2, <3>2 DEF Written
      <4>2. j \in DOMAIN queue
        BY <1>2, <3>2, <4>1, NextLater DEF Plain, QueuePlain
      <4>3. queue[j].m \in 1..MaxLines
        BY <2>2, <4>2, EntryType
      <4>4. QED
        BY <4>1, <4>3, SendPlain DEF Plain
    <3>3. QED
      BY <3>1, <3>2
  <2>6. QED
    BY <2>3, <2>4, <2>5
<1>3. QED
  BY <1>1, <1>2

LEMMA PlainRunJob ==
  ASSUME Plain, RunJob
  PROVE  Plain'
<1>1. StrandPlain'
  <2>1. /\ strand' \in Seq(Jobs) /\ Len(strand') = Len(strand) - 1
        /\ \A k \in DOMAIN strand' : k + 1 \in DOMAIN strand /\ strand'[k] = strand[k + 1]
    BY Popped DEF RunJob, Plain, StrandPlain
  <2>2. QED
    BY <2>1 DEF RunJob, Plain, StrandPlain
<1>2. PICK j : j = Head(strand)
  OBVIOUS
<1>3. /\ j.kind \in {"created", "destroyed", "message", "written"}
      /\ j.s \in Session /\ j.inside \in BOOLEAN /\ (threads = 1 => j.inside)
      /\ j.kind \in {"message", "written"} => j.m \in 1..MaxLines
  BY <1>2, HeadPlain DEF RunJob, Plain
<1>4. UNCHANGED <<threads, life, orderly, lines, got>>
  BY DEF RunJob
<1>5. QueuePlain' /\ SessionsPlain' /\ WritesPlain' /\ crashed' \in BOOLEAN /\ ListsPlain'
  <2>1. CASE j.kind = "created"
    <3>1. Created(j.s)
      BY <1>2, <2>1 DEF RunJob
    <3>2. QED
      BY <1>3, <1>4, <3>1, CreatedPlain DEF Plain, ListsPlain
  <2>2. CASE j.kind = "destroyed"
    <3>1. Destroyed(j.s)
      BY <1>2, <2>2 DEF RunJob
    <3>2. QED
      BY <1>3, <1>4, <3>1, DestroyedPlain DEF Plain, ListsPlain
  <2>3. CASE j.kind = "message"
    <3>1. Message(j.s, j.m, j.inside)
      BY <1>2, <2>3 DEF RunJob
    <3>2. QED
      BY <1>3, <1>4, <2>3, <3>1, MessagePlain
  <2>4. CASE j.kind = "written"
    <3>1. Written(j.s, j.m)
      BY <1>2, <2>4 DEF RunJob
    <3>2. QED
      BY <1>3, <1>4, <2>4, <3>1, WrittenPlain DEF Plain, ListsPlain
  <2>5. QED
    BY <1>3, <2>1, <2>2, <2>3, <2>4
<1>6. OwnPlain'
  BY <1>4, <1>5 DEF Plain, OwnPlain
<1>7. QED
  BY <1>1, <1>5, <1>6 DEF Plain

-----------------------------------------------------------------------------
(* What holds of orderly histories. *)

LEMMA RightInit == Init => Right
<1> SUFFICES ASSUME Init PROVE Right
  OBVIOUS
<1>1. /\ ~crashed /\ DOMAIN sessions = {} /\ DOMAIN queue = {} /\ DOMAIN strand = {}
      /\ \A s \in Session : /\ life[s] = "new" /\ write[s].fate = "none"
                            /\ due[s] = << >> /\ got[s] = << >>
  BY DEF Init, NoWrite
<1> HIDE DEF Init
<1>2. IdsRight
  BY <1>1 DEF IdsRight
<1>3. MembersRight
  BY <1>1 DEF MembersRight, Present
<1>4. JobsRight
  BY <1>1 DEF JobsRight
<1>5. WritesRight /\ PointersRight /\ CountsRight /\ DeliveryRight
  BY <1>1 DEF WritesRight, PointersRight, CountsRight, DeliveryRight
<1>6. QED
  BY <1>1, <1>2, <1>3, <1>4, <1>5 DEF Right

(* A function given to the strand comes after the others. *)
Added(n, kind, s, m) ==
  /\ n \in Nat /\ n = Len(strand) + 1 /\ n \notin DOMAIN strand
  /\ DOMAIN strand' = DOMAIN strand \cup {n}
  /\ \A k \in DOMAIN strand : k \in Nat /\ k < n /\ strand'[k] = strand[k]
  /\ strand'[n].kind = kind /\ strand'[n].s = s /\ strand'[n].m = m

LEMMA Adds ==
  ASSUME StrandPlain, NEW kind \in {"created", "destroyed", "message", "written"},
         NEW s \in Session, NEW m \in 0..MaxLines, Execute(kind, s, m)
  PROVE  \E n : Added(n, kind, s, m)
<1>1. /\ Len(strand') = Len(strand) + 1 /\ strand' \in Seq(Jobs)
      /\ \A k \in DOMAIN strand : k \in DOMAIN strand' /\ strand'[k] = strand[k]
      /\ strand'[Len(strand')] = [kind |-> kind, s |-> s, m |-> m, inside |-> strand = << >>]
  BY Given DEF StrandPlain
<1>2. /\ strand'[Len(strand')].kind = kind /\ strand'[Len(strand')].s = s
      /\ strand'[Len(strand')].m = m
  BY <1>1
<1>3. /\ DOMAIN strand = 1..Len(strand) /\ DOMAIN strand' = 1..Len(strand')
      /\ Len(strand) \in Nat
  BY <1>1 DEF StrandPlain
<1>4. Added(Len(strand) + 1, kind, s, m)
  BY <1>1, <1>2, <1>3 DEF Added
<1>5. QED
  BY <1>4, Zenon

LEMMA JobTypes ==
  ASSUME StrandPlain, NEW k \in DOMAIN strand
  PROVE  /\ strand[k].kind \in {"created", "destroyed", "message", "written"}
         /\ strand[k].s \in Session /\ strand[k].m \in Nat /\ k \in Nat
<1>1. \A j \in Jobs : /\ j.kind \in {"created", "destroyed", "message", "written"}
                      /\ j.s \in Session /\ j.m \in Nat
  BY ChatAssumption DEF Jobs
<1>2. strand[k] \in Jobs /\ k \in Nat
  BY DEF StrandPlain
<1>3. QED
  BY <1>1, <1>2

LEMMA ListTypes ==
  ASSUME ListsPlain, NEW x \in Session
  PROVE  /\ due[x] \in Seq(1..MaxLines) /\ Len(due[x]) \in Nat /\ DOMAIN due[x] = 1..Len(due[x])
         /\ \A i \in DOMAIN due[x] : due[x][i] \in Nat \ {0} /\ i \in Nat
         /\ got[x] \in Seq(1..MaxLines) /\ Len(got[x]) \in Nat /\ DOMAIN got[x] = 1..Len(got[x])
         /\ \A i \in DOMAIN got[x] : got[x][i] \in Nat \ {0} /\ i \in Nat
<1>1. due[x] \in Seq(1..MaxLines) /\ got[x] \in Seq(1..MaxLines)
  BY DEF ListsPlain
<1>2. ASSUME NEW q \in Seq(1..MaxLines)
      PROVE  /\ Len(q) \in Nat /\ DOMAIN q = 1..Len(q)
             /\ \A i \in DOMAIN q : q[i] \in Nat \ {0} /\ i \in Nat
  BY ChatAssumption
<1>3. QED
  BY <1>1, <1>2

(* The numbers in the queue are distinct. *)
LEMMA IndexIs ==
  ASSUME queue \in Seq(Entry), Right, NEW m, NEW p \in DOMAIN queue, queue[p].m = m
  PROVE  Index(m) = p /\ Queued(m)
<1>1. Queued(m)
  BY DEF Queued
<1>2. Index(m) \in DOMAIN queue /\ queue[Index(m)].m = m
  BY <1>1, IndexFound
<1>3. \A i \in DOMAIN queue : i \in Nat /\ queue[i].m \in Nat
  BY EntryType
<1>4. ~(Index(m) < p) /\ ~(p < Index(m))
  BY <1>2, <1>3 DEF Right, IdsRight
<1>5. QED
  BY <1>1, <1>2, <1>3, <1>4

LEMMA StartRight ==
  ASSUME Plain, Right, NEW s \in Session, Start(s)
  PROVE  Right'
<1>1. /\ UNCHANGED <<threads, sessions, queue, write, crashed, orderly, lines, due, got>>
      /\ life[s] = "new" /\ life' = [life EXCEPT ![s] = "live"]
      /\ Execute("created", s, 0)
  BY DEF Start
<1>2. PICK n : Added(n, "created", s, 0)
  <2>1. 0 \in 0..MaxLines
    BY ChatAssumption
  <2>2. QED
    BY <1>1, <2>1, Adds DEF Plain
<1>3. /\ n \in Nat /\ n \notin DOMAIN strand /\ DOMAIN strand' = DOMAIN strand \cup {n}
      /\ \A k \in DOMAIN strand : k \in Nat /\ k < n /\ strand'[k] = strand[k]
      /\ strand'[n].kind = "created" /\ strand'[n].s = s
  BY <1>2 DEF Added
<1>4. /\ life'[s] = "live" /\ \A x \in Session : x # s => life'[x] = life[x]
  BY <1>1 DEF Plain, OwnPlain
<1>5. /\ \A k \in DOMAIN strand : strand[k].s # s
      /\ s \notin DOMAIN sessions /\ write[s].fate = "none"
  <2>1. ASSUME NEW k \in DOMAIN strand, strand[k].s = s PROVE FALSE
    <3>1. strand[k].kind \in {"created", "destroyed", "message", "written"}
      BY JobTypes DEF Plain
    <3>2. QED
      BY <1>1, <2>1, <3>1 DEF Right, JobsRight, Job, CreatedRight, MessageRight, WrittenRight,
                              DestroyedRight, Present
  <2>2. QED
    BY <1>1, <2>1 DEF Right, MembersRight, WritesRight, Present
<1>6. IdsRight'
  BY <1>1, <1>3 DEF Right, IdsRight
<1>7. MembersRight'
  <2>1. \A x \in DOMAIN sessions' :
          Present(x)' \/ (life'[x] = "dead" /\ \E k \in DOMAIN strand' : Job(k, "destroyed", x)')
    BY <1>1, <1>3, <1>4, <1>5 DEF Right, MembersRight, Present, Job, Plain, SessionsPlain
  <2>2. \A x \in Session : Present(x)' /\ x \notin DOMAIN sessions' =>
          \E k \in DOMAIN strand' : Job(k, "created", x)'
    BY <1>1, <1>3, <1>4, <1>5 DEF Right, MembersRight, Present, Job
  <2>3. \A x \in Session : life'[x] # "dead" /\ x \notin DOMAIN sessions' =>
          due'[x] = << >> /\ got'[x] = << >>
    BY <1>1, <1>4 DEF Right, MembersRight
  <2>4. QED
    BY <2>1, <2>2, <2>3 DEF MembersRight
<1>8. JobsRight'
  <2>1. SUFFICES ASSUME NEW k \in DOMAIN strand', NEW x \in Session
                 PROVE  /\ Job(k, "created", x)' => CreatedRight(k, x)'
                        /\ Job(k, "message", x)' => MessageRight(k, x)'
                        /\ Job(k, "written", x)' => WrittenRight(k, x)'
                        /\ Job(k, "destroyed", x)' => DestroyedRight(k, x)'
    BY DEF JobsRight
  <2>2. CASE k = n
    BY <1>1, <1>3, <1>4, <1>5, <2>2 DEF Job, CreatedRight, Present
  <2>3. CASE k # n
    <3>1. k \in DOMAIN strand /\ strand'[k] = strand[k]
      BY <1>3, <2>3
    <3>2. Job(k, "created", x)' => CreatedRight(k, x)'
      BY <1>1, <1>3, <1>4, <1>5, <3>1 DEF Right, JobsRight, Job, CreatedRight, Present
    <3>3. Job(k, "message", x)' => MessageRight(k, x)'
      BY <1>1, <1>3, <1>4, <1>5, <3>1 DEF Right, JobsRight, Job, MessageRight, Present
    <3>4. Job(k, "written", x)' => WrittenRight(k, x)'
      BY <1>1, <1>3, <1>4, <1>5, <3>1 DEF Right, JobsRight, Job, WrittenRight, Present
    <3>5. Job(k, "destroyed", x)' => DestroyedRight(k, x)'
      BY <1>1, <1>3, <1>4, <1>5, <3>1 DEF Right, JobsRight, Job, DestroyedRight, LetsGo
    <3>6. QED
      BY <3>2, <3>3, <3>4, <3>5
  <2>4. QED
    BY <2>2, <2>3
<1>9. WritesRight'
  BY <1>1, <1>3, <1>4, <1>5 DEF Right, WritesRight, Job, Present
<1>10. PointersRight' /\ CountsRight'
  BY <1>1 DEF Right, PointersRight, CountsRight, Waiting
<1>11. DeliveryRight'
  <2>1. \A x \in Session : Sent(x)' <=> Sent(x)
    BY <1>1, <1>3 DEF Sent, Job
  <2>2. \A x \in DOMAIN sessions : Place(x)' = Place(x) /\ Rest(x)' = Rest(x)
    BY <1>1, <2>1 DEF Place, Rest, Plain, SessionsPlain
  <2>3. QED
    BY <1>1, <2>2 DEF Right, DeliveryRight, Delivered
<1>12. QED
  BY <1>1, <1>6, <1>7, <1>8, <1>9, <1>10, <1>11 DEF Right

LEMMA ReadLineRight ==
  ASSUME Plain, Right, NEW s \in Session, ReadLine(s)
  PROVE  Right'
<1>1. /\ UNCHANGED <<threads, life, sessions, queue, write, crashed, orderly, due, got>>
      /\ life[s] = "live" /\ lines' = lines + 1 /\ lines' \in 0..MaxLines
      /\ lines \in Nat /\ Execute("message", s, lines')
  BY ChatAssumption DEF ReadLine, Plain, OwnPlain
<1>2. PICK n : Added(n, "message", s, lines')
  BY <1>1, Adds DEF Plain
<1>3. /\ n \in Nat /\ n \notin DOMAIN strand /\ DOMAIN strand' = DOMAIN strand \cup {n}
      /\ \A k \in DOMAIN strand : k \in Nat /\ k < n /\ strand'[k] = strand[k]
      /\ strand'[n].kind = "message" /\ strand'[n].s = s /\ strand'[n].m = lines + 1
  BY <1>1, <1>2 DEF Added
<1>4. IdsRight'
  <2>1. \A i \in DOMAIN queue : queue[i].m \in Nat /\ queue[i].m <= lines
    BY EntryType DEF Plain, QueuePlain, Right, IdsRight
  <2>2. \A x \in Session : \A i \in DOMAIN due[x] : due[x][i] \in Nat /\ due[x][i] <= lines
    BY ListTypes DEF Right, IdsRight, Plain
  <2>3. \A k \in DOMAIN strand : strand[k].m \in Nat
    BY JobTypes DEF Plain
  <2>4. ASSUME NEW k \in DOMAIN strand', strand'[k].kind = "message"
        PROVE  /\ strand'[k].m <= lines'
               /\ \A i \in DOMAIN queue' : queue'[i].m < strand'[k].m
               /\ \A x \in Session : \A i \in DOMAIN due'[x] : due'[x][i] < strand'[k].m
               /\ \A l \in DOMAIN strand' : l < k /\ strand'[l].kind = "message" =>
                    strand'[l].m < strand'[k].m
    <3>1. CASE k = n
      <4>1. \A l \in DOMAIN strand : strand[l].kind = "message" => strand[l].m <= lines
        BY DEF Right, IdsRight
      <4>2. QED
        BY <1>1, <1>3, <2>1, <2>2, <2>3, <3>1, <4>1
    <3>2. CASE k # n
      <4>1. k \in DOMAIN strand /\ strand'[k] = strand[k] /\ strand[k].m <= lines
        BY <1>3, <2>4, <3>2 DEF Right, IdsRight
      <4>2. \A l \in DOMAIN strand' : l < k => l \in DOMAIN strand /\ strand'[l] = strand[l]
        BY <1>3, <4>1
      <4>3. QED
        BY <1>1, <2>3, <2>4, <4>1, <4>2 DEF Right, IdsRight
    <3>3. QED
      BY <3>1, <3>2
  <2>5. QED
    BY <1>1, <2>1, <2>2, <2>4 DEF Right, IdsRight
<1>5. MembersRight'
  <2>1. \A x \in DOMAIN sessions' :
          Present(x)' \/ (life'[x] = "dead" /\ \E k \in DOMAIN strand' : Job(k, "destroyed", x)')
    BY <1>1, <1>3 DEF Right, MembersRight, Present, Job
  <2>2. \A x \in Session : Present(x)' /\ x \notin DOMAIN sessions' =>
          \E k \in DOMAIN strand' : Job(k, "created", x)'
    BY <1>1, <1>3 DEF Right, MembersRight, Present, Job
  <2>3. QED
    BY <1>1, <2>1, <2>2 DEF Right, MembersRight
<1>6. JobsRight'
  <2>1. SUFFICES ASSUME NEW k \in DOMAIN strand', NEW x \in Session
                 PROVE  /\ Job(k, "created", x)' => CreatedRight(k, x)'
                        /\ Job(k, "message", x)' => MessageRight(k, x)'
                        /\ Job(k, "written", x)' => WrittenRight(k, x)'
                        /\ Job(k, "destroyed", x)' => DestroyedRight(k, x)'
    BY DEF JobsRight
  <2>2. CASE k = n
    <3>1. s \in DOMAIN sessions \/ \E l \in DOMAIN strand : Job(l, "created", s)
      BY <1>1 DEF Right, MembersRight, Present
    <3>2. QED
      BY <1>1, <1>3, <2>2, <3>1 DEF Job, MessageRight, Present
  <2>3. CASE k # n
    <3>1. k \in DOMAIN strand /\ strand'[k] = strand[k]
      BY <1>3, <2>3
    <3>2. Job(k, "created", x)' => CreatedRight(k, x)'
      BY <1>1, <1>3, <3>1 DEF Right, JobsRight, Job, CreatedRight, Present
    <3>3. Job(k, "message", x)' => MessageRight(k, x)'
      BY <1>1, <1>3, <3>1 DEF Right, JobsRight, Job, MessageRight, Present
    <3>4. Job(k, "written", x)' => WrittenRight(k, x)'
      BY <1>1, <1>3, <3>1 DEF Right, JobsRight, Job, WrittenRight, Present
    <3>5. Job(k, "destroyed", x)' => DestroyedRight(k, x)'
      BY <1>1, <1>3, <3>1 DEF Right, JobsRight, Job, DestroyedRight, LetsGo
    <3>6. QED
      BY <3>2, <3>3, <3>4, <3>5
  <2>4. QED
    BY <2>2, <2>3
<1>7. WritesRight'
  BY <1>1, <1>3 DEF Right, WritesRight, Job, Present
<1>8. PointersRight' /\ CountsRight'
  BY <1>1 DEF Right, PointersRight, CountsRight, Waiting
<1>9. DeliveryRight'
  <2>1. \A x \in Session : Sent(x)' <=> Sent(x)
    BY <1>1, <1>3 DEF Sent, Job
  <2>2. \A x \in DOMAIN sessions : Place(x)' = Place(x) /\ Rest(x)' = Rest(x)
    BY <1>1, <2>1 DEF Place, Rest, Plain, SessionsPlain
  <2>3. QED
    BY <1>1, <2>2 DEF Right, DeliveryRight, Delivered
<1>10. QED
  BY <1>1, <1>4, <1>5, <1>6, <1>7, <1>8, <1>9 DEF Right

LEMMA LeaveRight ==
  ASSUME Plain, Right, NEW s \in Session, Leave(s), Harmless(s)
  PROVE  Right'
<1>1. /\ UNCHANGED <<threads, sessions, queue, crashed, lines, due, got>>
      /\ life[s] \in {"live", "closed"} /\ life' = [life EXCEPT ![s] = "dead"]
      /\ write' = [write EXCEPT ![s] = IF @.fate = "pending" THEN NoWrite ELSE @]
      /\ Execute("destroyed", s, 0) /\ strand = << >>
      /\ write[s].fate \in {"none", "pending"}
  BY DEF Leave, Harmless
<1>2. PICK n : Added(n, "destroyed", s, 0)
  <2>1. 0 \in 0..MaxLines
    BY ChatAssumption
  <2>2. QED
    BY <1>1, <2>1, Adds DEF Plain
<1>3. /\ n = 1 /\ DOMAIN strand = {} /\ DOMAIN strand' = {1}
      /\ strand'[1].kind = "destroyed" /\ strand'[1].s = s
  BY <1>1, <1>2 DEF Added
<1>4. /\ life'[s] = "dead" /\ \A x \in Session : x # s => life'[x] = life[x]
      /\ write'[s].fate = "none" /\ \A x \in Session : x # s => write'[x] = write[x]
  BY <1>1 DEF Plain, OwnPlain, WritesPlain, NoWrite
<1>5. s \in DOMAIN sessions
  BY <1>1, <1>3 DEF Right, MembersRight, Present
<1>6. IdsRight'
  BY <1>1, <1>3 DEF Right, IdsRight
<1>7. MembersRight'
  <2>1. \A x \in DOMAIN sessions' :
          Present(x)' \/ (life'[x] = "dead" /\ \E k \in DOMAIN strand' : Job(k, "destroyed", x)')
    BY <1>1, <1>3, <1>4 DEF Right, MembersRight, Present, Job, Plain, SessionsPlain
  <2>2. \A x \in Session : Present(x)' /\ x \notin DOMAIN sessions' =>
          \E k \in DOMAIN strand' : Job(k, "created", x)'
    BY <1>1, <1>3, <1>4 DEF Right, MembersRight, Present
  <2>3. \A x \in Session : life'[x] # "dead" /\ x \notin DOMAIN sessions' =>
          due'[x] = << >> /\ got'[x] = << >>
    BY <1>1, <1>4 DEF Right, MembersRight
  <2>4. QED
    BY <2>1, <2>2, <2>3 DEF MembersRight
<1>8. JobsRight'
  <2>1. LetsGo(s)'
    <3>1. SUFFICES ASSUME sessions[s] # 0, NEW p \in DOMAIN queue, queue[p].m = sessions[s],
                          NEW i \in p..Len(queue)
                   PROVE  /\ queue[i].sender # s
                          /\ queue[i].rem > 1 \/ (p = 1 /\ \A j \in 1..i : queue[j].rem = 1)
      BY <1>1 DEF LetsGo
    <3>2. Queued(sessions[s]) /\ Pending(s)
      BY <1>5, <3>1 DEF Queued, Pending
    <3>3. Index(sessions[s]) = p
      BY <3>1, <3>2, IndexIs DEF Right, Plain, QueuePlain
    <3>4. QED
      BY <3>1, <3>2, <3>3 DEF Harmless
  <2>2. QED
    BY <1>1, <1>3, <1>4, <1>5, <2>1 DEF JobsRight, Job, DestroyedRight
<1>9. WritesRight'
  BY <1>1, <1>3, <1>4 DEF Right, WritesRight, Job, Present
<1>10. PointersRight' /\ CountsRight'
  BY <1>1 DEF Right, PointersRight, CountsRight, Waiting
<1>11. DeliveryRight'
  <2>1. \A x \in Session : Sent(x)' <=> Sent(x)
    BY <1>1, <1>3, <1>4 DEF Sent, Job
  <2>2. \A x \in DOMAIN sessions : Place(x)' = Place(x) /\ Rest(x)' = Rest(x)
    BY <1>1, <2>1 DEF Place, Rest, Plain, SessionsPlain
  <2>3. QED
    BY <1>1, <2>2 DEF Right, DeliveryRight, Delivered
<1>12. QED
  BY <1>1, <1>6, <1>7, <1>8, <1>9, <1>10, <1>11 DEF Right

LEMMA WriteDoneRight ==
  ASSUME Plain, Right, NEW s \in Session, WriteDone(s)
  PROVE  Right'
<1>1. /\ UNCHANGED <<threads, life, sessions, queue, crashed, orderly, lines, due, got>>
      /\ write[s].fate = "done" /\ write' = [write EXCEPT ![s] = NoWrite]
      /\ Execute("written", s, write[s].m)
  BY DEF WriteDone
<1>2. PICK n : Added(n, "written", s, write[s].m)
  <2>1. write[s].m \in 0..MaxLines
    BY DEF Plain, WritesPlain
  <2>2. QED
    BY <1>1, <2>1, Adds DEF Plain
<1>3. /\ n \in Nat /\ n \notin DOMAIN strand /\ DOMAIN strand' = DOMAIN strand \cup {n}
      /\ \A k \in DOMAIN strand : k \in Nat /\ k < n /\ strand'[k] = strand[k]
      /\ strand'[n].kind = "written" /\ strand'[n].s = s /\ strand'[n].m = write[s].m
  BY <1>2 DEF Added
<1>4. /\ write'[s].fate = "none" /\ \A x \in Session : x # s => write'[x] = write[x]
      /\ \A x \in Session : write[x].fate = "none" => write'[x].fate = "none"
  BY <1>1 DEF Plain, WritesPlain, NoWrite
<1>5. /\ Present(s) /\ s \in DOMAIN sessions /\ sessions[s] = write[s].m
      /\ \A k \in DOMAIN strand : ~Job(k, "written", s)
  BY <1>1 DEF Right, WritesRight
<1>6. IdsRight'
  BY <1>1, <1>3 DEF Right, IdsRight
<1>7. MembersRight'
  <2>1. \A x \in DOMAIN sessions' :
          Present(x)' \/ (life'[x] = "dead" /\ \E k \in DOMAIN strand' : Job(k, "destroyed", x)')
    BY <1>1, <1>3 DEF Right, MembersRight, Present, Job
  <2>2. \A x \in Session : Present(x)' /\ x \notin DOMAIN sessions' =>
          \E k \in DOMAIN strand' : Job(k, "created", x)'
    BY <1>1, <1>3 DEF Right, MembersRight, Present, Job
  <2>3. QED
    BY <1>1, <2>1, <2>2 DEF Right, MembersRight
<1>8. JobsRight'
  <2>1. SUFFICES ASSUME NEW k \in DOMAIN strand', NEW x \in Session
                 PROVE  /\ Job(k, "created", x)' => CreatedRight(k, x)'
                        /\ Job(k, "message", x)' => MessageRight(k, x)'
                        /\ Job(k, "written", x)' => WrittenRight(k, x)'
                        /\ Job(k, "destroyed", x)' => DestroyedRight(k, x)'
    BY DEF JobsRight
  <2>2. CASE k = n
    BY <1>1, <1>3, <1>4, <1>5, <2>2 DEF Job, WrittenRight, Present
  <2>3. CASE k # n
    <3>1. k \in DOMAIN strand /\ strand'[k] = strand[k]
      BY <1>3, <2>3
    <3>2. Job(k, "created", x)' => CreatedRight(k, x)'
      BY <1>1, <1>3, <3>1 DEF Right, JobsRight, Job, CreatedRight, Present
    <3>3. Job(k, "message", x)' => MessageRight(k, x)'
      BY <1>1, <1>3, <3>1 DEF Right, JobsRight, Job, MessageRight, Present
    <3>4. Job(k, "written", x)' => WrittenRight(k, x)'
      BY <1>1, <1>3, <1>4, <1>5, <3>1 DEF Right, JobsRight, Job, WrittenRight, Present
    <3>5. Job(k, "destroyed", x)' => DestroyedRight(k, x)'
      BY <1>1, <1>3, <1>4, <3>1 DEF Right, JobsRight, Job, DestroyedRight, LetsGo
    <3>6. QED
      BY <3>2, <3>3, <3>4, <3>5
  <2>4. QED
    BY <2>2, <2>3
<1>9. WritesRight'
  BY <1>1, <1>3, <1>4 DEF Right, WritesRight, Job, Present
<1>10. PointersRight' /\ CountsRight'
  BY <1>1 DEF Right, PointersRight, CountsRight, Waiting
<1>11. DeliveryRight'
  <2>1. \A x \in Session : Sent(x)' <=> Sent(x)
    <3>1. Sent(s) /\ Sent(s)'
      BY <1>1, <1>3 DEF Sent, Job
    <3>2. \A x \in Session : x # s => (Sent(x)' <=> Sent(x))
      BY <1>1, <1>3, <1>4 DEF Sent, Job
    <3>3. QED
      BY <3>1, <3>2
  <2>2. \A x \in DOMAIN sessions : Place(x)' = Place(x) /\ Rest(x)' = Rest(x)
    BY <1>1, <2>1 DEF Place, Rest, Plain, SessionsPlain
  <2>3. QED
    BY <1>1, <2>2 DEF Right, DeliveryRight, Delivered
<1>12. QED
  BY <1>1, <1>6, <1>7, <1>8, <1>9, <1>10, <1>11 DEF Right

LEMMA WriteFailedRight ==
  ASSUME Plain, Right, NEW s \in Session, WriteFailed(s)
  PROVE  Right'
<1>1. /\ UNCHANGED <<threads, sessions, queue, strand, orderly, lines, due, got>>
      /\ write[s].fate = "failed" /\ write' = [write EXCEPT ![s] = NoWrite]
      /\ life' = IF life[s] = "live" THEN [life EXCEPT ![s] = "closed"] ELSE life
      /\ crashed' = (life[s] = "dead")
  BY DEF WriteFailed
<1>2. /\ write'[s].fate = "none" /\ \A x \in Session : x # s => write'[x] = write[x]
      /\ \A x \in Session : write[x].fate = "none" => write'[x].fate = "none"
  BY <1>1 DEF Plain, WritesPlain, NoWrite
<1>3. ~crashed' /\ Present(s)
  BY <1>1 DEF Right, WritesRight, Present
<1>4. \A x \in Session : /\ life'[x] \in {"live", "closed"} <=> life[x] \in {"live", "closed"}
                         /\ life'[x] = "dead" <=> life[x] = "dead"
  BY <1>1, <1>3 DEF Present, Plain, OwnPlain
<1>5. IdsRight'
  BY <1>1 DEF Right, IdsRight
<1>6. MembersRight'
  BY <1>1, <1>4 DEF Right, MembersRight, Job, Present, Plain, SessionsPlain
<1>7. JobsRight'
  <2>1. SUFFICES ASSUME NEW k \in DOMAIN strand, NEW x \in Session
                 PROVE  /\ Job(k, "created", x)' => CreatedRight(k, x)'
                        /\ Job(k, "message", x)' => MessageRight(k, x)'
                        /\ Job(k, "written", x)' => WrittenRight(k, x)'
                        /\ Job(k, "destroyed", x)' => DestroyedRight(k, x)'
    BY <1>1 DEF JobsRight
  <2>2. Job(k, "created", x)' => CreatedRight(k, x)'
    BY <1>1, <1>4 DEF Right, JobsRight, Job, CreatedRight, Present
  <2>3. Job(k, "message", x)' => MessageRight(k, x)'
    BY <1>1, <1>4 DEF Right, JobsRight, Job, MessageRight, Present
  <2>4. Job(k, "written", x)' => WrittenRight(k, x)'
    BY <1>1, <1>2, <1>4 DEF Right, JobsRight, Job, WrittenRight, Present
  <2>5. Job(k, "destroyed", x)' => DestroyedRight(k, x)'
    BY <1>1, <1>2, <1>4 DEF Right, JobsRight, Job, DestroyedRight, LetsGo
  <2>6. QED
    BY <2>2, <2>3, <2>4, <2>5
<1>8. WritesRight'
  BY <1>1, <1>2, <1>4 DEF Right, WritesRight, Job, Present
<1>9. PointersRight' /\ CountsRight'
  BY <1>1 DEF Right, PointersRight, CountsRight, Waiting
<1>10. DeliveryRight'
  <2>1. \A x \in Session : Sent(x)' <=> Sent(x)
    <3>1. (write'[s].fate = "done" <=> write[s].fate = "done")
      BY <1>1, <1>2
    <3>2. \A x \in Session : write'[x].fate = "done" <=> write[x].fate = "done"
      BY <1>2, <3>1
    <3>3. QED
      BY <1>1, <3>2 DEF Sent, Job
  <2>2. \A x \in DOMAIN sessions : Place(x)' = Place(x) /\ Rest(x)' = Rest(x)
    BY <1>1, <2>1 DEF Place, Rest, Plain, SessionsPlain
  <2>3. QED
    BY <1>1, <2>2 DEF Right, DeliveryRight, Delivered
<1>11. QED
  BY <1>3, <1>5, <1>6, <1>7, <1>8, <1>9, <1>10 DEF Right

LEMMA TransferRight ==
  ASSUME Plain, Right, NEW s \in Session, NEW fate \in {"done", "failed"}, Transfer(s, fate)
  PROVE  Right'
<1>1. /\ UNCHANGED <<threads, life, sessions, queue, strand, crashed, orderly, lines, due>>
      /\ write[s].fate = "pending" /\ write' = [write EXCEPT ![s].fate = fate]
      /\ got' = IF fate = "done" THEN [got EXCEPT ![s] = Append(@, write[s].m)] ELSE got
  BY DEF Transfer
<1>2. /\ write'[s].fate = fate /\ write'[s].m = write[s].m
      /\ \A x \in Session : x # s => write'[x] = write[x] /\ got'[x] = got[x]
      /\ got'[s] = IF fate = "done" THEN Append(got[s], write[s].m) ELSE got[s]
  BY <1>1 DEF Plain, WritesPlain, ListsPlain
<1>3. /\ Present(s) /\ s \in DOMAIN sessions /\ sessions[s] = write[s].m /\ write[s].m # 0
      /\ \A k \in DOMAIN strand : ~Job(k, "written", s)
  BY <1>1 DEF Right, WritesRight, Plain, WritesPlain
<1>4. IdsRight'
  BY <1>1 DEF Right, IdsRight
<1>5. MembersRight'
  BY <1>1, <1>2, <1>3 DEF Right, MembersRight, Job, Present, Plain, SessionsPlain
<1>6. \A k \in DOMAIN strand : \A x \in Session :
        Job(k, "destroyed", x) \/ Job(k, "written", x) => x # s
  BY <1>1, <1>3 DEF Right, JobsRight, DestroyedRight
<1>7. JobsRight'
  <2>1. SUFFICES ASSUME NEW k \in DOMAIN strand, NEW x \in Session
                 PROVE  /\ Job(k, "created", x)' => CreatedRight(k, x)'
                        /\ Job(k, "message", x)' => MessageRight(k, x)'
                        /\ Job(k, "written", x)' => WrittenRight(k, x)'
                        /\ Job(k, "destroyed", x)' => DestroyedRight(k, x)'
    BY <1>1 DEF JobsRight
  <2>2. Job(k, "created", x)' => CreatedRight(k, x)'
    BY <1>1 DEF Right, JobsRight, Job, CreatedRight, Present
  <2>3. Job(k, "message", x)' => MessageRight(k, x)'
    BY <1>1 DEF Right, JobsRight, Job, MessageRight, Present
  <2>4. Job(k, "written", x)' => WrittenRight(k, x)'
    BY <1>1, <1>2, <1>6 DEF Right, JobsRight, Job, WrittenRight, Present
  <2>5. Job(k, "destroyed", x)' => DestroyedRight(k, x)'
    BY <1>1, <1>2, <1>6 DEF Right, JobsRight, Job, DestroyedRight, LetsGo
  <2>6. QED
    BY <2>2, <2>3, <2>4, <2>5
<1>8. WritesRight'
  BY <1>1, <1>2, <1>3 DEF Right, WritesRight, Job, Present
<1>9. PointersRight' /\ CountsRight'
  BY <1>1 DEF Right, PointersRight, CountsRight, Waiting
<1>10. DeliveryRight'
  <2>1. ASSUME NEW x \in DOMAIN sessions, x # s
        PROVE  Place(x)' = Place(x) /\ got'[x] = got[x]
    <3>1. x \in Session
      BY DEF Plain, SessionsPlain
    <3>2. Sent(x)' <=> Sent(x)
      BY <1>1, <1>2, <2>1, <3>1 DEF Sent, Job
    <3>3. QED
      BY <1>2, <2>1, <3>1, <3>2 DEF Place
  <2>2. Place(s)' = Place(s)
    <3>1. ~Sent(s) /\ (Sent(s)' <=> fate = "done")
      BY <1>1, <1>2, <1>3 DEF Sent, Job
    <3>2. CASE fate = "done"
      BY <1>2, <3>1, <3>2, ListTypes DEF Place, Plain
    <3>3. CASE fate = "failed"
      BY <1>2, <3>1, <3>3 DEF Place
    <3>4. QED
      BY <3>2, <3>3
  <2>3. \A x \in DOMAIN sessions : Rest(x)' = Rest(x)
    BY <1>1 DEF Rest
  <2>4. /\ Len(got'[s]) <= Len(due[s])
        /\ \A i \in DOMAIN got'[s] : got'[s][i] = due[s][i]
    <3>1. /\ Len(got[s]) <= Len(due[s]) /\ \A i \in DOMAIN got[s] : got[s][i] = due[s][i]
          /\ Place(s) \in DOMAIN due[s] /\ due[s][Place(s)] = sessions[s]
      BY <1>3 DEF Right, DeliveryRight, Delivered
    <3>2. CASE fate = "failed"
      BY <1>2, <3>1, <3>2
    <3>3. CASE fate = "done"
      <4>1. Place(s) = Len(got[s]) + 1
        BY <1>1, <1>3 DEF Place, Sent
      <4>2. /\ Len(Append(got[s], write[s].m)) = Len(got[s]) + 1
            /\ DOMAIN Append(got[s], write[s].m) = 1..Len(got[s]) + 1
            /\ \A i \in 1..Len(got[s]) + 1 : Append(got[s], write[s].m)[i] =
                 IF i = Len(got[s]) + 1 THEN write[s].m ELSE got[s][i]
        BY ListTypes DEF Plain
      <4>3. Len(got[s]) \in Nat /\ DOMAIN got[s] = 1..Len(got[s]) /\ DOMAIN due[s] = 1..Len(due[s])
        BY ListTypes DEF Plain
      <4>4. QED
        BY <1>2, <1>3, <3>1, <3>3, <4>1, <4>2, <4>3
    <3>4. QED
      BY <3>2, <3>3
  <2>5. QED
    BY <1>1, <1>3, <2>1, <2>2, <2>3, <2>4 DEF Right, DeliveryRight, Delivered
<1>11. QED
  BY <1>1, <1>4, <1>5, <1>7, <1>8, <1>9, <1>10 DEF Right

-----------------------------------------------------------------------------
(* The functions that run on the strand. *)

(* The queue loses its entries "gone", and those in "less" are decremented; *)
(* f leads from what is left to where it was.                              *)
Left(f, gone, less) ==
  /\ \A k \in DOMAIN queue' :
       /\ f[k] \in DOMAIN queue \ gone
       /\ queue'[k].m = queue[f[k]].m /\ queue'[k].sender = queue[f[k]].sender
       /\ queue'[k].rem = IF f[k] \in less THEN queue[f[k]].rem - 1 ELSE queue[f[k]].rem
  /\ \A k, l \in DOMAIN queue' : k < l => f[k] < f[l]
  /\ \A p \in DOMAIN queue \ gone : \E k \in DOMAIN queue' : f[k] = p

LEMMA IdsKept ==
  ASSUME Plain, Right, NEW f, NEW gone, NEW less, Left(f, gone, less),
         strand # << >>, strand' = Tail(strand), UNCHANGED <<due, lines>>
  PROVE  IdsRight'
<1>1. \A k \in DOMAIN strand' : k + 1 \in DOMAIN strand /\ strand'[k] = strand[k + 1] /\ k \in Nat
  BY Popped DEF Plain, StrandPlain
<1>2. \A i, j \in DOMAIN queue' : i < j => queue'[i].m < queue'[j].m
  BY DEF Left, Right, IdsRight
<1>3. \A i \in DOMAIN queue' : queue'[i].m <= lines'
  BY DEF Left, Right, IdsRight
<1>4. ASSUME NEW k \in DOMAIN strand', strand'[k].kind = "message"
      PROVE  /\ strand'[k].m <= lines'
             /\ \A i \in DOMAIN queue' : queue'[i].m < strand'[k].m
             /\ \A s \in Session : \A n \in DOMAIN due'[s] : due'[s][n] < strand'[k].m
             /\ \A l \in DOMAIN strand' : l < k /\ strand'[l].kind = "message" =>
                  strand'[l].m < strand'[k].m
  <2>1. /\ strand[k + 1].m <= lines
        /\ \A i \in DOMAIN queue : queue[i].m < strand[k + 1].m
        /\ \A s \in Session : \A n \in DOMAIN due[s] : due[s][n] < strand[k + 1].m
        /\ \A l \in DOMAIN strand : l < k + 1 /\ strand[l].kind = "message" =>
             strand[l].m < strand[k + 1].m
    BY <1>1, <1>4 DEF Right, IdsRight
  <2>2. ASSUME NEW l \in DOMAIN strand', l < k, strand'[l].kind = "message"
        PROVE  strand'[l].m < strand'[k].m
    <3>1. l + 1 \in DOMAIN strand /\ l + 1 < k + 1 /\ strand'[l] = strand[l + 1]
      BY <1>1, <2>2
    <3>2. QED
      BY <1>1, <2>1, <2>2, <3>1
  <2>3. QED
    BY <1>1, <2>1, <2>2 DEF Left
<1>5. QED
  BY <1>2, <1>3, <1>4 DEF Right, IdsRight

(* What the functions behind the first one rely on. *)
LEMMA JobsKept ==
  ASSUME Plain, Right, strand # << >>, strand' = Tail(strand), UNCHANGED life,
         \A k \in DOMAIN strand : \A x \in Session : k # 1 =>
           /\ Job(k, "created", x) => x \notin DOMAIN sessions'
           /\ Job(k, "message", x) /\ x \in DOMAIN sessions => x \in DOMAIN sessions'
           /\ Job(k, "written", x) =>
                x \in DOMAIN sessions' /\ sessions'[x] = sessions[x] /\ write'[x].fate = "none",
         \A x \in Session : Job(1, "created", x) => x \in DOMAIN sessions'
  PROVE  JobsRight'
<1>1. \A k \in DOMAIN strand' : /\ k + 1 \in DOMAIN strand /\ strand'[k] = strand[k + 1]
                                /\ k \in Nat /\ k # 0
  BY Popped DEF Plain, StrandPlain
<1>2. \A k \in DOMAIN strand : k \in Nat \ {0} /\ (k # 1 => k - 1 \in DOMAIN strand')
  BY Popped DEF Plain, StrandPlain
<1>3. SUFFICES ASSUME NEW k \in DOMAIN strand', NEW x \in Session
               PROVE  /\ Job(k, "created", x)' => CreatedRight(k, x)'
                      /\ Job(k, "message", x)' => MessageRight(k, x)'
                      /\ Job(k, "written", x)' => WrittenRight(k, x)'
                      /\ Job(k, "destroyed", x)' => DestroyedRight(k, x)'
  BY DEF JobsRight
<1>4. k + 1 \in DOMAIN strand /\ strand'[k] = strand[k + 1] /\ k + 1 # 1
  BY <1>1
<1>5. Job(k, "created", x)' => CreatedRight(k, x)'
  <2>1. SUFFICES ASSUME Job(k + 1, "created", x) PROVE CreatedRight(k, x)'
    BY <1>4 DEF Job
  <2>2. CreatedRight(k + 1, x)
    BY <1>4, <2>1 DEF Right, JobsRight
  <2>3. ASSUME NEW l \in DOMAIN strand', Job(l, "created", x)' PROVE l = k
    <3>1. l + 1 \in DOMAIN strand /\ Job(l + 1, "created", x)
      BY <1>1, <2>3 DEF Job
    <3>2. l + 1 = k + 1
      BY <2>2, <3>1 DEF CreatedRight
    <3>3. QED
      BY <1>1, <3>2
  <2>4. QED
    BY <1>4, <2>1, <2>2, <2>3 DEF CreatedRight, Present
<1>6. Job(k, "message", x)' => MessageRight(k, x)'
  <2>1. SUFFICES ASSUME Job(k + 1, "message", x) PROVE MessageRight(k, x)'
    BY <1>4 DEF Job
  <2>2. MessageRight(k + 1, x)
    BY <1>4, <2>1 DEF Right, JobsRight
  <2>3. CASE x \in DOMAIN sessions
    BY <1>4, <2>1, <2>2, <2>3 DEF MessageRight, Present
  <2>4. CASE x \notin DOMAIN sessions
    <3>1. PICK l \in DOMAIN strand : l < k + 1 /\ Job(l, "created", x)
      BY <2>2, <2>4 DEF MessageRight
    <3>2. CASE l = 1
      BY <2>2, <3>1, <3>2 DEF MessageRight, Present
    <3>3. CASE l # 1
      <4>1. /\ l - 1 \in DOMAIN strand' /\ l - 1 < k /\ l - 1 + 1 = l
        BY <1>1, <1>2, <3>1, <3>3
      <4>2. Job(l - 1, "created", x)'
        BY <1>1, <3>1, <4>1 DEF Job
      <4>3. QED
        BY <2>2, <4>1, <4>2 DEF MessageRight, Present
    <3>4. QED
      BY <3>2, <3>3
  <2>5. QED
    BY <2>3, <2>4
<1>7. Job(k, "written", x)' => WrittenRight(k, x)'
  <2>1. SUFFICES ASSUME Job(k + 1, "written", x) PROVE WrittenRight(k, x)'
    BY <1>4 DEF Job
  <2>2. WrittenRight(k + 1, x)
    BY <1>4, <2>1 DEF Right, JobsRight
  <2>3. ASSUME NEW l \in DOMAIN strand', Job(l, "written", x)' PROVE l = k
    <3>1. l + 1 \in DOMAIN strand /\ Job(l + 1, "written", x)
      BY <1>1, <2>3 DEF Job
    <3>2. l + 1 = k + 1
      BY <2>2, <3>1 DEF WrittenRight
    <3>3. QED
      BY <1>1, <3>2
  <2>4. QED
    BY <1>4, <2>1, <2>2, <2>3 DEF WrittenRight, Present
<1>8. ~Job(k, "destroyed", x)'
  BY <1>4 DEF Right, JobsRight, DestroyedRight, Job
<1>9. QED
  BY <1>5, <1>6, <1>7, <1>8

LEMMA WaitingFinite ==
  ASSUME Plain, NEW e
  PROVE  /\ Waiting(sessions, e) \subseteq Session /\ IsFiniteSet(Waiting(sessions, e))
         /\ Cardinality(Waiting(sessions, e)) \in Nat
         /\ \A s \in Waiting(sessions, e) :
              Cardinality(Waiting(sessions, e) \ {s}) = Cardinality(Waiting(sessions, e)) - 1
<1>1. Waiting(sessions, e) \subseteq Session
  BY DEF Waiting, Plain, SessionsPlain
<1>2. IsFiniteSet(Waiting(sessions, e)) /\ Cardinality(Waiting(sessions, e)) \in Nat
  BY <1>1, SessionsFinite
<1>3. QED
  BY <1>1, <1>2, FS_RemoveElement

(* An entry that waits for one session waits for no other. *)
LEMMA OnlyOne ==
  ASSUME Plain, Right, NEW p \in DOMAIN queue, queue[p].rem = 1,
         NEW s \in Waiting(sessions, queue[p])
  PROVE  Waiting(sessions, queue[p]) = {s}
<1> DEFINE W == Waiting(sessions, queue[p])
<1>1. Cardinality(W) = 1 /\ IsFiniteSet(W) /\ Cardinality(W \ {s}) = 0
  BY WaitingFinite DEF Right, CountsRight
<1>2. IsFiniteSet(W \ {s})
  BY <1>1, FS_RemoveElement
<1>3. W \ {s} = {}
  BY <1>1, <1>2, FS_EmptySet
<1>4. QED
  BY <1>3

(* Session s stops waiting for the entries that are lost or decremented,   *)
(* and the others wait for what they waited for.                           *)
Served(s, gone, less) ==
  /\ s \in DOMAIN sessions
  /\ \A x \in DOMAIN sessions : x # s => x \in DOMAIN sessions' /\ sessions'[x] = sessions[x]
  /\ DOMAIN sessions' \subseteq DOMAIN sessions
  /\ \A p \in gone : queue[p].rem = 1 /\ s \in Waiting(sessions, queue[p])
  /\ \A p \in less : queue[p].rem > 1 /\ s \in Waiting(sessions, queue[p])
  /\ \A p \in DOMAIN queue \ gone :
       s \in Waiting(sessions', queue[p]) <=> s \in Waiting(sessions, queue[p]) /\ p \notin less
  /\ s \in DOMAIN sessions' /\ sessions'[s] # 0 =>
       \E p \in DOMAIN queue \ gone : queue[p].m = sessions'[s] /\ queue[p].sender # s

LEMMA ServedRight ==
  ASSUME Plain, Right, NEW f, NEW gone \in SUBSET (DOMAIN queue),
         NEW less \in SUBSET (DOMAIN queue), NEW s,
         Left(f, gone, less), Served(s, gone, less)
  PROVE  /\ PointersRight' /\ CountsRight'
         /\ \A x \in DOMAIN sessions : x # s /\ sessions[x] # 0 => Rest(x)' = Rest(x)
<1>1. \A p \in gone : Waiting(sessions, queue[p]) = {s}
  BY OnlyOne DEF Served
<1>2. \A p \in DOMAIN queue : /\ queue[p].m \in Nat /\ queue[p].rem \in Nat
                              /\ queue[p].sender \in Session
  BY EntryType DEF Plain, QueuePlain
<1>3. \A x \in DOMAIN sessions : sessions[x] \in Nat
  BY ChatAssumption DEF Plain, SessionsPlain
<1>4. ASSUME NEW x \in DOMAIN sessions, x # s, sessions[x] # 0,
             NEW p \in gone, queue[p].sender # x
      PROVE  queue[p].m < sessions[x]
  <2>1. x \notin Waiting(sessions, queue[p])
    BY <1>1, <1>4
  <2>2. QED
    BY <1>2, <1>3, <1>4, <2>1 DEF Waiting
<1>5. PointersRight'
  <2>1. ASSUME NEW x \in DOMAIN sessions', sessions'[x] # 0
        PROVE  \E p \in DOMAIN queue \ gone : queue[p].m = sessions'[x] /\ queue[p].sender # x
    <3>1. CASE x = s
      BY <2>1, <3>1 DEF Served
    <3>2. CASE x # s
      <4>1. x \in DOMAIN sessions /\ sessions'[x] = sessions[x]
        BY <3>2 DEF Served
      <4>2. PICK p \in DOMAIN queue : queue[p].m = sessions[x] /\ queue[p].sender # x
        BY <2>1, <4>1 DEF Right, PointersRight
      <4>3. p \notin gone
        BY <1>2, <1>4, <2>1, <3>2, <4>1, <4>2
      <4>4. QED
        BY <4>1, <4>2, <4>3
    <3>3. QED
      BY <3>1, <3>2
  <2>2. QED
    BY <2>1 DEF PointersRight, Left
<1>6. CountsRight'
  <2>1. SUFFICES ASSUME NEW k \in DOMAIN queue'
                 PROVE  /\ queue'[k].rem = Cardinality(Waiting(sessions', queue'[k]))
                        /\ queue'[k].rem > 0
    BY DEF CountsRight
  <2>2. PICK p : /\ p = f[k] /\ p \in DOMAIN queue \ gone
                 /\ queue'[k].m = queue[p].m /\ queue'[k].sender = queue[p].sender
                 /\ queue'[k].rem = IF p \in less THEN queue[p].rem - 1 ELSE queue[p].rem
    BY DEF Left
  <2>3. Waiting(sessions', queue'[k]) = Waiting(sessions', queue[p])
    BY <2>2 DEF Waiting
  <2>4. \A x : x # s => (x \in Waiting(sessions', queue[p]) <=> x \in Waiting(sessions, queue[p]))
    BY DEF Waiting, Served
  <2>5. queue[p].rem = Cardinality(Waiting(sessions, queue[p])) /\ queue[p].rem > 0
    BY <2>2 DEF Right, CountsRight
  <2>6. CASE p \in less
    <3>1. Waiting(sessions', queue[p]) = Waiting(sessions, queue[p]) \ {s}
      BY <2>2, <2>4, <2>6 DEF Served
    <3>2. queue[p].rem > 1 /\ s \in Waiting(sessions, queue[p])
      BY <2>6 DEF Served
    <3>3. Cardinality(Waiting(sessions, queue[p]) \ {s}) = queue[p].rem - 1
      BY <2>5, <3>2, WaitingFinite
    <3>4. QED
      BY <1>2, <2>2, <2>3, <2>6, <3>1, <3>2, <3>3
  <2>7. CASE p \notin less
    <3>1. s \in Waiting(sessions', queue[p]) <=> s \in Waiting(sessions, queue[p])
      BY <2>2, <2>7 DEF Served
    <3>2. Waiting(sessions', queue[p]) = Waiting(sessions, queue[p])
      BY <2>4, <3>1
    <3>3. QED
      BY <2>2, <2>3, <2>5, <2>7, <3>2
  <2>8. QED
    BY <2>6, <2>7
<1>7. ASSUME NEW x \in DOMAIN sessions, x # s, sessions[x] # 0
      PROVE  Rest(x)' = Rest(x)
  <2>1. sessions'[x] = sessions[x]
    BY <1>7 DEF Served
  <2>2. ASSUME NEW m \in Rest(x) PROVE m \in Rest(x)'
    <3>1. PICK p \in DOMAIN queue : queue[p].m = m /\ queue[p].sender # x /\ queue[p].m > sessions[x]
      BY <2>2 DEF Rest
    <3>2. p \notin gone
      BY <1>2, <1>3, <1>4, <1>7, <3>1
    <3>3. QED
      BY <2>1, <3>1, <3>2 DEF Rest, Left
  <2>3. ASSUME NEW m \in Rest(x)' PROVE m \in Rest(x)
    <3>1. PICK k \in DOMAIN queue' : /\ queue'[k].m = m /\ queue'[k].sender # x
                                     /\ queue'[k].m > sessions'[x]
      BY <2>3 DEF Rest
    <3>2. QED
      BY <2>1, <3>1 DEF Rest, Left
  <2>4. QED
    BY <2>2, <2>3
<1>8. QED
  BY <1>5, <1>6, <1>7

LEMMA SentKept ==
  ASSUME Plain, strand # << >>, strand' = Tail(strand), NEW x \in Session,
         ~Job(1, "written", x), write'[x].fate = write[x].fate
  PROVE  Sent(x)' <=> Sent(x)
<1>1. \A k \in DOMAIN strand' : k + 1 \in DOMAIN strand /\ strand'[k] = strand[k + 1]
  BY Popped DEF Plain, StrandPlain
<1>2. \A k \in DOMAIN strand : k # 1 => k - 1 \in DOMAIN strand' /\ strand'[k - 1] = strand[k]
  BY Popped DEF Plain, StrandPlain
<1>3. ASSUME NEW k \in DOMAIN strand', Job(k, "written", x)'
      PROVE  \E l \in DOMAIN strand : Job(l, "written", x)
  BY <1>1, <1>3 DEF Job
<1>4. ASSUME NEW k \in DOMAIN strand, Job(k, "written", x)
      PROVE  \E l \in DOMAIN strand' : Job(l, "written", x)'
  <2>1. k # 1
    BY <1>4
  <2>2. QED
    BY <1>2, <1>4, <2>1 DEF Job
<1>5. QED
  BY <1>3, <1>4 DEF Sent

LEMMA CreatedRunRight ==
  ASSUME Plain, Right, RunJob, NEW s \in Session, Job(1, "created", s), Created(s)
  PROVE  Right'
<1>1. /\ strand # << >> /\ strand' = Tail(strand) /\ 1 \in DOMAIN strand
      /\ UNCHANGED <<threads, life, orderly, lines, got, queue, write, crashed, due>>
      /\ sessions' = Assigned({s} \ DOMAIN sessions, 0)
  BY HeadPlain DEF RunJob, Created, Plain
<1>2. CreatedRight(1, s)
  BY <1>1 DEF Right, JobsRight
<1>3. /\ DOMAIN sessions' = DOMAIN sessions \cup {s} /\ s \notin DOMAIN sessions
      /\ sessions'[s] = 0 /\ \A x \in DOMAIN sessions : sessions'[x] = sessions[x]
  BY <1>1, <1>2 DEF Assigned, CreatedRight
<1>4. \A k \in DOMAIN strand' : k + 1 \in DOMAIN strand /\ strand'[k] = strand[k + 1]
  BY <1>1, Popped DEF Plain, StrandPlain
<1>5. \A k \in DOMAIN strand : k # 1 => k - 1 \in DOMAIN strand' /\ strand'[k - 1] = strand[k]
  BY <1>1, Popped DEF Plain, StrandPlain
<1>6. IdsRight'
  <2> DEFINE f == [i \in DOMAIN queue |-> i]
  <2>1. Left(f, {}, {})
    BY <1>1 DEF Left
  <2> HIDE DEF f
  <2>2. QED
    BY <1>1, <2>1, IdsKept
<1>7. MembersRight'
  <2>1. ASSUME NEW x \in DOMAIN sessions'
        PROVE  Present(x)' \/ (life'[x] = "dead" /\ \E k \in DOMAIN strand' : Job(k, "destroyed", x)')
    <3>1. CASE x = s
      BY <1>1, <1>2, <3>1 DEF CreatedRight, Present
    <3>2. CASE x # s
      <4>1. x \in DOMAIN sessions
        BY <1>3, <3>2
      <4>2. Present(x) \/ (life[x] = "dead" /\ \E k \in DOMAIN strand : Job(k, "destroyed", x))
        BY <4>1 DEF Right, MembersRight
      <4>3. \A k \in DOMAIN strand : Job(k, "destroyed", x) => k # 1
        BY DEF Job
      <4>4. QED
        BY <1>1, <1>5, <4>2, <4>3 DEF Job, Present
    <3>3. QED
      BY <3>1, <3>2
  <2>2. ASSUME NEW x \in Session, Present(x)', x \notin DOMAIN sessions'
        PROVE  \E k \in DOMAIN strand' : Job(k, "created", x)'
    <3>1. x # s /\ Present(x) /\ x \notin DOMAIN sessions
      BY <1>1, <1>3, <2>2 DEF Present
    <3>2. PICK k \in DOMAIN strand : Job(k, "created", x)
      BY <3>1 DEF Right, MembersRight
    <3>3. k # 1
      BY <3>1, <3>2 DEF Job
    <3>4. QED
      BY <1>5, <3>2, <3>3 DEF Job
  <2>3. \A x \in Session : life'[x] # "dead" /\ x \notin DOMAIN sessions' =>
          due'[x] = << >> /\ got'[x] = << >>
    BY <1>1, <1>3 DEF Right, MembersRight
  <2>4. QED
    BY <2>1, <2>2, <2>3 DEF MembersRight
<1>8. JobsRight'
  <2>1. ASSUME NEW k \in DOMAIN strand, NEW x \in Session, k # 1
        PROVE  /\ Job(k, "created", x) => x \notin DOMAIN sessions'
               /\ Job(k, "message", x) /\ x \in DOMAIN sessions => x \in DOMAIN sessions'
               /\ Job(k, "written", x) =>
                    x \in DOMAIN sessions' /\ sessions'[x] = sessions[x] /\ write'[x].fate = "none"
    <3>1. Job(k, "created", x) => x \notin DOMAIN sessions'
      BY <1>2, <1>3, <2>1 DEF Right, JobsRight, CreatedRight
    <3>2. Job(k, "written", x) => x \in DOMAIN sessions /\ write[x].fate = "none"
      BY DEF Right, JobsRight, WrittenRight
    <3>3. QED
      BY <1>1, <1>3, <3>1, <3>2
  <2>2. \A x \in Session : Job(1, "created", x) => x \in DOMAIN sessions'
    BY <1>3 DEF Job
  <2>3. QED
    BY <1>1, <2>1, <2>2, JobsKept
<1>9. WritesRight'
  <2>1. ASSUME NEW x \in Session, write'[x].fate # "none"
        PROVE  /\ Present(x)' /\ x \in DOMAIN sessions' /\ sessions'[x] = write'[x].m
               /\ \A k \in DOMAIN strand' : ~Job(k, "written", x)'
    <3>1. /\ Present(x) /\ x \in DOMAIN sessions /\ sessions[x] = write[x].m
          /\ \A k \in DOMAIN strand : ~Job(k, "written", x)
      BY <1>1, <2>1 DEF Right, WritesRight
    <3>2. QED
      BY <1>1, <1>3, <1>4, <3>1 DEF Present, Job
  <2>2. QED
    BY <2>1 DEF WritesRight
<1>10. PointersRight' /\ CountsRight'
  <2>1. PointersRight'
    <3>1. ASSUME NEW x \in DOMAIN sessions', sessions'[x] # 0
          PROVE  \E i \in DOMAIN queue' : queue'[i].m = sessions'[x] /\ queue'[i].sender # x
      <4>1. x \in DOMAIN sessions /\ sessions'[x] = sessions[x]
        BY <1>3, <3>1
      <4>2. \E i \in DOMAIN queue : queue[i].m = sessions[x] /\ queue[i].sender # x
        BY <3>1, <4>1 DEF Right, PointersRight
      <4>3. QED
        BY <1>1, <4>1, <4>2
    <3>2. QED
      BY <3>1 DEF PointersRight
  <2>2. \A e : Waiting(sessions', e) = Waiting(sessions, e)
    BY <1>3 DEF Waiting
  <2>3. QED
    BY <1>1, <2>1, <2>2 DEF Right, CountsRight
<1>11. DeliveryRight'
  <2>1. ASSUME NEW x \in DOMAIN sessions, sessions[x] # 0
        PROVE  Place(x)' = Place(x) /\ Rest(x)' = Rest(x)
    <3>1. x \in Session /\ x # s
      BY <1>3 DEF Plain, SessionsPlain
    <3>2. ~Job(1, "written", x)
      BY DEF Job
    <3>3. Sent(x)' <=> Sent(x)
      BY <1>1, <3>1, <3>2, SentKept
    <3>4. QED
      BY <1>1, <1>3, <3>3 DEF Place, Rest
  <2>2. Len(got[s]) = 0 /\ Len(due[s]) = 0 /\ DOMAIN got[s] = {} /\ DOMAIN due[s] = {}
    BY <1>2, <1>3 DEF CreatedRight, Present, Right, MembersRight
  <2>3. ASSUME NEW x \in DOMAIN sessions'
        PROVE  Delivered(x)'
    <3>1. CASE x = s
      BY <1>1, <1>3, <2>2, <3>1 DEF Delivered
    <3>2. CASE x # s
      <4>1. x \in DOMAIN sessions /\ sessions'[x] = sessions[x] /\ Delivered(x)
        BY <1>3, <3>2 DEF Right, DeliveryRight
      <4>2. QED
        BY <1>1, <2>1, <4>1 DEF Delivered
    <3>3. QED
      BY <3>1, <3>2
  <2>4. QED
    BY <2>3 DEF DeliveryRight
<1>12. QED
  BY <1>1, <1>6, <1>7, <1>8, <1>9, <1>10, <1>11 DEF Right

(* The queue when the receiver s at entry p goes. *)
LEMMA ReceiverGone ==
  ASSUME Plain, Right, NEW s \in DOMAIN sessions, sessions[s] # 0, LetsGo(s),
         sessions' = [x \in DOMAIN sessions \ {s} |-> sessions[x]],
         queue' = DropReceiver(sessions[s])
  PROVE  \E f : \E gone, less \in SUBSET (DOMAIN queue) :
           Left(f, gone, less) /\ Served(s, gone, less)
<1>1. queue \in Seq(Entry) /\ DOMAIN queue = 1..Len(queue) /\ Len(queue) \in Nat
  BY EntryType DEF Plain, QueuePlain
<1>2. \A i \in DOMAIN queue : /\ i \in Nat \ {0} /\ queue[i] \in Entry /\ queue[i].m \in Nat
                              /\ queue[i].rem \in 1..Wide /\ queue[i].rem \in Nat
  <2>1. \A i \in DOMAIN queue :
          /\ i \in Nat \ {0} /\ queue[i] \in Entry /\ queue[i].m \in Nat
          /\ queue[i].rem \in 0..(Wide - 1) /\ queue[i].rem \in Nat /\ queue[i].rem > 0
    BY <1>1, EntryType DEF Right, CountsRight
  <2>2. QED
    BY <2>1, ChatAssumption
<1>3. PICK p \in DOMAIN queue : queue[p].m = sessions[s] /\ queue[p].sender # s
  BY DEF Right, PointersRight
<1>4. Queued(sessions[s]) /\ Index(sessions[s]) = p
  BY <1>1, <1>3, IndexIs
<1>5. PICK c \in 1..Len(queue) + 1, g \in 1..Len(queue) + 1 :
        Where(p, c, g) /\ CutAt(queue', c, g)
  BY <1>1, <1>4, DroppedAt
<1> DEFINE f == [k \in DOMAIN queue' |-> k + c - 1]
           gone == 1..c - 1
           less == {i \in DOMAIN queue : i >= g}
<1>6. gone \in SUBSET (DOMAIN queue) /\ less \in SUBSET (DOMAIN queue)
  BY <1>1, <1>5
<1>7. \A e \in Entry : /\ Decremented(e).m = e.m /\ Decremented(e).sender = e.sender
                       /\ e.rem \in 1..Wide => Decremented(e).rem = e.rem - 1
  BY DecType, ChatAssumption DEF Entry, Decremented
<1>8. Left(f, gone, less)
  <2>1. ASSUME NEW k \in DOMAIN queue'
        PROVE  /\ f[k] \in DOMAIN queue \ gone
               /\ queue'[k].m = queue[f[k]].m /\ queue'[k].sender = queue[f[k]].sender
               /\ queue'[k].rem = IF f[k] \in less THEN queue[f[k]].rem - 1 ELSE queue[f[k]].rem
    <3>1. /\ f[k] = k + c - 1 /\ f[k] \in DOMAIN queue /\ k \in Nat \ {0}
          /\ queue'[k] = IF f[k] >= g THEN Decremented(queue[f[k]]) ELSE queue[f[k]]
      BY <1>5 DEF CutAt
    <3>2. f[k] \notin gone /\ (f[k] \in less <=> f[k] >= g)
      BY <1>5, <3>1
    <3> HIDE DEF f, gone, less
    <3>3. PICK q : q = f[k]
      OBVIOUS
    <3>4. /\ queue[q] \in Entry /\ queue[q].rem \in 1..Wide
          /\ queue'[k] = IF q >= g THEN Decremented(queue[q]) ELSE queue[q]
          /\ q \in DOMAIN queue \ gone /\ (q \in less <=> q >= g)
      BY <1>2, <3>1, <3>2, <3>3
    <3>5. /\ Decremented(queue[q]).m = queue[q].m /\ Decremented(queue[q]).sender = queue[q].sender
          /\ Decremented(queue[q]).rem = queue[q].rem - 1
      <4>1. PICK e \in Entry : e = queue[q]
        BY <3>4
      <4>2. e.rem \in 1..Wide
        BY <3>4, <4>1
      <4>3. /\ Decremented(e).m = e.m /\ Decremented(e).sender = e.sender
            /\ Decremented(e).rem = e.rem - 1
        BY <1>7, <4>2, Zenon
      <4>4. QED
        BY <4>1, <4>3
    <3>6. /\ queue'[k].m = queue[q].m /\ queue'[k].sender = queue[q].sender
          /\ queue'[k].rem = IF q \in less THEN queue[q].rem - 1 ELSE queue[q].rem
      BY <3>4, <3>5
    <3>7. QED
      BY <3>3, <3>4, <3>6
  <2>2. \A k, l \in DOMAIN queue' : k < l => f[k] < f[l]
    BY <1>5 DEF CutAt
  <2>3. ASSUME NEW q \in DOMAIN queue \ gone PROVE \E k \in DOMAIN queue' : f[k] = q
    <3>1. q - (c - 1) \in DOMAIN queue' /\ q - (c - 1) + c - 1 = q
      BY <1>1, <1>5 DEF CutAt
    <3>2. QED
      BY <3>1
  <2> HIDE DEF f, gone, less
  <2>4. QED
    BY <2>1, <2>2, <2>3 DEF Left
<1>9. \A i \in DOMAIN queue : s \in Waiting(sessions, queue[i]) <=> i >= p
  <2>1. ASSUME NEW i \in DOMAIN queue, i >= p PROVE s \in Waiting(sessions, queue[i])
    <3>1. queue[i].sender # s
      BY <1>1, <1>2, <1>3, <2>1 DEF LetsGo
    <3>2. sessions[s] <= queue[i].m
      BY <1>2, <1>3, <2>1 DEF Right, IdsRight
    <3>3. QED
      BY <3>1, <3>2 DEF Waiting
  <2>2. ASSUME NEW i \in DOMAIN queue, s \in Waiting(sessions, queue[i]) PROVE i >= p
    <3>1. queue[p].m <= queue[i].m
      BY <1>3, <2>2 DEF Waiting
    <3>2. ~(i < p)
      BY <1>2, <3>1 DEF Right, IdsRight
    <3>3. QED
      BY <1>2, <3>2
  <2>3. QED
    BY <2>1, <2>2
<1>10. \A i \in DOMAIN queue : i >= p =>
         queue[i].rem > 1 \/ (p = 1 /\ \A j \in 1..i : queue[j].rem = 1)
  BY <1>1, <1>2, <1>3 DEF LetsGo
<1>11. \A i \in gone : i >= p /\ queue[i].rem = 1
  BY <1>1, <1>2, <1>5 DEF Where
<1>12. \A i \in less : i >= p /\ queue[i].rem > 1
  <2>1. CASE p = 1 /\ queue[1].rem = 1
    <3>1. /\ g = c /\ c \in 2..Len(queue) + 1
          /\ c \in DOMAIN queue => queue[c].rem > 1
      BY <1>5, <2>1 DEF Where
    <3>2. ASSUME NEW i \in less PROVE i >= p /\ queue[i].rem > 1
      <4>1. i \in DOMAIN queue /\ i >= c /\ i >= p /\ c \in DOMAIN queue /\ c \in 1..i
        BY <1>1, <2>1, <3>1
      <4>2. queue[c].rem # 1
        BY <1>2, <3>1, <4>1
      <4>3. QED
        BY <1>10, <4>1, <4>2
    <3>3. QED
      BY <3>2
  <2>2. CASE ~(p = 1 /\ queue[1].rem = 1)
    <3>1. g = p
      BY <1>5, <2>2 DEF Where
    <3>2. ASSUME NEW i \in less PROVE i >= p /\ queue[i].rem > 1
      <4>1. i \in DOMAIN queue /\ i >= p /\ i \in Nat \ {0}
        BY <1>2, <3>1
      <4>2. 1 \in 1..i
        BY <4>1
      <4>3. QED
        BY <1>10, <2>2, <4>1, <4>2
    <3>3. QED
      BY <3>2
  <2>3. QED
    BY <2>1, <2>2
<1>13. \A i \in DOMAIN queue \ gone : i >= p => i \in less
  BY <1>1, <1>2, <1>5 DEF Where
<1> HIDE DEF f, gone, less
<1>14. DOMAIN sessions' = DOMAIN sessions \ {s} /\ \A x \in DOMAIN sessions' : sessions'[x] = sessions[x]
  OBVIOUS
<1>15. Served(s, gone, less)
  <2>1. \A i \in DOMAIN queue \ gone :
          s \in Waiting(sessions', queue[i]) <=> s \in Waiting(sessions, queue[i]) /\ i \notin less
    BY <1>9, <1>13, <1>14 DEF Waiting
  <2>2. QED
    BY <1>6, <1>9, <1>11, <1>12, <1>14, <2>1 DEF Served
<1>16. QED
  BY <1>6, <1>8, <1>15, Zenon

(* All entries stay as they are. *)
LEMMA AllLeft ==
  ASSUME UNCHANGED queue
  PROVE  \E f : Left(f, {}, {})
<1> DEFINE f == [i \in DOMAIN queue |-> i]
<1>1. Left(f, {}, {})
  BY DEF Left
<1> HIDE DEF f
<1>2. QED
  BY <1>1, Zenon

LEMMA DestroyedRunRight ==
  ASSUME Plain, Right, RunJob, NEW s \in Session, Job(1, "destroyed", s), Destroyed(s)
  PROVE  Right'
<1>1. /\ strand # << >> /\ strand' = Tail(strand) /\ 1 \in DOMAIN strand
      /\ UNCHANGED <<threads, life, orderly, lines, got, write, due>>
      /\ sessions' = [x \in DOMAIN sessions \ {s} |-> sessions[x]]
  BY HeadPlain DEF RunJob, Destroyed, Plain
<1>2. life[s] = "dead" /\ s \in DOMAIN sessions /\ write[s].fate = "none" /\ LetsGo(s)
  BY <1>1 DEF Right, JobsRight, DestroyedRight
<1>3. DOMAIN sessions' = DOMAIN sessions \ {s} /\ \A x \in DOMAIN sessions' : sessions'[x] = sessions[x]
  BY <1>1
<1>4. ~crashed' /\ queue' = IF sessions[s] = 0 THEN queue ELSE DropReceiver(sessions[s])
  <2>1. sessions[s] # 0 => Queued(sessions[s])
    BY <1>2 DEF Right, PointersRight, Queued
  <2>2. ~crashed'
    BY <1>2, <2>1 DEF Destroyed
  <2>3. QED
    BY <2>2 DEF Destroyed
<1>5. PICK f : \E gone, less \in SUBSET (DOMAIN queue) : Left(f, gone, less) /\ Served(s, gone, less)
  <2>1. CASE sessions[s] = 0
    <3>1. PICK f : Left(f, {}, {})
      BY <1>4, <2>1, AllLeft
    <3>2. Served(s, {}, {})
      BY <1>2, <1>3, <2>1 DEF Served, Waiting
    <3>3. QED
      BY <3>1, <3>2
  <2>2. CASE sessions[s] # 0
    BY <1>1, <1>2, <1>4, <2>2, ReceiverGone
  <2>3. QED
    BY <2>1, <2>2
<1>6. PICK gone, less \in SUBSET (DOMAIN queue) : Left(f, gone, less) /\ Served(s, gone, less)
  BY <1>5
<1>7. /\ PointersRight' /\ CountsRight'
      /\ \A x \in DOMAIN sessions : x # s /\ sessions[x] # 0 => Rest(x)' = Rest(x)
  BY <1>6, ServedRight
<1>8. IdsRight'
  BY <1>1, <1>6, IdsKept
<1>9. \A k \in DOMAIN strand : k # 1 => k - 1 \in DOMAIN strand' /\ strand'[k - 1] = strand[k]
  BY <1>1, Popped DEF Plain, StrandPlain
<1>10. \A k \in DOMAIN strand' : k + 1 \in DOMAIN strand /\ strand'[k] = strand[k + 1]
  BY <1>1, Popped DEF Plain, StrandPlain
<1>11. MembersRight'
  <2>1. ASSUME NEW x \in DOMAIN sessions' PROVE Present(x)'
    <3>1. x \in DOMAIN sessions /\ x # s
      BY <1>3
    <3>2. \A k \in DOMAIN strand : x \in Session /\ Job(k, "destroyed", x) => k = 1
      BY DEF Right, JobsRight, DestroyedRight
    <3>3. Present(x)
      BY <3>1, <3>2 DEF Right, MembersRight, Job, Plain, SessionsPlain
    <3>4. QED
      BY <1>1, <3>3 DEF Present
  <2>2. ASSUME NEW x \in Session, Present(x)', x \notin DOMAIN sessions'
        PROVE  \E k \in DOMAIN strand' : Job(k, "created", x)'
    <3>1. x # s /\ Present(x) /\ x \notin DOMAIN sessions
      BY <1>1, <1>2, <1>3, <2>2 DEF Present
    <3>2. PICK k \in DOMAIN strand : Job(k, "created", x)
      BY <3>1 DEF Right, MembersRight
    <3>3. k # 1
      BY <3>1, <3>2 DEF Job
    <3>4. QED
      BY <1>9, <3>2, <3>3 DEF Job
  <2>3. \A x \in Session : life'[x] # "dead" /\ x \notin DOMAIN sessions' =>
          due'[x] = << >> /\ got'[x] = << >>
    BY <1>1, <1>2, <1>3 DEF Right, MembersRight
  <2>4. QED
    BY <2>1, <2>2, <2>3 DEF MembersRight
<1>12. JobsRight'
  <2>1. ASSUME NEW k \in DOMAIN strand, NEW x \in Session, k # 1
        PROVE  /\ Job(k, "created", x) => x \notin DOMAIN sessions'
               /\ Job(k, "message", x) /\ x \in DOMAIN sessions => x \in DOMAIN sessions'
               /\ Job(k, "written", x) =>
                    x \in DOMAIN sessions' /\ sessions'[x] = sessions[x] /\ write'[x].fate = "none"
    <3>1. Job(k, "created", x) => x \notin DOMAIN sessions'
      BY <1>3, <2>1 DEF Right, JobsRight, CreatedRight
    <3>2. Job(k, "written", x) => x \in DOMAIN sessions /\ write[x].fate = "none" /\ x # s
      BY <1>2 DEF Right, JobsRight, WrittenRight, Present
    <3>3. Job(k, "message", x) => x # s
      BY <1>2 DEF Right, JobsRight, MessageRight, Present
    <3>4. QED
      BY <1>1, <1>3, <3>1, <3>2, <3>3
  <2>2. \A x \in Session : ~Job(1, "created", x)
    BY DEF Job
  <2>3. QED
    BY <1>1, <2>1, <2>2, JobsKept
<1>13. WritesRight'
  <2>1. ASSUME NEW x \in Session, write'[x].fate # "none"
        PROVE  /\ Present(x)' /\ x \in DOMAIN sessions' /\ sessions'[x] = write'[x].m
               /\ \A k \in DOMAIN strand' : ~Job(k, "written", x)'
    <3>1. /\ Present(x) /\ x \in DOMAIN sessions /\ sessions[x] = write[x].m /\ x # s
          /\ \A k \in DOMAIN strand : ~Job(k, "written", x)
      BY <1>1, <1>2, <2>1 DEF Right, WritesRight
    <3>2. QED
      BY <1>1, <1>3, <1>10, <3>1 DEF Present, Job
  <2>2. QED
    BY <2>1 DEF WritesRight
<1>14. DeliveryRight'
  <2>1. ASSUME NEW x \in DOMAIN sessions' PROVE Delivered(x)'
    <3>1. /\ x \in DOMAIN sessions /\ sessions'[x] = sessions[x] /\ Delivered(x) /\ x # s
          /\ x \in Session /\ ~Job(1, "written", x)
      BY <1>3 DEF Right, DeliveryRight, Plain, SessionsPlain, Job
    <3>2. Sent(x)' <=> Sent(x)
      BY <1>1, <3>1, SentKept
    <3>3. sessions[x] # 0 => Place(x)' = Place(x) /\ Rest(x)' = Rest(x)
      BY <1>1, <1>7, <3>1, <3>2 DEF Place
    <3>4. QED
      BY <1>1, <3>1, <3>3 DEF Delivered
  <2>2. QED
    BY <2>1 DEF DeliveryRight
<1>15. QED
  BY <1>4, <1>7, <1>8, <1>11, <1>12, <1>13, <1>14 DEF Right

(* Everybody in sessions_ is present when no session is being destroyed. *)
LEMMA MembersKept ==
  ASSUME Plain, Right, strand # << >>, strand' = Tail(strand), UNCHANGED <<life, got>>,
         NEW kind \in {"message", "written"}, NEW s, Job(1, kind, s),
         DOMAIN sessions' = DOMAIN sessions,
         \A x \in Session \ DOMAIN sessions : due'[x] = due[x]
  PROVE  /\ MembersRight'
         /\ \A x \in DOMAIN sessions : Present(x) /\ x \in Session
<1>1. \A k \in DOMAIN strand : k # 1 => k - 1 \in DOMAIN strand' /\ strand'[k - 1] = strand[k]
  BY Popped DEF Plain, StrandPlain
<1>2. ASSUME NEW x \in DOMAIN sessions PROVE Present(x) /\ x \in Session
  <2>1. x \in Session
    BY DEF Plain, SessionsPlain
  <2>2. ASSUME NEW k \in DOMAIN strand, Job(k, "destroyed", x) PROVE FALSE
    <3>1. k = 1
      BY <2>1, <2>2 DEF Right, JobsRight, DestroyedRight
    <3>2. QED
      BY <2>2, <3>1 DEF Job
  <2>3. QED
    BY <2>1, <2>2 DEF Right, MembersRight
<1>3. ASSUME NEW x \in Session, Present(x)', x \notin DOMAIN sessions'
      PROVE  \E k \in DOMAIN strand' : Job(k, "created", x)'
  <2>1. Present(x) /\ x \notin DOMAIN sessions
    BY <1>3 DEF Present
  <2>2. PICK k \in DOMAIN strand : Job(k, "created", x)
    BY <2>1 DEF Right, MembersRight
  <2>3. k # 1
    BY <2>2 DEF Job
  <2>4. QED
    BY <1>1, <2>2, <2>3 DEF Job
<1>4. \A x \in Session : life'[x] # "dead" /\ x \notin DOMAIN sessions' =>
        due'[x] = << >> /\ got'[x] = << >>
  BY DEF Right, MembersRight
<1>5. \A x \in DOMAIN sessions' : Present(x)'
  BY <1>2 DEF Present
<1>6. QED
  BY <1>2, <1>3, <1>4, <1>5 DEF MembersRight

(* A message in line is put behind the others. *)
Kept(n, s, m) ==
  /\ n \in Nat \ {0} /\ n \notin DOMAIN queue /\ DOMAIN queue' = DOMAIN queue \cup {n}
  /\ \A i \in DOMAIN queue : i < n /\ queue'[i] = queue[i]
  /\ queue'[n].m = m /\ queue'[n].sender = s
  /\ queue'[n].rem = Cardinality(DOMAIN sessions) - 1 /\ queue'[n].rem > 0
  /\ DOMAIN sessions' = DOMAIN sessions
  /\ \A x \in DOMAIN sessions :
       sessions'[x] = IF x # s /\ sessions[x] = 0 THEN m ELSE sessions[x]
  /\ \A x \in Session :
       /\ due'[x] = IF x \in DOMAIN sessions /\ x # s THEN Append(due[x], m) ELSE due[x]
       /\ write'[x] = IF x \in DOMAIN sessions /\ x # s /\ sessions[x] = 0
                      THEN [m |-> m, fate |-> "pending"] ELSE write[x]

LEMMA MessageKept ==
  ASSUME Plain, Right, NEW s \in DOMAIN sessions, NEW m \in 1..MaxLines, NEW inside \in BOOLEAN,
         Message(s, m, inside), Keeps
  PROVE  \E n : Kept(n, s, m)
<1>1. PICK c, e : /\ c = Cardinality(DOMAIN sessions)
                  /\ e = [m |-> m, sender |-> s, intact |-> inside, rem |-> Dec(c)]
                  /\ queue' = Append(queue, e)
  BY DEF Message
<1>2. /\ due' = [x \in Session |-> IF x \in DOMAIN sessions \ {s} THEN Append(due[x], m) ELSE due[x]]
      /\ sessions' = Assigned({x \in DOMAIN sessions \ {s} : sessions[x] = 0}, m)
      /\ write' = [x \in Session |-> IF x \in {y \in DOMAIN sessions \ {s} : sessions[y] = 0}
                                     THEN [m |-> m, fate |-> "pending"] ELSE write[x]]
  BY DEF Message, Send
<1>3. c \in Nat /\ c <= Sessions /\ c # 1 /\ c # 0
  <2>1. IsFiniteSet(DOMAIN sessions) /\ c \in Nat /\ c <= Sessions
    BY <1>1, SessionsFinite DEF Plain, SessionsPlain
  <2>2. c # 0
    BY <1>1, <2>1, FS_EmptySet
  <2>3. QED
    BY <1>1, <2>1, <2>2 DEF Keeps
<1>4. Dec(c) = c - 1 /\ c - 1 > 0
  <2>1. c \in 1..Wide
    BY <1>3, ChatAssumption
  <2>2. QED
    BY <1>3, <2>1, DecType
<1>5. /\ queue \in Seq(Entry) /\ DOMAIN queue = 1..Len(queue) /\ Len(queue) \in Nat
  BY DEF Plain, QueuePlain
<1>6. DOMAIN queue' = 1..Len(queue) + 1
      /\ \A i \in 1..Len(queue) + 1 : queue'[i] = IF i = Len(queue) + 1 THEN e ELSE queue[i]
  BY <1>1, <1>5
<1>7. /\ DOMAIN sessions' = DOMAIN sessions
      /\ \A x \in DOMAIN sessions :
           sessions'[x] = IF x # s /\ sessions[x] = 0 THEN m ELSE sessions[x]
  BY <1>2 DEF Assigned
<1>8. PICK n : n = Len(queue) + 1
  OBVIOUS
<1>9. /\ n \in Nat \ {0} /\ n \notin DOMAIN queue /\ DOMAIN queue' = DOMAIN queue \cup {n}
      /\ \A i \in DOMAIN queue : i < n /\ queue'[i] = queue[i]
      /\ queue'[n] = e
  BY <1>5, <1>6, <1>8
<1>10. queue'[n].m = m /\ queue'[n].sender = s /\ queue'[n].rem = c - 1 /\ c - 1 > 0
  BY <1>1, <1>4, <1>9
<1>11. Kept(n, s, m)
  BY <1>1, <1>2, <1>7, <1>9, <1>10 DEF Kept
<1>12. QED
  BY <1>11, Zenon

LEMMA MessageRunRight ==
  ASSUME Plain, Right, RunJob, NEW s \in Session, Job(1, "message", s),
         NEW m \in 1..MaxLines, m = strand[1].m, NEW inside \in BOOLEAN, Message(s, m, inside)
  PROVE  Right'
<1>1. /\ strand # << >> /\ strand' = Tail(strand) /\ 1 \in DOMAIN strand
      /\ UNCHANGED <<threads, life, orderly, lines, got>>
  BY HeadPlain DEF RunJob, Plain
<1>2. s \in DOMAIN sessions
  <2>1. MessageRight(1, s)
    BY <1>1 DEF Right, JobsRight
  <2>2. \A l \in DOMAIN strand : ~(l < 1)
    BY DEF Plain, StrandPlain
  <2>3. QED
    BY <2>1, <2>2 DEF MessageRight
<1>3. /\ m \in Nat \ {0} /\ m <= lines /\ \A i \in DOMAIN queue : queue[i].m < m
      /\ \A x \in Session : \A i \in DOMAIN due[x] : due[x][i] < m
      /\ \A k \in DOMAIN strand : k # 1 /\ strand[k].kind = "message" => m < strand[k].m
  <2>1. \A k \in DOMAIN strand : k # 1 => 1 < k
    BY DEF Plain, StrandPlain
  <2>2. QED
    BY <1>1, <2>1, ChatAssumption DEF Right, IdsRight, Job
<1>4. \A k \in DOMAIN strand' : k + 1 \in DOMAIN strand /\ strand'[k] = strand[k + 1] /\ k + 1 # 1
  BY <1>1, Popped DEF Plain, StrandPlain
<1>5. DOMAIN sessions' = DOMAIN sessions /\ \A x \in Session \ DOMAIN sessions : due'[x] = due[x]
  BY <1>2, MessageKept DEF Message, Kept
<1>6. MembersRight' /\ \A x \in DOMAIN sessions : Present(x) /\ x \in Session
  BY <1>1, <1>5, MembersKept
<1>7. ~crashed'
  BY <1>6 DEF Message, Present
<1>8. ASSUME NEW k \in DOMAIN strand, NEW x \in Session, Job(k, "written", x)
      PROVE  x \in DOMAIN sessions /\ sessions[x] # 0 /\ write[x].fate = "none"
  BY <1>8 DEF Right, JobsRight, WrittenRight, Plain, StrandPlain, Job
<1>9. \A x \in Session : ~Job(1, "written", x) /\ ~Job(1, "created", x)
  BY DEF Job
<1>10. CASE ~Keeps
  <2>1. UNCHANGED <<sessions, queue, write, due>>
    BY <1>10 DEF Message
  <2>2. IdsRight'
    <3>1. PICK f : Left(f, {}, {})
      BY <2>1, AllLeft
    <3>2. QED
      BY <1>1, <2>1, <3>1, IdsKept
  <2>3. JobsRight'
    BY <1>1, <1>8, <1>9, <2>1, JobsKept DEF Right, JobsRight, CreatedRight
  <2>4. WritesRight'
    BY <1>1, <1>4, <2>1 DEF Right, WritesRight, Present, Job
  <2>5. PointersRight' /\ CountsRight'
    BY <2>1 DEF Right, PointersRight, CountsRight, Waiting
  <2>6. \A x \in DOMAIN sessions : Place(x)' = Place(x) /\ Rest(x)' = Rest(x)
    <3>1. \A x \in DOMAIN sessions : Sent(x)' <=> Sent(x)
      BY <1>1, <1>6, <1>9, <2>1, SentKept
    <3>2. QED
      BY <1>1, <2>1, <3>1 DEF Place, Rest
  <2>7. DeliveryRight'
    BY <1>1, <2>1, <2>6 DEF Right, DeliveryRight, Delivered
  <2>8. QED
    BY <1>6, <1>7, <2>2, <2>3, <2>4, <2>5, <2>7 DEF Right
<1>11. CASE Keeps
  <2>1. PICK n : Kept(n, s, m)
    BY <1>2, <1>11, MessageKept
  <2>2. /\ n \in Nat \ {0} /\ n \notin DOMAIN queue /\ DOMAIN queue' = DOMAIN queue \cup {n}
        /\ \A i \in DOMAIN queue : i < n /\ i \in Nat /\ queue'[i] = queue[i]
        /\ queue'[n].m = m /\ queue'[n].sender = s
        /\ queue'[n].rem = Cardinality(DOMAIN sessions) - 1 /\ queue'[n].rem > 0
    BY <2>1, EntryType DEF Kept, Plain, QueuePlain
  <2>3. \A x \in DOMAIN sessions :
          sessions'[x] = IF x # s /\ sessions[x] = 0 THEN m ELSE sessions[x]
    BY <2>1 DEF Kept
  <2>4. \A x \in Session :
          write'[x] = IF x \in DOMAIN sessions /\ x # s /\ sessions[x] = 0
                      THEN [m |-> m, fate |-> "pending"] ELSE write[x]
    BY <2>1 DEF Kept
  <2>5. ASSUME NEW x \in DOMAIN sessions, x # s
        PROVE  /\ Len(due'[x]) = Len(due[x]) + 1 /\ DOMAIN due'[x] = 1..Len(due[x]) + 1
               /\ DOMAIN due[x] = 1..Len(due[x]) /\ Len(due[x]) \in Nat
               /\ \A i \in DOMAIN due[x] : due'[x][i] = due[x][i]
               /\ due'[x][Len(due[x]) + 1] = m
    <3>1. x \in Session /\ due'[x] = Append(due[x], m)
      BY <1>6, <2>1, <2>5 DEF Kept
    <3>2. due[x] \in Seq(1..MaxLines)
      BY <3>1, ListTypes DEF Plain
    <3>3. QED
      BY <3>1, <3>2
  <2>6. \A x \in Session : x \notin DOMAIN sessions \/ x = s => due'[x] = due[x]
    BY <2>1 DEF Kept
  <2>7. \A x \in Session : \A i \in DOMAIN due'[x] :
          due'[x][i] = m \/ (i \in DOMAIN due[x] /\ due'[x][i] = due[x][i])
    <3>1. ASSUME NEW x \in Session, NEW i \in DOMAIN due'[x]
          PROVE  due'[x][i] = m \/ (i \in DOMAIN due[x] /\ due'[x][i] = due[x][i])
      <4>1. CASE x \in DOMAIN sessions /\ x # s
        <5>1. i = Len(due[x]) + 1 \/ i \in DOMAIN due[x]
          BY <2>5, <4>1
        <5>2. QED
          BY <2>5, <4>1, <5>1
      <4>2. CASE x \notin DOMAIN sessions \/ x = s
        BY <2>6, <4>2
      <4>3. QED
        BY <4>1, <4>2
    <3>2. QED
      BY <3>1
  <2>8. IdsRight'
    <3>1. \A i, j \in DOMAIN queue' : i < j => queue'[i].m < queue'[j].m
      BY <1>3, <2>2 DEF Right, IdsRight
    <3>2. \A i \in DOMAIN queue' : queue'[i].m <= lines'
      BY <1>1, <1>3, <2>2 DEF Right, IdsRight
    <3>3. \A x \in Session : \A i \in DOMAIN due'[x] : due'[x][i] <= lines'
      BY <1>1, <1>3, <2>7 DEF Right, IdsRight
    <3>4. ASSUME NEW k \in DOMAIN strand', strand'[k].kind = "message"
          PROVE  /\ strand'[k].m <= lines'
                 /\ \A i \in DOMAIN queue' : queue'[i].m < strand'[k].m
                 /\ \A x \in Session : \A i \in DOMAIN due'[x] : due'[x][i] < strand'[k].m
                 /\ \A l \in DOMAIN strand' : l < k /\ strand'[l].kind = "message" =>
                      strand'[l].m < strand'[k].m
      <4>1. PICK z \in DOMAIN strand : z = k + 1 /\ strand'[k] = strand[z] /\ z # 1
        BY <1>4
      <4>2. /\ strand[z].m <= lines /\ m < strand[z].m
            /\ \A i \in DOMAIN queue : queue[i].m < strand[z].m
            /\ \A x \in Session : \A i \in DOMAIN due[x] : due[x][i] < strand[z].m
            /\ \A l \in DOMAIN strand : l < z /\ strand[l].kind = "message" =>
                 strand[l].m < strand[z].m
        BY <1>3, <3>4, <4>1 DEF Right, IdsRight
      <4>3. \A i \in DOMAIN queue' : queue'[i].m < strand'[k].m
        BY <2>2, <4>1, <4>2
      <4>4. \A x \in Session : \A i \in DOMAIN due'[x] : due'[x][i] < strand'[k].m
        BY <2>7, <4>1, <4>2
      <4>5. ASSUME NEW l \in DOMAIN strand', l < k, strand'[l].kind = "message"
            PROVE  strand'[l].m < strand'[k].m
        <5>1. l \in Nat /\ k \in Nat
          BY <1>1, Popped DEF Plain, StrandPlain
        <5>2. l + 1 \in DOMAIN strand /\ l + 1 < z /\ strand'[l] = strand[l + 1]
          BY <1>4, <4>1, <4>5, <5>1
        <5>3. QED
          BY <4>1, <4>2, <4>5, <5>2
      <4>6. QED
        BY <1>1, <4>1, <4>2, <4>3, <4>4, <4>5
    <3>5. QED
      BY <3>1, <3>2, <3>3, <3>4 DEF IdsRight
  <2>9. JobsRight'
    <3>1. ASSUME NEW k \in DOMAIN strand, NEW x \in Session, k # 1
          PROVE  /\ Job(k, "created", x) => x \notin DOMAIN sessions'
                 /\ Job(k, "message", x) /\ x \in DOMAIN sessions => x \in DOMAIN sessions'
                 /\ Job(k, "written", x) =>
                      x \in DOMAIN sessions' /\ sessions'[x] = sessions[x] /\ write'[x].fate = "none"
      <4>1. Job(k, "created", x) => x \notin DOMAIN sessions
        BY DEF Right, JobsRight, CreatedRight
      <4>2. Job(k, "written", x) =>
              x \in DOMAIN sessions' /\ sessions'[x] = sessions[x] /\ write'[x].fate = "none"
        BY <1>5, <1>8, <2>3, <2>4
      <4>3. QED
        BY <1>5, <4>1, <4>2
    <3>2. QED
      BY <1>1, <1>9, <3>1, JobsKept
  <2>10. WritesRight'
    <3>1. ASSUME NEW x \in Session, write'[x].fate # "none"
          PROVE  /\ Present(x)' /\ x \in DOMAIN sessions' /\ sessions'[x] = write'[x].m
                 /\ \A k \in DOMAIN strand' : ~Job(k, "written", x)'
      <4>1. CASE x \in DOMAIN sessions /\ x # s /\ sessions[x] = 0
        <5>1. /\ Present(x)' /\ x \in DOMAIN sessions' /\ sessions'[x] = m /\ write'[x].m = m
          BY <1>1, <1>5, <1>6, <2>3, <2>4, <4>1 DEF Present
        <5>2. \A k \in DOMAIN strand' : ~Job(k, "written", x)'
          BY <1>4, <1>8, <4>1 DEF Job
        <5>3. QED
          BY <5>1, <5>2
      <4>2. CASE ~(x \in DOMAIN sessions /\ x # s /\ sessions[x] = 0)
        <5>1. write'[x] = write[x]
          BY <2>4, <4>2
        <5>2. /\ Present(x) /\ x \in DOMAIN sessions /\ sessions[x] = write[x].m
              /\ \A k \in DOMAIN strand : ~Job(k, "written", x)
          BY <3>1, <5>1 DEF Right, WritesRight
        <5>3. sessions'[x] = sessions[x]
          BY <2>3, <4>2, <5>2
        <5>4. QED
          BY <1>1, <1>4, <1>5, <5>1, <5>2, <5>3 DEF Present, Job
      <4>3. QED
        BY <4>1, <4>2
    <3>2. QED
      BY <3>1 DEF WritesRight
  <2>11. PointersRight'
    <3>1. ASSUME NEW x \in DOMAIN sessions', sessions'[x] # 0
          PROVE  \E i \in DOMAIN queue' : queue'[i].m = sessions'[x] /\ queue'[i].sender # x
      <4>1. x \in DOMAIN sessions
        BY <1>5
      <4>2. CASE x # s /\ sessions[x] = 0
        BY <2>2, <2>3, <4>1, <4>2
      <4>3. CASE ~(x # s /\ sessions[x] = 0)
        <5>1. sessions'[x] = sessions[x]
          BY <2>3, <4>1, <4>3
        <5>2. PICK i \in DOMAIN queue : queue[i].m = sessions[x] /\ queue[i].sender # x
          BY <3>1, <4>1, <5>1 DEF Right, PointersRight
        <5>3. QED
          BY <2>2, <5>1, <5>2
      <4>4. QED
        BY <4>2, <4>3
    <3>2. QED
      BY <3>1 DEF PointersRight
  <2>12. CountsRight'
    <3>1. ASSUME NEW i \in DOMAIN queue
          PROVE  Waiting(sessions', queue[i]) = Waiting(sessions, queue[i])
      <4>1. queue[i].m \in Nat /\ ~(m <= queue[i].m)
        BY <1>3, EntryType DEF Plain, QueuePlain
      <4>2. QED
        BY <1>3, <1>5, <2>3, <4>1 DEF Waiting
    <3>2. Waiting(sessions', queue'[n]) = DOMAIN sessions \ {s}
      <4>1. ASSUME NEW x \in DOMAIN sessions, x # s
            PROVE  sessions'[x] # 0 /\ sessions'[x] <= m
        <5>1. CASE sessions[x] = 0
          BY <1>3, <2>3, <4>1, <5>1
        <5>2. CASE sessions[x] # 0
          <6>1. PICK i \in DOMAIN queue : queue[i].m = sessions[x]
            BY <5>2 DEF Right, PointersRight
          <6>2. queue[i].m < m /\ queue[i].m \in Nat
            BY <1>3, EntryType DEF Plain, QueuePlain
          <6>3. QED
            BY <1>3, <2>3, <5>2, <6>1, <6>2
        <5>3. QED
          BY <5>1, <5>2
      <4>2. QED
        BY <1>5, <2>2, <4>1 DEF Waiting
    <3>3. Cardinality(DOMAIN sessions \ {s}) = Cardinality(DOMAIN sessions) - 1
      <4>1. IsFiniteSet(DOMAIN sessions)
        BY SessionsFinite DEF Plain, SessionsPlain
      <4>2. QED
        BY <1>2, <4>1, FS_RemoveElement
    <3>4. ASSUME NEW i \in DOMAIN queue'
          PROVE  queue'[i].rem = Cardinality(Waiting(sessions', queue'[i])) /\ queue'[i].rem > 0
      <4>1. CASE i = n
        BY <2>2, <3>2, <3>3, <4>1
      <4>2. CASE i # n
        BY <2>2, <3>1, <4>2 DEF Right, CountsRight
      <4>3. QED
        BY <4>1, <4>2
    <3>5. QED
      BY <3>4 DEF CountsRight
  <2>13. ASSUME NEW x \in DOMAIN sessions, x # s, sessions[x] = 0
         PROVE  Delivered(x)'
    <3>1. /\ Len(got[x]) = Len(due[x]) /\ \A i \in DOMAIN got[x] : got[x][i] = due[x][i]
          /\ \A i, j \in DOMAIN due[x] : i < j => due[x][i] < due[x][j]
          /\ DOMAIN got[x] = 1..Len(got[x])
      BY <1>6, <2>13, ListTypes DEF Right, DeliveryRight, Delivered, Plain
    <3>2. sessions'[x] = m /\ write'[x].fate = "pending"
      BY <1>6, <2>3, <2>4, <2>13
    <3>3. ~Sent(x)'
      BY <1>4, <1>6, <1>8, <2>13, <3>2 DEF Sent, Job
    <3>4. Place(x)' = Len(due[x]) + 1
      BY <1>1, <3>1, <3>3 DEF Place
    <3>5. Rest(x)' = {}
      <4>1. \A i \in DOMAIN queue' : ~(queue'[i].m > m)
        BY <1>3, <2>2, EntryType DEF Plain, QueuePlain
      <4>2. QED
        BY <3>2, <4>1 DEF Rest
    <3>6. {due'[x][i] : i \in {k \in DOMAIN due'[x] : k > Len(due[x]) + 1}} = {}
      BY <2>5, <2>13
    <3>7. \A i, j \in DOMAIN due'[x] : i < j => due'[x][i] < due'[x][j]
      BY <1>3, <1>6, <2>5, <2>13, <3>1
    <3>8. Len(got'[x]) <= Len(due'[x]) /\ \A i \in DOMAIN got'[x] : got'[x][i] = due'[x][i]
      BY <1>1, <2>5, <2>13, <3>1
    <3>9. QED
      BY <1>3, <2>5, <2>13, <3>2, <3>4, <3>5, <3>6, <3>7, <3>8 DEF Delivered
  <2>14. ASSUME NEW x \in DOMAIN sessions, x # s, sessions[x] # 0
         PROVE  Delivered(x)'
    <3>1. PICK p : /\ p = Place(x) /\ p \in DOMAIN due[x] /\ due[x][p] = sessions[x]
                   /\ {due[x][i] : i \in {k \in DOMAIN due[x] : k > p}} = Rest(x)
                   /\ Len(got[x]) <= Len(due[x]) /\ \A i \in DOMAIN got[x] : got[x][i] = due[x][i]
                   /\ \A i, j \in DOMAIN due[x] : i < j => due[x][i] < due[x][j]
      BY <2>14 DEF Right, DeliveryRight, Delivered
    <3>2. sessions'[x] = sessions[x] /\ write'[x] = write[x]
      BY <1>6, <2>3, <2>4, <2>14
    <3>3. Place(x)' = p
      <4>1. Sent(x)' <=> Sent(x)
        BY <1>1, <1>6, <1>9, <3>2, SentKept
      <4>2. QED
        BY <1>1, <3>1, <4>1 DEF Place
    <3>4. DOMAIN got[x] = 1..Len(got[x]) /\ Len(got[x]) \in Nat
      BY <1>6, ListTypes DEF Plain
    <3>5. sessions[x] < m
      BY <1>3, <1>6, <3>1
    <3>6. Rest(x)' = Rest(x) \cup {m}
      BY <2>2, <2>14, <3>2, <3>5 DEF Rest
    <3>7. {due'[x][i] : i \in {k \in DOMAIN due'[x] : k > p}}
            = {due[x][i] : i \in {k \in DOMAIN due[x] : k > p}} \cup {m}
      BY <2>5, <2>14, <3>1
    <3>8. \A i, j \in DOMAIN due'[x] : i < j => due'[x][i] < due'[x][j]
      BY <1>3, <1>6, <2>5, <2>14, <3>1
    <3>9. Len(got'[x]) <= Len(due'[x]) /\ \A i \in DOMAIN got'[x] : got'[x][i] = due'[x][i]
      BY <1>1, <2>5, <2>14, <3>1, <3>4
    <3>10. p \in DOMAIN due'[x] /\ due'[x][p] = sessions'[x]
      BY <2>5, <2>14, <3>1, <3>2
    <3>11. {due'[x][i] : i \in {k \in DOMAIN due'[x] : k > p}} = Rest(x)'
      BY <3>1, <3>6, <3>7
    <3>12. QED
      BY <2>14, <3>2, <3>3, <3>8, <3>9, <3>10, <3>11 DEF Delivered
  <2>15. Delivered(s)'
    <3>1. Delivered(s)
      BY <1>2 DEF Right, DeliveryRight
    <3>2. sessions'[s] = sessions[s] /\ write'[s] = write[s] /\ due'[s] = due[s] /\ got'[s] = got[s]
      BY <1>1, <1>2, <2>3, <2>4, <2>6
    <3>3. Place(s)' = Place(s)
      <4>1. Sent(s)' <=> Sent(s)
        BY <1>1, <1>9, <3>2, SentKept
      <4>2. QED
        BY <3>2, <4>1 DEF Place
    <3>4. Rest(s)' = Rest(s)
      BY <2>2, <3>2 DEF Rest
    <3>5. QED
      BY <3>1, <3>2, <3>3, <3>4 DEF Delivered
  <2>16. DeliveryRight'
    BY <1>5, <2>13, <2>14, <2>15 DEF DeliveryRight
  <2>17. QED
    BY <1>6, <1>7, <2>8, <2>9, <2>10, <2>11, <2>12, <2>16 DEF Right
<1>12. QED
  BY <1>10, <1>11

(* Entry i has lost one receiver, and is gone with the last. *)
Passed(f, i) ==
  \E gone, l \in SUBSET {i} :
    /\ Left(f, gone, l) /\ gone \cup l = {i}
    /\ \A p \in gone : queue[p].rem = 1
    /\ \A p \in l : queue[p].rem > 1

LEMMA EntryDone ==
  ASSUME Plain, Right, NEW i \in DOMAIN queue,
         NEW less, less = [queue EXCEPT ![i] = Decremented(@)],
         queue' = IF less[i].rem = 0 THEN RemoveAt(queue, i) ELSE less
  PROVE  \E f : Passed(f, i)
<1>1. queue \in Seq(Entry) /\ DOMAIN queue = 1..Len(queue) /\ Len(queue) \in Nat
  BY EntryType DEF Plain, QueuePlain
<1>2. /\ \A k \in DOMAIN queue : queue[k] \in Entry /\ queue[k].rem \in Nat
      /\ queue[i].rem \in 1..Wide
  <2>1. /\ \A k \in DOMAIN queue : queue[k] \in Entry /\ queue[k].rem \in Nat
        /\ queue[i].rem \in 0..(Wide - 1) /\ queue[i].rem > 0
    BY <1>1, EntryType DEF Right, CountsRight
  <2>2. QED
    BY <2>1, ChatAssumption
<1>3. /\ less \in Seq(Entry) /\ Len(less) = Len(queue) /\ less[i] = Decremented(queue[i])
      /\ \A k \in DOMAIN queue : k # i => less[k] = queue[k]
  BY <1>1, EntryLess
<1>4. \A e \in Entry : /\ Decremented(e).m = e.m /\ Decremented(e).sender = e.sender
                       /\ e.rem \in 1..Wide => Decremented(e).rem = e.rem - 1
  BY DecType, ChatAssumption DEF Entry, Decremented
<1>5. /\ less[i].m = queue[i].m /\ less[i].sender = queue[i].sender
      /\ less[i].rem = queue[i].rem - 1
  <2>1. PICK e \in Entry : e = queue[i]
    BY <1>2
  <2>2. e.rem \in 1..Wide
    BY <1>2, <2>1
  <2>3. Decremented(e).m = e.m /\ Decremented(e).sender = e.sender /\ Decremented(e).rem = e.rem - 1
    BY <1>4, <2>2, Zenon
  <2>4. QED
    BY <1>3, <2>1, <2>3
<1>6. CASE queue[i].rem = 1
  <2>1. queue' = RemoveAt(queue, i)
    BY <1>5, <1>6
  <2>2. /\ queue' \in Seq(Entry) /\ Len(queue') = Len(queue) - 1
        /\ \A k \in 1..Len(queue) - 1 : queue'[k] = IF k < i THEN queue[k] ELSE queue[k + 1]
    BY <1>1, <2>1, EntryRemoved
  <2>3. DOMAIN queue' = 1..Len(queue) - 1
    <3>1. \A q \in Seq(Entry) : DOMAIN q = 1..Len(q)
      OBVIOUS
    <3>2. QED
      BY <2>2, <3>1, Zenon
  <2> DEFINE f == [k \in DOMAIN queue' |-> IF k < i THEN k ELSE k + 1]
  <2>4. \A k \in DOMAIN queue' : k \in Nat /\ f[k] = IF k < i THEN k ELSE k + 1
    BY <1>1, <2>3
  <2> HIDE DEF f
  <2>5. ASSUME NEW k \in DOMAIN queue'
        PROVE  f[k] \in DOMAIN queue \ {i} /\ queue'[k] = queue[f[k]]
    <3>1. PICK p : p = f[k]
      OBVIOUS
    <3>2. p = IF k < i THEN k ELSE k + 1
      BY <2>4, <3>1
    <3>3. k \in 1..Len(queue) - 1 /\ i \in 1..Len(queue)
      BY <1>1, <2>3
    <3>4. p \in 1..Len(queue) /\ p # i
      BY <1>1, <3>2, <3>3
    <3>5. queue'[k] = queue[p]
      <4>1. queue'[k] = IF k < i THEN queue[k] ELSE queue[k + 1]
        BY <2>2, <3>3
      <4>2. QED
        BY <3>2, <4>1
    <3>6. QED
      BY <1>1, <3>1, <3>4, <3>5
  <2>6. \A k, l \in DOMAIN queue' : k < l => f[k] < f[l]
    BY <1>1, <2>4
  <2>7. ASSUME NEW p \in DOMAIN queue \ {i} PROVE \E k \in DOMAIN queue' : f[k] = p
    <3>1. CASE p < i
      <4>1. p \in DOMAIN queue'
        BY <1>1, <2>3, <3>1
      <4>2. QED
        BY <2>4, <3>1, <4>1
    <3>2. CASE ~(p < i)
      <4>1. p - 1 \in DOMAIN queue' /\ ~(p - 1 < i) /\ p - 1 + 1 = p
        BY <1>1, <2>3, <3>2
      <4>2. QED
        BY <2>4, <4>1
    <3>3. QED
      BY <3>1, <3>2
  <2>8. Left(f, {i}, {})
    BY <2>5, <2>7, <2>6 DEF Left
  <2>9. Passed(f, i)
    BY <1>6, <2>8 DEF Passed
  <2>10. QED
    BY <2>9, Zenon
<1>7. CASE queue[i].rem # 1
  <2>1. queue' = less /\ DOMAIN queue' = DOMAIN queue /\ queue[i].rem > 1
    BY <1>1, <1>2, <1>3, <1>5, <1>7
  <2> DEFINE f == [k \in DOMAIN queue |-> k]
  <2>2. \A k \in DOMAIN queue' : f[k] = k
    BY <2>1
  <2>3. Left(f, {}, {i})
    <3> HIDE DEF f
    <3>1. QED
      BY <1>3, <1>5, <2>1, <2>2 DEF Left
  <2> HIDE DEF f
  <2>4. Passed(f, i)
    BY <2>1, <2>3 DEF Passed
  <2>5. QED
    BY <2>4, Zenon
<1>8. QED
  BY <1>6, <1>7

(* The message that comes next for s: the first one behind entry i that is *)
(* not its own, or none.                                                   *)
NextFor(s, i, next) ==
  \/ next = 0 /\ \A p \in DOMAIN queue : p > i => queue[p].sender = s
  \/ \E j \in DOMAIN queue :
       /\ next = queue[j].m /\ j > i /\ queue[j].sender # s
       /\ \A p \in DOMAIN queue : p > i /\ queue[p].sender # s => j <= p

LEMMA WrittenNext ==
  ASSUME Plain, NEW s \in DOMAIN sessions, NEW m, Written(s, m), Queued(m),
         write[s].fate = "none"
  PROVE  \E next :
           /\ NextFor(s, Index(m), next) /\ next \in Nat
           /\ DOMAIN sessions' = DOMAIN sessions /\ sessions'[s] = next
           /\ \A x \in DOMAIN sessions : x # s => sessions'[x] = sessions[x]
           /\ \A x \in Session : x # s => write'[x] = write[x]
           /\ write'[s] = IF next = 0 THEN write[s] ELSE [m |-> next, fate |-> "pending"]
<1>1. /\ queue \in Seq(Entry) /\ DOMAIN queue = 1..Len(queue) /\ Len(queue) \in Nat
      /\ Index(m) \in DOMAIN queue /\ s \in Session
      /\ \A p \in DOMAIN queue : queue[p].m \in Nat \ {0}
  BY IndexFound, EntryType DEF Plain, QueuePlain, SessionsPlain
<1>2. \A p \in DOMAIN queue : p \in Later(s, m) <=> p > Index(m) /\ queue[p].sender # s
  BY <1>1 DEF Later
<1>3. CASE Later(s, m) = {}
  <2>1. sessions' = Assigned({s}, 0) /\ UNCHANGED write
    BY <1>3 DEF Written
  <2>2. NextFor(s, Index(m), 0)
    BY <1>2, <1>3 DEF NextFor
  <2>3. QED
    BY <2>1, <2>2 DEF Assigned
<1>4. CASE Later(s, m) # {}
  <2>1. PICK j : /\ j = CHOOSE first \in Later(s, m) : \A k \in Later(s, m) : first <= k
                 /\ Send({s}, queue[j].m)
    BY <1>4 DEF Written
  <2>2. /\ j \in Later(s, m) /\ \A k \in Later(s, m) : j <= k
        /\ j \in DOMAIN queue /\ j > Index(m) /\ queue[j].sender # s
    BY <1>1, <1>4, <2>1, NextLater
  <2>3. PICK next : next = queue[j].m
    OBVIOUS
  <2>4. NextFor(s, Index(m), next) /\ next \in Nat \ {0}
    BY <1>1, <1>2, <2>2, <2>3 DEF NextFor
  <2>5. /\ sessions' = Assigned({s}, next)
        /\ write' = [x \in Session |-> IF x \in {s} THEN [m |-> next, fate |-> "pending"]
                                       ELSE write[x]]
    BY <2>1, <2>3 DEF Send
  <2>6. /\ DOMAIN sessions' = DOMAIN sessions /\ sessions'[s] = next
        /\ \A x \in DOMAIN sessions : x # s => sessions'[x] = sessions[x]
    BY <2>5 DEF Assigned
  <2>7. /\ \A x \in Session : x # s => write'[x] = write[x]
        /\ write'[s] = [m |-> next, fate |-> "pending"]
    BY <1>1, <2>5
  <2>8. QED
    BY <2>4, <2>6, <2>7
<1>5. QED
  BY <1>3, <1>4

LEMMA WrittenRunRight ==
  ASSUME Plain, Right, RunJob, NEW s \in Session, Job(1, "written", s),
         NEW m \in 1..MaxLines, m = strand[1].m, Written(s, m)
  PROVE  Right'
<1>1. /\ strand # << >> /\ strand' = Tail(strand) /\ 1 \in DOMAIN strand
      /\ UNCHANGED <<threads, life, orderly, lines, got>>
  BY HeadPlain DEF RunJob, Plain
<1>2. /\ Present(s) /\ s \in DOMAIN sessions /\ sessions[s] = m /\ write[s].fate = "none"
      /\ \A k \in DOMAIN strand : Job(k, "written", s) => k = 1
  BY <1>1 DEF Right, JobsRight, WrittenRight
<1>3. m \in Nat /\ m # 0
  BY ChatAssumption
<1>4. PICK i \in DOMAIN queue : queue[i].m = m /\ queue[i].sender # s
  BY <1>2, <1>3 DEF Right, PointersRight
<1>5. Index(m) = i /\ Queued(m)
  BY <1>4, IndexIs DEF Plain, QueuePlain
<1>6. \A p \in DOMAIN queue : /\ p \in Nat /\ queue[p].m \in Nat \ {0}
                              /\ (p > i <=> queue[p].m > m)
  <2>1. ASSUME NEW p \in DOMAIN queue
        PROVE  p \in Nat /\ queue[p].m \in Nat \ {0} /\ (p > i <=> queue[p].m > m)
    <3>1. p \in Nat /\ i \in Nat /\ queue[p].m \in Nat \ {0}
      BY EntryType DEF Plain, QueuePlain
    <3>2. CASE p > i
      <4>1. queue[i].m < queue[p].m
        BY <3>1, <3>2 DEF Right, IdsRight
      <4>2. QED
        BY <1>3, <1>4, <3>1, <3>2, <4>1
    <3>3. CASE p = i
      BY <1>3, <1>4, <3>1, <3>3
    <3>4. CASE p < i
      <4>1. queue[p].m < queue[i].m
        BY <3>4 DEF Right, IdsRight
      <4>2. QED
        BY <1>3, <1>4, <3>1, <3>4, <4>1
    <3>5. QED
      BY <3>1, <3>2, <3>3, <3>4
  <2>2. QED
    BY <2>1
<1>7. ~crashed' /\ UNCHANGED due
  BY <1>2, <1>5 DEF Written, Present
<1>8. PICK next :
        /\ NextFor(s, i, next) /\ next \in Nat
        /\ DOMAIN sessions' = DOMAIN sessions /\ sessions'[s] = next
        /\ \A x \in DOMAIN sessions : x # s => sessions'[x] = sessions[x]
        /\ \A x \in Session : x # s => write'[x] = write[x]
        /\ write'[s] = IF next = 0 THEN write[s] ELSE [m |-> next, fate |-> "pending"]
  BY <1>2, <1>5, WrittenNext
<1>9. next # 0 => \E j \in DOMAIN queue :
        /\ next = queue[j].m /\ j > i /\ queue[j].sender # s
        /\ \A p \in DOMAIN queue : p > i /\ queue[p].sender # s => j <= p
  BY <1>8 DEF NextFor
<1>10. next = 0 => \A p \in DOMAIN queue : p > i => queue[p].sender = s
  BY <1>6, <1>8 DEF NextFor
<1>11. PICK f : Passed(f, i)
  <2>1. PICK less : /\ less = [queue EXCEPT ![i] = Decremented(@)]
                    /\ queue' = IF less[i].rem = 0 THEN RemoveAt(queue, i) ELSE less
    BY <1>5 DEF Written
  <2>2. QED
    BY <2>1, EntryDone, Zenon
<1>12. PICK gone, l \in SUBSET {i} :
          /\ Left(f, gone, l) /\ gone \cup l = {i}
          /\ \A p \in gone : queue[p].rem = 1
          /\ \A p \in l : queue[p].rem > 1
  BY <1>11 DEF Passed
<1>13. \A p \in DOMAIN queue : s \in Waiting(sessions, queue[p]) <=> queue[p].sender # s /\ p >= i
  <2>1. \A p \in DOMAIN queue : p >= i <=> m <= queue[p].m
    <3>1. ASSUME NEW p \in DOMAIN queue, p # i PROVE queue[p].m # m
      <4>1. i \in Nat /\ p \in Nat
        BY <1>6
      <4>2. queue[p].m < queue[i].m \/ queue[i].m < queue[p].m
        BY <3>1, <4>1 DEF Right, IdsRight
      <4>3. QED
        BY <1>3, <1>4, <1>6, <4>2
    <3>2. QED
      BY <1>3, <1>4, <1>6, <3>1
  <2>2. QED
    BY <1>2, <1>3, <2>1 DEF Waiting
<1>14. Served(s, gone, l)
  <2>1. \A p \in gone \cup l : s \in Waiting(sessions, queue[p])
    BY <1>4, <1>6, <1>12, <1>13
  <2>2. ASSUME NEW p \in DOMAIN queue \ gone
        PROVE  s \in Waiting(sessions', queue[p]) <=> s \in Waiting(sessions, queue[p]) /\ p \notin l
    <3>1. s \in Waiting(sessions, queue[p]) /\ p \notin l <=> queue[p].sender # s /\ p > i
      BY <1>6, <1>12, <1>13, <2>2
    <3>2. CASE next = 0
      BY <1>8, <1>10, <3>1, <3>2 DEF Waiting
    <3>3. CASE next # 0
      <4>1. PICK j \in DOMAIN queue :
              /\ next = queue[j].m /\ j > i /\ queue[j].sender # s
              /\ \A q \in DOMAIN queue : q > i /\ queue[q].sender # s => j <= q
        BY <1>9, <3>3
      <4>2. s \in Waiting(sessions', queue[p]) <=> queue[p].sender # s /\ queue[j].m <= queue[p].m
        BY <1>2, <1>8, <3>3, <4>1 DEF Waiting
      <4>3. queue[j].m <= queue[p].m <=> j <= p
        BY <1>6 DEF Right, IdsRight
      <4>4. queue[p].sender # s => (j <= p <=> p > i)
        BY <1>6, <4>1
      <4>5. QED
        BY <3>1, <4>2, <4>3, <4>4
    <3>4. QED
      BY <3>2, <3>3
  <2>3. sessions'[s] # 0 =>
          \E p \in DOMAIN queue \ gone : queue[p].m = sessions'[s] /\ queue[p].sender # s
    BY <1>6, <1>8, <1>9, <1>12
  <2>4. QED
    BY <1>2, <1>8, <1>12, <2>1, <2>2, <2>3 DEF Served
<1>15. gone \in SUBSET (DOMAIN queue) /\ l \in SUBSET (DOMAIN queue)
  BY <1>12
<1>16. /\ PointersRight' /\ CountsRight'
       /\ \A x \in DOMAIN sessions : x # s /\ sessions[x] # 0 => Rest(x)' = Rest(x)
  BY <1>12, <1>14, <1>15, ServedRight
<1>17. IdsRight'
  BY <1>1, <1>7, <1>12, IdsKept
<1>18. MembersRight' /\ \A x \in DOMAIN sessions : Present(x) /\ x \in Session
  BY <1>1, <1>7, <1>8, MembersKept
<1>19. \A k \in DOMAIN strand' : k + 1 \in DOMAIN strand /\ strand'[k] = strand[k + 1] /\ k + 1 # 1
  BY <1>1, Popped DEF Plain, StrandPlain
<1>20. JobsRight'
  <2>1. ASSUME NEW k \in DOMAIN strand, NEW x \in Session, k # 1
        PROVE  /\ Job(k, "created", x) => x \notin DOMAIN sessions'
               /\ Job(k, "message", x) /\ x \in DOMAIN sessions => x \in DOMAIN sessions'
               /\ Job(k, "written", x) =>
                    x \in DOMAIN sessions' /\ sessions'[x] = sessions[x] /\ write'[x].fate = "none"
    <3>1. Job(k, "created", x) => x \notin DOMAIN sessions
      BY DEF Right, JobsRight, CreatedRight
    <3>2. Job(k, "written", x) => x \in DOMAIN sessions /\ write[x].fate = "none" /\ x # s
      BY <1>2, <2>1 DEF Right, JobsRight, WrittenRight
    <3>3. QED
      BY <1>8, <3>1, <3>2
  <2>2. \A x \in Session : ~Job(1, "created", x)
    BY DEF Job
  <2>3. QED
    BY <1>1, <2>1, <2>2, JobsKept
<1>21. \A k \in DOMAIN strand' : ~Job(k, "written", s)'
  BY <1>2, <1>19 DEF Job
<1>22. WritesRight'
  <2>1. ASSUME NEW x \in Session, write'[x].fate # "none"
        PROVE  /\ Present(x)' /\ x \in DOMAIN sessions' /\ sessions'[x] = write'[x].m
               /\ \A k \in DOMAIN strand' : ~Job(k, "written", x)'
    <3>1. CASE x = s
      BY <1>1, <1>2, <1>8, <1>21, <2>1, <3>1 DEF Present
    <3>2. CASE x # s
      <4>1. /\ Present(x) /\ x \in DOMAIN sessions /\ sessions[x] = write[x].m
            /\ \A k \in DOMAIN strand : ~Job(k, "written", x)
        BY <1>8, <2>1, <3>2 DEF Right, WritesRight
      <4>2. QED
        BY <1>1, <1>8, <1>19, <3>2, <4>1 DEF Present, Job
    <3>3. QED
      BY <3>1, <3>2
  <2>2. QED
    BY <2>1 DEF WritesRight
<1>23. ASSUME NEW x \in DOMAIN sessions, x # s PROVE Delivered(x)'
  <2>1. x \in Session /\ sessions'[x] = sessions[x] /\ write'[x] = write[x] /\ Delivered(x)
    BY <1>8, <1>18, <1>23 DEF Right, DeliveryRight
  <2>2. Sent(x)' <=> Sent(x)
    <3>1. ~Job(1, "written", x)
      BY <1>23 DEF Job
    <3>2. QED
      BY <1>1, <2>1, <3>1, SentKept
  <2>3. sessions[x] # 0 => Place(x)' = Place(x) /\ Rest(x)' = Rest(x)
    BY <1>1, <1>16, <1>23, <2>2 DEF Place
  <2>4. QED
    BY <1>1, <1>7, <2>1, <2>3 DEF Delivered
<1>24. Delivered(s)'
  <2>1. PICK n : n = Len(got[s])
    OBVIOUS
  <2>2. /\ n \in DOMAIN due[s] /\ due[s][n] = m /\ n <= Len(due[s])
        /\ {due[s][k] : k \in {k \in DOMAIN due[s] : k > n}} = Rest(s)
        /\ \A k \in DOMAIN got[s] : got[s][k] = due[s][k]
        /\ \A k, p \in DOMAIN due[s] : k < p => due[s][k] < due[s][p]
    <3>1. Place(s) = n
      BY <1>1, <2>1 DEF Place, Sent
    <3>2. Delivered(s)
      BY <1>2 DEF Right, DeliveryRight
    <3>3. QED
      BY <1>2, <1>3, <2>1, <3>1, <3>2 DEF Delivered
  <2>3. /\ DOMAIN due[s] = 1..Len(due[s]) /\ Len(due[s]) \in Nat /\ n \in Nat
        /\ \A k \in DOMAIN due[s] : due[s][k] \in Nat /\ k \in Nat
    BY <2>1, ListTypes DEF Plain
  <2>4. Rest(s) = {queue[p].m : p \in {q \in DOMAIN queue : queue[q].sender # s /\ q > i}}
    BY <1>2, <1>6 DEF Rest
  <2>5. CASE next = 0
    <3>1. Rest(s) = {}
      BY <1>10, <2>4, <2>5
    <3>2. ~(n < Len(due[s]))
      <4>1. SUFFICES ASSUME n < Len(due[s]) PROVE FALSE
        OBVIOUS
      <4>2. Len(due[s]) \in DOMAIN due[s] /\ Len(due[s]) > n
        BY <2>3, <4>1
      <4>3. QED
        BY <2>2, <3>1, <4>2
    <3>3. n = Len(due[s])
      BY <2>2, <2>3, <3>2
    <3>4. QED
      BY <1>1, <1>7, <1>8, <2>1, <2>2, <2>5, <3>3 DEF Delivered
  <2>6. CASE next # 0
    <3>1. PICK j \in DOMAIN queue :
            /\ next = queue[j].m /\ j > i /\ queue[j].sender # s
            /\ \A q \in DOMAIN queue : q > i /\ queue[q].sender # s => j <= q
      BY <1>9, <2>6
    <3>2. next \in Rest(s) /\ \A y \in Rest(s) : y \in Nat /\ next <= y
      <4>1. next \in Rest(s)
        BY <2>4, <3>1
      <4>2. ASSUME NEW q \in DOMAIN queue, queue[q].sender # s, q > i
            PROVE  queue[q].m \in Nat /\ next <= queue[q].m
        <5>1. j <= q /\ j \in Nat /\ q \in Nat /\ queue[q].m \in Nat /\ queue[j].m \in Nat
          BY <1>6, <3>1, <4>2
        <5>2. j = q \/ queue[j].m < queue[q].m
          BY <5>1 DEF Right, IdsRight
        <5>3. QED
          BY <3>1, <5>1, <5>2
      <4>3. QED
        BY <2>4, <4>1, <4>2
    <3>3. PICK k \in DOMAIN due[s] : k > n /\ due[s][k] = next
      BY <2>2, <3>2
    <3>4. n + 1 \in DOMAIN due[s] /\ n + 1 <= k /\ n + 1 > n
      BY <2>3, <3>3
    <3>5. due[s][n + 1] \in Rest(s)
      BY <2>2, <3>4
    <3>6. due[s][n + 1] = next
      <4>1. due[s][n + 1] <= due[s][k]
        BY <2>2, <2>3, <3>3, <3>4
      <4>2. next <= due[s][n + 1]
        BY <3>2, <3>5
      <4>3. QED
        BY <1>8, <2>3, <3>3, <3>4, <4>1, <4>2
    <3>7. Place(s)' = n + 1
      <4>1. ~Sent(s)'
        BY <1>8, <1>21, <2>6 DEF Sent
      <4>2. QED
        BY <1>1, <2>1, <4>1 DEF Place
    <3>8. Rest(s)' = {queue[p].m : p \in {q \in DOMAIN queue : queue[q].sender # s /\ queue[q].m > next}}
      <4>1. queue[i].m < next
        BY <1>4, <1>6, <3>1
      <4>2. ASSUME NEW y \in Rest(s)'
            PROVE  \E q \in DOMAIN queue : queue[q].sender # s /\ queue[q].m > next /\ queue[q].m = y
        <5>1. PICK q \in DOMAIN queue' :
                queue'[q].m = y /\ queue'[q].sender # s /\ queue'[q].m > sessions'[s]
          BY <4>2 DEF Rest
        <5>2. f[q] \in DOMAIN queue /\ queue'[q].m = queue[f[q]].m /\ queue'[q].sender = queue[f[q]].sender
          BY <1>12 DEF Left
        <5>3. QED
          BY <1>8, <5>1, <5>2
      <4>3. ASSUME NEW q \in DOMAIN queue, queue[q].sender # s, queue[q].m > next
            PROVE  queue[q].m \in Rest(s)'
        <5>1. q \in DOMAIN queue \ gone
          <6>1. queue[i].m \in Nat /\ queue[q].m \in Nat
            BY <1>6
          <6>2. q # i
            BY <1>8, <4>1, <4>3, <6>1
          <6>3. QED
            BY <1>12, <6>2
        <5>2. PICK p \in DOMAIN queue' : f[p] = q
          BY <1>12, <5>1 DEF Left
        <5>3. queue'[p].m = queue[q].m /\ queue'[p].sender = queue[q].sender
          BY <1>12, <5>2 DEF Left
        <5>4. QED
          BY <1>8, <4>3, <5>3 DEF Rest
      <4>4. QED
        BY <4>2, <4>3
    <3>9. \A y : y \in Rest(s)' <=> y \in Rest(s) /\ y > next
      <4>1. \A q \in DOMAIN queue : queue[q].m > next => q > i
        BY <1>3, <1>4, <1>6, <1>8, <3>1
      <4>2. QED
        BY <2>4, <3>8, <4>1
    <3>10. {due[s][q] : q \in {q \in DOMAIN due[s] : q > n + 1}} = Rest(s)'
      <4>1. ASSUME NEW q \in DOMAIN due[s], q > n
            PROVE  q > n + 1 <=> due[s][q] > next
        <5>1. q \in Nat /\ due[s][q] \in Nat /\ n + 1 \in Nat
          BY <2>3
        <5>2. CASE q = n + 1
          BY <1>8, <3>6, <5>1, <5>2
        <5>3. CASE q # n + 1
          <6>1. n + 1 < q
            BY <2>3, <4>1, <5>1, <5>3
          <6>2. due[s][n + 1] < due[s][q]
            BY <2>2, <3>4, <6>1
          <6>3. QED
            BY <1>8, <3>6, <5>1, <6>1, <6>2
        <5>4. QED
          BY <5>2, <5>3
      <4>2. ASSUME NEW y \in Rest(s)'
            PROVE  \E q \in DOMAIN due[s] : q > n + 1 /\ due[s][q] = y
        <5>1. PICK q \in DOMAIN due[s] : q > n /\ due[s][q] = y
          BY <2>2, <3>9, <4>2
        <5>2. QED
          BY <3>9, <4>1, <4>2, <5>1
      <4>3. ASSUME NEW q \in DOMAIN due[s], q > n + 1
            PROVE  due[s][q] \in Rest(s)'
        <5>1. q > n
          BY <2>3, <4>3
        <5>2. due[s][q] \in Rest(s) /\ due[s][q] > next
          BY <2>2, <4>1, <4>3, <5>1
        <5>3. QED
          BY <3>9, <5>2
      <4>4. QED
        BY <4>2, <4>3
    <3>11. n <= Len(due[s]) /\ \A q \in DOMAIN got[s] : got[s][q] = due[s][q]
      BY <2>2
    <3>12. QED
      BY <1>1, <1>7, <1>8, <2>1, <2>2, <2>6, <3>4, <3>6, <3>7, <3>10, <3>11 DEF Delivered
  <2>7. QED
    BY <2>5, <2>6
<1>25. DeliveryRight'
  BY <1>8, <1>23, <1>24 DEF DeliveryRight
<1>26. QED
  BY <1>7, <1>16, <1>17, <1>18, <1>20, <1>22, <1>25 DEF Right

LEMMA RunRight ==
  ASSUME Plain, Right, RunJob
  PROVE  Right'
<1>1. PICK j : j = Head(strand)
  OBVIOUS
<1>2. /\ j = strand[1]
      /\ j.kind \in {"created", "destroyed", "message", "written"}
      /\ j.s \in Session /\ j.inside \in BOOLEAN
      /\ j.kind \in {"message", "written"} => j.m \in 1..MaxLines
  BY <1>1, HeadPlain DEF RunJob, Plain
<1>3. CASE j.kind = "created"
  <2>1. Created(j.s) /\ Job(1, "created", j.s)
    BY <1>1, <1>2, <1>3 DEF RunJob, Job
  <2>2. QED
    BY <1>2, <2>1, CreatedRunRight
<1>4. CASE j.kind = "destroyed"
  <2>1. Destroyed(j.s) /\ Job(1, "destroyed", j.s)
    BY <1>1, <1>2, <1>4 DEF RunJob, Job
  <2>2. QED
    BY <1>2, <2>1, DestroyedRunRight
<1>5. CASE j.kind = "message"
  <2>1. Message(j.s, j.m, j.inside) /\ Job(1, "message", j.s) /\ j.m = strand[1].m
    BY <1>1, <1>2, <1>5 DEF RunJob, Job
  <2>2. QED
    BY <1>2, <1>5, <2>1, MessageRunRight
<1>6. CASE j.kind = "written"
  <2>1. Written(j.s, j.m) /\ Job(1, "written", j.s) /\ j.m = strand[1].m
    BY <1>1, <1>2, <1>6 DEF RunJob, Job
  <2>2. QED
    BY <1>2, <1>6, <2>1, WrittenRunRight
<1>7. QED
  BY <1>2, <1>3, <1>4, <1>5, <1>6

-----------------------------------------------------------------------------
(* The invariant. *)

LEMMA ChatStep == ChatInv /\ [Next]_vars => ChatInv'
<1> SUFFICES ASSUME ChatInv, [Next]_vars PROVE ChatInv'
  OBVIOUS
<1>1. ASSUME NEW s \in Session,
             \/ Start(s) \/ ReadLine(s) \/ Leave(s) \/ WriteDone(s) \/ WriteFailed(s)
             \/ \E fate \in {"done", "failed"} : Transfer(s, fate)
      PROVE  ChatInv'
  <2>1. Plain'
    BY <1>1, PlainStep DEF ChatInv
  <2>2. ASSUME orderly', ~Leave(s) PROVE Right'
    <3>1. orderly
      BY <1>1, <2>2 DEF Start, ReadLine, WriteDone, WriteFailed, Transfer
    <3>2. QED
      BY <1>1, <2>2, <3>1, StartRight, ReadLineRight, WriteDoneRight, WriteFailedRight,
         TransferRight DEF ChatInv
  <2>3. ASSUME orderly', Leave(s) PROVE Right'
    <3>1. orderly /\ Harmless(s)
      BY <2>3 DEF Leave
    <3>2. QED
      BY <2>3, <3>1, LeaveRight DEF ChatInv
  <2>4. QED
    BY <2>1, <2>2, <2>3 DEF ChatInv
<1>2. CASE RunJob
  <2>1. Plain' /\ orderly' = orderly
    BY <1>2, PlainRunJob DEF ChatInv, RunJob
  <2>2. QED
    BY <1>2, <2>1, RunRight DEF ChatInv
<1>3. CASE UNCHANGED vars
  <2>1. Plain'
    BY <1>3 DEF vars, ChatInv, Plain, OwnPlain, QueuePlain, StrandPlain, SessionsPlain,
                WritesPlain, ListsPlain
  <2>2. ASSUME Right PROVE Right'
    <3>1. IdsRight' /\ MembersRight' /\ JobsRight' /\ WritesRight'
      BY <1>3, <2>2 DEF vars, Right, IdsRight, MembersRight, JobsRight, WritesRight, Job, Present,
                        CreatedRight, MessageRight, WrittenRight, DestroyedRight, LetsGo
    <3>2. PointersRight' /\ CountsRight'
      BY <1>3, <2>2 DEF vars, Right, PointersRight, CountsRight, Waiting
    <3>3. DeliveryRight'
      <4>1. \A x : Sent(x)' <=> Sent(x)
        BY <1>3 DEF vars, Sent, Job
      <4>2. \A x : Place(x)' = Place(x) /\ Rest(x)' = Rest(x)
        BY <1>3, <4>1 DEF vars, Place, Rest
      <4>3. QED
        BY <1>3, <2>2, <4>2 DEF vars, Right, DeliveryRight, Delivered
    <3>4. QED
      BY <1>3, <2>2, <3>1, <3>2, <3>3 DEF vars, Right
  <2>3. QED
    BY <1>3, <2>1, <2>2 DEF ChatInv, vars
<1>4. QED
  BY <1>1, <1>2, <1>3 DEF Next

(* In every history the state is well-formed, and as long as sessions have *)
(* left at harmless moments only, every reference that chat.cpp and        *)
(* chat_session.cpp keep - in sessions_, in the strand's functions and in  *)
(* the completions of writes - is valid.                                   *)
THEOREM ChatInvariance == FairSpec => []ChatInv
<1>1. Init => ChatInv
  BY PlainInit, RightInit DEF ChatInv
<1>2. QED
  BY <1>1, ChatStep, PTL DEF FairSpec

(* As long as every session leaves at a harmless moment (Harmless), which  *)
(* one in the middle of a broadcast seldom is, senders_remaining_ is the   *)
(* number of sessions that a queued message is still to be sent to, and    *)
(* never 0: chat.cpp keeps it so in message_received(), send() and         *)
(* session_destroyed().                                                    *)
THEOREM CountsExactCorrect == FairSpec => []CountsExact
<1>1. ChatInv => CountsExact
  <2> SUFFICES ASSUME ChatInv PROVE CountsExact
    OBVIOUS
  <2>1. TypeOK
    BY PlainTypes DEF ChatInv
  <2>2. ASSUME orderly, NEW i \in DOMAIN queue
        PROVE  /\ queue[i].rem = Cardinality({s \in Session :
                    Pending(s) /\ s # queue[i].sender /\ Index(sessions[s]) <= i})
               /\ queue[i].rem > 0
    <3>1. Plain /\ Right
      BY <2>2 DEF ChatInv
    <3>2. ASSUME NEW s \in DOMAIN sessions, sessions[s] # 0
          PROVE  s \in Session /\ (Index(sessions[s]) <= i <=> sessions[s] <= queue[i].m)
      <4>1. PICK p \in DOMAIN queue : queue[p].m = sessions[s]
        BY <3>1, <3>2 DEF Right, PointersRight
      <4>2. Index(sessions[s]) = p
        BY <3>1, <4>1, IndexIs DEF Plain, QueuePlain
      <4>3. p \in Nat /\ i \in Nat /\ queue[p].m \in Nat /\ queue[i].m \in Nat
        BY <3>1, EntryType DEF Plain, QueuePlain
      <4>4. p <= i <=> queue[p].m <= queue[i].m
        BY <3>1, <4>3 DEF Right, IdsRight
      <4>5. s \in Session
        BY <3>1 DEF Plain, SessionsPlain
      <4>6. QED
        BY <4>1, <4>2, <4>4, <4>5
    <3>3. Waiting(sessions, queue[i])
            = {s \in Session : Pending(s) /\ s # queue[i].sender /\ Index(sessions[s]) <= i}
      BY <3>2 DEF Waiting, Pending
    <3>4. QED
      BY <3>1, <3>3 DEF Right, CountsRight
  <2>3. QED
    BY <2>1, <2>2 DEF CountsExact
<1>2. QED
  BY <1>1, ChatInvariance, PTL

(* As long as every session leaves at a harmless moment, no erased message *)
(* and no destroyed session is used; in any case, with one thread the text *)
(* is never read through a parameter that is gone.                         *)
THEOREM NoDanglingCorrect == FairSpec => []NoDangling
<1>1. ChatInv => NoDangling
  BY DEF ChatInv, Plain, QueuePlain, Right, NoDangling
<1>2. QED
  BY <1>1, ChatInvariance, PTL

LEMMA PrefixOf ==
  ASSUME NEW S, NEW a \in Seq(S), NEW b \in Seq(S), Len(a) <= Len(b),
         \A n \in 1..Len(a) : a[n] = b[n]
  PROVE  IsPrefix(a, b)
<1>1. /\ SubSeq(a, 1, Len(a)) \in Seq(S) /\ Len(SubSeq(a, 1, Len(a))) = Len(a)
      /\ \A n \in 1..Len(a) : SubSeq(a, 1, Len(a))[n] = a[n]
  OBVIOUS
<1>2. /\ SubSeq(b, 1, Len(a)) \in Seq(S) /\ Len(SubSeq(b, 1, Len(a))) = Len(a)
      /\ \A n \in 1..Len(a) : SubSeq(b, 1, Len(a))[n] = b[n]
  OBVIOUS
<1>3. SubSeq(a, 1, Len(a)) = SubSeq(b, 1, Len(a))
  BY <1>1, <1>2, SeqEqual
<1>4. QED
  BY <1>3 DEF IsPrefix

(* As long as every session leaves at a harmless moment, each one in the   *)
(* chat is sent what was queued for it, in order, without gaps.            *)
THEOREM DeliveredInOrderCorrect == FairSpec => []DeliveredInOrder
<1>1. ChatInv => DeliveredInOrder
  <2> SUFFICES ASSUME ChatInv, orderly, NEW s \in DOMAIN sessions
               PROVE  /\ IsPrefix(got[s], due[s])
                      /\ sessions[s] = 0 => got[s] = due[s]
                      /\ \A i, j \in DOMAIN due[s] : i < j => due[s][i] < due[s][j]
    BY DEF DeliveredInOrder
  <2>1. /\ due[s] \in Seq(1..MaxLines) /\ Len(due[s]) \in Nat /\ DOMAIN due[s] = 1..Len(due[s])
        /\ got[s] \in Seq(1..MaxLines) /\ Len(got[s]) \in Nat /\ DOMAIN got[s] = 1..Len(got[s])
    BY ListTypes DEF ChatInv, Plain, SessionsPlain
  <2>2. /\ Len(got[s]) <= Len(due[s])
        /\ \A n \in DOMAIN got[s] : got[s][n] = due[s][n]
        /\ \A i, j \in DOMAIN due[s] : i < j => due[s][i] < due[s][j]
        /\ sessions[s] = 0 => Len(got[s]) = Len(due[s])
    BY DEF ChatInv, Right, DeliveryRight, Delivered
  <2>3. \A n \in 1..Len(got[s]) : got[s][n] = due[s][n]
    BY <2>1, <2>2
  <2>4. IsPrefix(got[s], due[s])
    BY <2>1, <2>2, <2>3, PrefixOf
  <2>5. sessions[s] = 0 => got[s] = due[s]
    BY <2>1, <2>2, <2>3, SeqEqual
  <2>6. QED
    BY <2>2, <2>4, <2>5
<1>2. QED
  BY <1>1, ChatInvariance, PTL
=============================================================================
