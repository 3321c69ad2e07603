-------------------------------- MODULE Chat --------------------------------
(***************************************************************************)
(* The chat server of asio-shared: chat.cpp, the shared queue of messages  *)
(* behind a strand, and chat_session.cpp, a session per connection.        *)
(*                                                                         *)
(* A function given to the strand runs inside the call when the strand is  *)
(* idle; otherwise it waits in "strand" while its caller goes on.  A step  *)
(* that touches a destroyed session, an erased message or an absent key    *)
(* sets "crashed" and nothing happens after it.  Of a text it is only kept *)
(* whether it is certain to be intact.                                     *)
(***************************************************************************)
EXTENDS Naturals, Sequences, FiniteSets, SequencesExt

CONSTANTS
  Sessions,   \* bound: how many clients ever connect
  MaxWaiting, \* bound: functions given to the strand at a time
  MaxQueue,   \* max_queue
  MaxLines,   \* bound: lines received, one less with each further thread
  Threads,    \* the numbers of threads that run the io_context
  Wide        \* 2^64, the range of senders_remaining_

ASSUME ChatAssumption ==
  /\ Sessions \in Nat /\ MaxWaiting \in Nat \ {0} /\ MaxQueue \in Nat \ {0} /\ MaxLines \in Nat
  /\ Threads \subseteq Nat \ {0}
  /\ Wide \in Nat \ {0} /\ Sessions <= Wide   \* the sessions are objects in memory

Session == 1..Sessions   \* numbered in the order in which they connect

VARIABLES
  threads,    \* threads that run the io_context
  life,       \* of each session: "new", "live", "closed" (its stream) or "dead"
  sessions,   \* sessions_: the message each session is being sent, 0 for none
  queue,      \* queue_
  strand,     \* functions given to strand_, the first one is being run
  write,      \* the async_write of each session and its fate
  crashed,    \* undefined behaviour has been reached
  orderly,    \* history: every session has left at a harmless moment
  lines,      \* lines received so far
  due,        \* history: the messages put into the queue for each session
  got         \* history: what each session has been sent completely

vars == <<threads, life, sessions, queue, strand, write, crashed, orderly,
          lines, due, got>>

Dec(n) == (n + Wide - 1) % Wide
NoWrite == [m |-> 0, fate |-> "none"]
Jobs == [kind : {"created", "destroyed", "message", "written"},
         s : Session, m : 0..MaxLines, inside : BOOLEAN]

TypeOK ==
  /\ threads \in Threads /\ crashed \in BOOLEAN /\ orderly \in BOOLEAN
  /\ life \in [Session -> {"new", "live", "closed", "dead"}]
  /\ DOMAIN sessions \subseteq Session /\ Range(sessions) \subseteq 0..MaxLines
  /\ queue \in Seq([m : 1..MaxLines, sender : Session, intact : BOOLEAN,
                    rem : 0..(Wide - 1)])
  /\ Len(queue) <= MaxQueue
  /\ strand \in Seq(Jobs)
  /\ write \in [Session -> [m : 0..MaxLines,
                            fate : {"none", "pending", "done", "failed"}]]
  /\ lines \in 0..MaxLines
  /\ due \in [Session -> Seq(1..MaxLines)] /\ got \in [Session -> Seq(1..MaxLines)]

Init ==
  /\ threads \in Threads
  /\ life = [s \in Session |-> "new"]
  /\ sessions = << >> /\ queue = << >> /\ strand = << >>
  /\ write = [s \in Session |-> NoWrite]
  /\ crashed = FALSE /\ orderly = TRUE
  /\ lines = 0 /\ due = [s \in Session |-> << >>] /\ got = due

-----------------------------------------------------------------------------
(* The queue. *)

Index(m) == CHOOSE i \in DOMAIN queue : queue[i].m = m
Pending(s) == s \in DOMAIN sessions /\ sessions[s] # 0
Queued(m) == \E i \in DOMAIN queue : queue[i].m = m
Decremented(e) == [e EXCEPT !.rem = Dec(e.rem)]

(* Whether message_received() keeps a message: it is dropped with one      *)
(* client and with a full queue.                                           *)
Keeps == Cardinality(DOMAIN sessions) # 1 /\ Len(queue) # MaxQueue

(* Mutants: only the message being sent is given up; the front is dropped  *)
(* without looking at who else waits for it.                               *)
DropOne(m) ==
  [i \in DOMAIN queue |-> IF queue[i].m = m THEN Decremented(queue[i]) ELSE queue[i]]
DropFront(m) ==
  SubSeq([i \in DOMAIN queue |-> Decremented(queue[i])], Index(m) + 1, Len(queue))

(* The function that session_destroyed() runs, for a session at message m. *)
DropReceiver(m) ==
  LET p == Index(m)
      cut == IF p = 1 /\ queue[1].rem = 1
             THEN LET more == {i \in 2..Len(queue) : queue[i].rem > 1}
                  IN IF more = {} THEN Len(queue) + 1
                     ELSE CHOOSE i \in more : \A j \in more : i <= j
             ELSE 0
      from == IF cut = 0 THEN p ELSE cut
  IN SubSeq([i \in DOMAIN queue |->
               IF i >= from THEN Decremented(queue[i]) ELSE queue[i]],
            IF cut = 0 THEN 1 ELSE cut, Len(queue))

LaterSkips(s, m) ==  \* mutant: one message too far
  {i \in Index(m) + 2..Len(queue) : queue[i].sender # s}

(* The messages that send()'s completion may go on to after message m. *)
Later(s, m) == {i \in Index(m) + 1..Len(queue) : queue[i].sender # s}

(* sessions_, after m has been assigned to the entries of ss. *)
Assigned(ss, m) ==
  [s \in DOMAIN sessions \cup ss |-> IF s \in ss THEN m ELSE sessions[s]]

(* send(): only a session that still exists can be written to. *)
Send(ss, m) ==
  /\ sessions' = Assigned(ss, m)
  /\ write' = [s \in Session |-> IF s \in ss THEN [m |-> m, fate |-> "pending"]
                                 ELSE write[s]]

-----------------------------------------------------------------------------
(* The sessions.  The handlers of one session exclude each other. *)

Inside(s) == strand # << >> /\ Head(strand).s = s /\ Head(strand).inside
MayRun(s) ==
  /\ ~crashed /\ ~Inside(s)
  /\ threads > 1 \/ strand = << >>
  /\ Len(strand) < MaxWaiting
Execute(kind, s, m) ==
  strand' = Append(strand, [kind |-> kind, s |-> s, m |-> m,
                            inside |-> strand = << >>])

(* start_protocol() of an accepted connection. *)
Start(s) ==
  /\ life[s] = "new" /\ MayRun(s) /\ orderly /\ \A x \in 1..s - 1 : life[x] # "new"
  /\ life' = [life EXCEPT ![s] = "live"]
  /\ Execute("created", s, 0)
  /\ UNCHANGED <<threads, sessions, queue, write, crashed, orderly, lines, due, got>>

(* The handler of read_line(): a whole line has come. *)
ReadLine(s) ==
  /\ life[s] = "live" /\ MayRun(s) /\ orderly /\ lines + threads <= MaxLines
  /\ lines' = lines + 1
  /\ Execute("message", s, lines')
  /\ UNCHANGED <<threads, life, sessions, queue, write, crashed, orderly, due, got>>

(* Leaving is harmless when nothing refers to the session any more but the *)
(* queue, nothing of its own waits there from its position on, and every   *)
(* message that waits for it alone is in a run at the front of the queue.  *)
Harmless(s) ==
  /\ strand = << >> /\ write[s].fate \in {"none", "pending"}
  /\ Pending(s) =>
       Queued(sessions[s]) /\ LET p == Index(sessions[s])
       IN /\ \A i \in p..Len(queue) : queue[i].sender # s
          /\ \A i \in p..Len(queue) :
               queue[i].rem > 1 \/ (p = 1 /\ \A j \in 1..i : queue[j].rem = 1)

(* The handler of read_line(): end of file or an error.  The last pointer  *)
(* goes, the destructor runs, and a write that is still under way is       *)
(* aborted.                                                                *)
Leave(s) ==
  /\ life[s] \in {"live", "closed"} /\ MayRun(s)
  /\ life' = [life EXCEPT ![s] = "dead"]
  /\ orderly' = (orderly /\ Harmless(s))
  /\ write' = [write EXCEPT ![s] = IF @.fate = "pending" THEN NoWrite ELSE @]
  /\ Execute("destroyed", s, 0)
  /\ UNCHANGED <<threads, sessions, queue, crashed, lines, due, got>>

(* The kernel takes the whole message, or the connection is broken. *)
Transfer(s, fate) ==
  /\ ~crashed /\ write[s].fate = "pending"
  /\ write' = [write EXCEPT ![s].fate = fate]
  /\ got' = IF fate = "done" THEN [got EXCEPT ![s] = Append(@, write[s].m)] ELSE got
  /\ UNCHANGED <<threads, life, sessions, queue, strand, crashed, orderly, lines, due>>

(* The handler of chat_session::async_write() after a success, ... *)
WriteDone(s) ==
  /\ write[s].fate = "done" /\ MayRun(s)
  /\ Execute("written", s, write[s].m)
  /\ write' = [write EXCEPT ![s] = NoWrite]
  /\ UNCHANGED <<threads, life, sessions, queue, crashed, orderly, lines, due, got>>

WriteIgnored(s) ==  \* mutant: the error is swallowed
  /\ write[s].fate = "failed" /\ MayRun(s)
  /\ write' = [write EXCEPT ![s] = NoWrite]
  /\ UNCHANGED <<threads, life, sessions, queue, strand, crashed, orderly, lines, due, got>>

(* ... and after an error: it throws, and handle_exception() of the session *)
(* closes the stream, which ends its read.                                  *)
WriteFailed(s) ==
  /\ write[s].fate = "failed" /\ MayRun(s)
  /\ crashed' = (life[s] = "dead")
  /\ life' = IF life[s] = "live" THEN [life EXCEPT ![s] = "closed"] ELSE life
  /\ write' = [write EXCEPT ![s] = NoWrite]
  /\ UNCHANGED <<threads, sessions, queue, strand, orderly, lines, due, got>>

-----------------------------------------------------------------------------
(* The functions that run on the strand; s is the session they are about. *)

Created(s) ==
  /\ sessions' = Assigned({s} \ DOMAIN sessions, 0)
  /\ UNCHANGED <<queue, write, crashed, due>>

Destroyed(s) ==
  /\ crashed' = (s \notin DOMAIN sessions
                 \/ (sessions[s] # 0 /\ ~Queued(sessions[s])))
  /\ sessions' = [x \in DOMAIN sessions \ {s} |-> sessions[x]]
  /\ queue' = IF crashed' \/ sessions[s] = 0 THEN queue
              ELSE DropReceiver(sessions[s])
  /\ UNCHANGED <<write, due>>

(* The function of message_received().  A text that had to wait is read    *)
(* through a reference to a parameter that may be gone.                    *)
Message(s, m, inside) ==
  LET others == DOMAIN sessions \ {s}
      idle == {x \in others : sessions[x] = 0}
  IN /\ crashed' = (Keeps /\ \E x \in idle : life[x] = "dead")
     /\ IF ~Keeps
        THEN UNCHANGED <<sessions, queue, write, due>>
        ELSE /\ queue' = Append(queue, [m |-> m, sender |-> s, intact |-> inside,
                             rem |-> Dec(Cardinality(DOMAIN sessions))])
             /\ due' = [x \in Session |-> IF x \in others THEN Append(due[x], m) ELSE due[x]]
             /\ Send(idle, m)

(* The completion of send(). *)
Written(s, m) ==
  IF ~Queued(m) THEN crashed' = TRUE /\ UNCHANGED <<sessions, queue, write, due>>
  ELSE LET i == Index(m)
           later == Later(s, m)
           less == [queue EXCEPT ![i] = Decremented(@)]
       IN /\ queue' = IF less[i].rem = 0 THEN RemoveAt(queue, i) ELSE less
          /\ crashed' = (later # {} /\ life[s] = "dead")
          /\ IF later = {}
             THEN sessions' = Assigned({s}, 0) /\ UNCHANGED write
             ELSE Send({s}, queue[CHOOSE j \in later : \A k \in later : j <= k].m)
          /\ UNCHANGED due

RunJob ==
  /\ ~crashed /\ strand # << >>
  /\ strand' = Tail(strand)
  /\ LET j == Head(strand)
     IN CASE j.kind = "created" -> Created(j.s)
          [] j.kind = "destroyed" -> Destroyed(j.s)
          [] j.kind = "message" -> Message(j.s, j.m, j.inside)
          [] OTHER -> Written(j.s, j.m)
  /\ UNCHANGED <<threads, life, orderly, lines, got>>

Next ==
  \/ \E s \in Session :
       \/ Start(s) \/ ReadLine(s) \/ Leave(s) \/ WriteDone(s) \/ WriteFailed(s)
       \/ \E fate \in {"done", "failed"} : Transfer(s, fate)
  \/ RunJob

(* The io_context runs what is ready, and every client reads or breaks. *)
Fairness ==
  /\ WF_vars(RunJob)
  /\ \A s \in Session :
       /\ WF_vars(WriteDone(s)) /\ WF_vars(WriteFailed(s))
       /\ WF_vars(\E fate \in {"done", "failed"} : Transfer(s, fate))
       /\ WF_vars(life[s] = "closed" /\ Leave(s))

FairSpec == Init /\ [][Next]_vars /\ Fairness

-----------------------------------------------------------------------------
(* senders_remaining_ counts exactly the sessions that a message is still  *)
(* to be sent to, so that a message leaves the queue with its last receiver *)
(* and never before: what chat.cpp computes incrementally in three places. *)
(* It holds as long as every session leaves at a harmless moment, which a  *)
(* moment in the middle of a broadcast seldom is.                          *)
CountsExact ==
  /\ TypeOK
  /\ orderly => \A i \in DOMAIN queue :
       /\ queue[i].rem = Cardinality({s \in Session :
            Pending(s) /\ s # queue[i].sender /\ Index(sessions[s]) <= i})
       /\ queue[i].rem > 0

(* As long as every session leaves at a harmless moment, the iterators in  *)
(* sessions_ and in completions, and the sessions that the strand's        *)
(* functions refer to, are valid whenever they are used; and in any case,  *)
(* with one thread the text taken by reference in message_received() is    *)
(* always read while the parameter still exists.                           *)
NoDangling ==
  /\ orderly => ~crashed
  /\ threads = 1 => \A i \in DOMAIN queue : queue[i].intact

(* As long as every session leaves at a harmless moment, a session is sent *)
(* the messages of the others that were put into the queue while it was in *)
(* the chat, without gaps and in the order of the lines, the same for all; *)
(* and it has been sent all of them when nothing is marked as being sent   *)
(* to it.                                                                  *)
DeliveredInOrder ==
  orderly => \A s \in DOMAIN sessions :
    /\ IsPrefix(got[s], due[s])
    /\ sessions[s] = 0 => got[s] = due[s]
    /\ \A i, j \in DOMAIN due[s] : i < j => due[s][i] < due[s][j]

(* As long as every session leaves at a harmless moment, a queue that      *)
(* holds messages, a full one too, becomes empty again: no message is left *)
(* behind for a receiver that has failed or gone.                          *)
QueueDrains == queue # << >> ~> (queue = << >> \/ ~orderly)
=============================================================================
