-------------------------- MODULE CalcServerProofs --------------------------
(***************************************************************************)
(* Proofs about CalcServer, for any number of peers, whatever they send,   *)
(* with any limit and any number of threads and faults.  The first part is *)
(* about the operations and the threads, where what a line says plays no   *)
(* part; the second about lines, answers and the ends of sessions.         *)
(***************************************************************************)
EXTENDS CalcServer, FiniteSetTheorems, SequenceTheorems, WellFoundedInduction, TLAPS

-----------------------------------------------------------------------------
(* The inductive invariant. *)

IsPeer(p) == DOMAIN p = {"at", "script", "left"}
Fields == {"ops", "open", "in", "a", "out", "timed", "log", "got"}

(* A session that is being served has one operation in flight; any other   *)
(* has none and is closed.                                                 *)
Sound(s) ==
  /\ DOMAIN s = Fields /\ s.open \in BOOLEAN
  /\ s.ops \in {{}, {"a"}, {"b"}, {"write"}}
  /\ s.open => s.ops # {}

(* A peer that has not been accepted has no session. *)
Fresh(p, s) == p.at \in {"away", "queued", "early"} => s = NoSession

(* A connection dropped by the listener, and whether a thread is lost. *)
Gone(p, s) == p.at = "reset" /\ s = NoSession
Dropped == \E i \in Connection : Gone(peer[i], session[i])
Lost == status = "killed" \/ (status = "running" /\ ~mainRuns)

Shapes ==
  /\ peer = [i \in Connection |-> peer[i]] /\ session = [i \in Connection |-> session[i]]
  /\ faults \in Nat /\ mainRuns \in BOOLEAN

Each(i) == IsPeer(peer[i]) /\ Sound(session[i]) /\ Fresh(peer[i], session[i])

KInv == Shapes /\ (\A i \in Connection : Each(i)) /\ (Lost => Dropped)

-----------------------------------------------------------------------------
(* What the handlers make of a session. *)

(* A connection that nobody serves has no operation. *)
LEMMA NoSessionSound == Sound(NoSession) /\ NoSession.ops = {} /\ NoSession.open = FALSE
BY DEF Sound, Fields, NoSession

(* A session that has ended has none either. *)
LEMMA EndedSound ==
  ASSUME NEW s, NEW why
  PROVE  Sound(Ended(s, why))
BY DEF Sound, Fields, Ended, NoSession

(* One that never began, ended again, is the same. *)
LEMMA EndedTwice == Ended(NoSession, NoSession.log) = NoSession
BY DEF Ended, NoSession

(* start() begins with a read. *)
LEMMA StartedSound == Sound(Reading([NoSession EXCEPT !.open = TRUE]))
BY DEF Sound, Fields, Reading, NoSession

(* A session with an operation has just that one. *)
LEMMA OneInFlight ==
  ASSUME NEW s, Sound(s), NEW k \in {"a", "b", "write"}, k \in s.ops
  PROVE  s.ops = {k} /\ s # NoSession
BY NoSessionSound DEF Sound

(* The handler of an operation begins the next one in its place. *)
LEMMA BeginSound ==
  ASSUME NEW s, Sound(s), NEW k \in {"a", "b"}, k \in s.ops, NEW next \in {"a", "b", "write"},
         NEW t, DOMAIN t = Fields, t.open = s.open, t.ops = s.ops
  PROVE  Sound(Begin(t, k, next))
<1>1. s.ops = {k}
  BY OneInFlight
<1>2. (s.ops \ {k}) \cup {next} = {next}
  BY <1>1
<1>3. /\ DOMAIN Begin(t, k, next) = Fields /\ Begin(t, k, next).open = s.open
      /\ Begin(t, k, next).ops = (s.ops \ {k}) \cup {next}
  BY DEF Begin, Fields
<1>4. QED
  BY <1>2, <1>3 DEF Sound

(* So does that of a write. *)
LEMMA AnsweredSound ==
  ASSUME NEW s, Sound(s), "write" \in s.ops
  PROVE  Sound(Answered(Delivered(s)))
<1> DEFINE e == Answered(Delivered(s))
<1>1. s.ops = {"write"}
  BY OneInFlight
<1>2. (s.ops \ {"write"}) \cup {"a"} = {"a"}
  BY <1>1
<1>3. DOMAIN e = Fields /\ e.open = s.open /\ e.ops = (s.ops \ {"write"}) \cup {"a"}
  BY DEF Sound, Answered, Delivered, Reading, Fields
<1>4. QED
  BY <1>2, <1>3 DEF Sound

-----------------------------------------------------------------------------
(* A step that concerns connection i alone keeps the invariant if it keeps *)
(* i's part of it, i stays dropped if it was and a thread is lost only if  *)
(* a connection is.                                                        *)
LEMMA LocalStep ==
  ASSUME KInv, NEW i \in Connection, Shapes', Each(i)', faults' >= faults,
         \A j \in Connection \ {i} : peer'[j] = peer[j] /\ session'[j] = session[j],
         Gone(peer[i], session[i]) => Gone(peer'[i], session'[i]),
         Lost' => Lost \/ Dropped'
  PROVE  KInv'
<1>1. \A j \in Connection : Each(j)'
  BY DEF KInv, Each
<1>2. Dropped => Dropped'
  <2>1. ASSUME NEW j \in Connection, Gone(peer[j], session[j]) PROVE Dropped'
    <3>1. Gone(peer'[j], session'[j])
      BY <2>1
    <3>2. QED
      BY <3>1 DEF Dropped
  <2>2. QED
    BY <2>1 DEF Dropped
<1>3. QED
  BY <1>1, <1>2 DEF KInv

(* The peer of i does something and its session stays as it is. *)
LEMMA PeerStep ==
  ASSUME KInv, NEW i \in Connection, NEW p, IsPeer(p), peer' = [peer EXCEPT ![i] = p],
         Fresh(p, session[i]), Gone(peer[i], session[i]) => p.at = "reset",
         UNCHANGED <<session, status, mainRuns>>, faults' \in Nat, faults' >= faults
  PROVE  KInv'
<1>1. Shapes' /\ peer'[i] = p /\ \A j \in Connection \ {i} : peer'[j] = peer[j]
  BY DEF KInv, Shapes
<1>2. Each(i)' /\ (Gone(peer[i], session[i]) => Gone(peer'[i], session'[i]))
  BY <1>1 DEF KInv, Each, Gone
<1>3. Lost' => Lost
  BY DEF Lost
<1>4. QED
  BY <1>1, <1>2, <1>3, LocalStep

(* A handler of the session of i leaves it in another sound state. *)
LEMMA HandlerStep ==
  ASSUME KInv, NEW i \in Connection, NEW s, Sound(s), session' = [session EXCEPT ![i] = s],
         session[i] # NoSession,
         peer' = peer \/ \E l : peer' = [peer EXCEPT ![i].left = l],
         UNCHANGED <<status, mainRuns>>, faults' \in Nat, faults' >= faults
  PROVE  KInv'
<1>1. /\ Shapes' /\ session'[i] = s /\ IsPeer(peer'[i]) /\ peer'[i].at = peer[i].at
      /\ \A j \in Connection \ {i} : session'[j] = session[j] /\ peer'[j] = peer[j]
  <2>1. CASE peer' = peer
    BY <2>1 DEF KInv, Shapes, Each
  <2>2. ASSUME NEW l, peer' = [peer EXCEPT ![i].left = l]
        PROVE  /\ peer' = [j \in Connection |-> peer'[j]]
               /\ IsPeer(peer'[i]) /\ peer'[i].at = peer[i].at
               /\ \A j \in Connection \ {i} : peer'[j] = peer[j]
    BY <2>2 DEF KInv, Shapes, Each, IsPeer
  <2>3. /\ session' = [j \in Connection |-> session'[j]] /\ session'[i] = s
        /\ \A j \in Connection \ {i} : session'[j] = session[j]
    BY DEF KInv, Shapes
  <2>4. QED
    BY <2>1, <2>2, <2>3 DEF KInv, Shapes
<1>2. Each(i)' /\ ~Gone(peer[i], session[i])
  BY <1>1 DEF KInv, Each, Gone, Fresh
<1>3. Lost' => Lost
  BY DEF Lost
<1>4. QED
  BY <1>1, <1>2, <1>3, LocalStep

(* The listener takes the peer of i from its queue. *)
LEMMA AcceptStep ==
  ASSUME KInv, NEW i \in Connection, peer[i].at \in {"queued", "early"},
         NEW at \in {"up", "reset"}, NEW s, Sound(s),
         session' = [session EXCEPT ![i] = s],
         \/ peer' = [peer EXCEPT ![i].at = at]
         \/ peer' = [peer EXCEPT ![i].at = at, ![i].left = << >>],
         mainRuns' \in BOOLEAN, faults' \in Nat, faults' >= faults,
         Lost' => Lost \/ (at = "reset" /\ s = NoSession)
  PROVE  KInv'
<1>1. /\ Shapes' /\ session'[i] = s /\ IsPeer(peer'[i]) /\ peer'[i].at = at
      /\ \A j \in Connection \ {i} : session'[j] = session[j] /\ peer'[j] = peer[j]
  <2>1. /\ session' = [j \in Connection |-> session'[j]] /\ session'[i] = s
        /\ \A j \in Connection \ {i} : session'[j] = session[j]
    BY DEF KInv, Shapes
  <2>2. /\ peer' = [j \in Connection |-> peer'[j]]
        /\ IsPeer(peer'[i]) /\ peer'[i].at = at
        /\ \A j \in Connection \ {i} : peer'[j] = peer[j]
    BY DEF KInv, Shapes, Each, IsPeer
  <2>3. QED
    BY <2>1, <2>2 DEF Shapes
<1>2. Each(i)' /\ ~Gone(peer[i], session[i])
  BY <1>1 DEF Each, Gone, Fresh
<1>3. Lost' => Lost \/ Dropped'
  BY <1>1 DEF Dropped, Gone
<1>4. QED
  BY <1>1, <1>2, <1>3, LocalStep

-----------------------------------------------------------------------------
(* The actions. *)

(* What a peer does leaves the sessions alone. *)
LEMMA PeerKInv ==
  ASSUME KInv, NEW i \in Connection, Connect(i) \/ Finish(i) \/ Reset(i)
  PROVE  KInv'
<1>1. CASE Connect(i)
  <2>1. PICK t \in Scripts[i] :
             peer' = [peer EXCEPT ![i] = [at |-> "queued", script |-> t, left |-> t]]
    BY <1>1 DEF Connect
  <2> DEFINE p == [at |-> "queued", script |-> t, left |-> t]
  <2>2. IsPeer(p) /\ Fresh(p, session[i]) /\ ~Gone(peer[i], session[i])
    BY <1>1 DEF Connect, KInv, Each, Fresh, IsPeer, Gone
  <2>3. QED
    BY <1>1, <2>1, <2>2, PeerStep DEF Connect, KInv, Shapes
<1>2. CASE Finish(i)
  <2> DEFINE p == [peer[i] EXCEPT !.at = "finished"]
  <2>1. peer' = [peer EXCEPT ![i] = p]
    BY <1>2 DEF Finish
  <2>2. IsPeer(p) /\ Fresh(p, session[i]) /\ ~Gone(peer[i], session[i])
    BY <1>2 DEF Finish, KInv, Each, Fresh, IsPeer, Gone
  <2> HIDE DEF p
  <2>3. QED
    BY <1>2, <2>1, <2>2, PeerStep DEF Finish, KInv, Shapes
<1>3. CASE Reset(i)
  <2> DEFINE p == [peer[i] EXCEPT !.at = IF @ = "queued" THEN "early" ELSE "reset",
                                  !.left = << >>]
  <2>1. peer' = [peer EXCEPT ![i] = p]
    BY <1>3 DEF Reset
  <2>2. IsPeer(p) /\ p.at = IF peer[i].at = "queued" THEN "early" ELSE "reset"
    BY DEF KInv, Each, IsPeer
  <2>3. Fresh(p, session[i]) /\ ~Gone(peer[i], session[i])
    BY <1>3, <2>2 DEF Reset, KInv, Each, Fresh, Gone
  <2> HIDE DEF p
  <2>4. UNCHANGED <<session, status, mainRuns>> /\ faults' \in Nat /\ faults' >= faults
    BY <1>3 DEF Reset, KInv, Shapes
  <2>5. QED
    BY <2>1, <2>2, <2>3, <2>4, PeerStep
<1>4. QED
  BY <1>1, <1>2, <1>3

(* The listener serves a peer, or loses a thread for a reason. *)
LEMMA ListenerKInv ==
  ASSUME KInv, NEW i \in Connection, Listener(i)
  PROVE  KInv'
<1> DEFINE r == Reading([NoSession EXCEPT !.open = TRUE])
<1>1. Sound(r)
  BY StartedSound
<1> HIDE DEF r
<1>2. CASE Accept(i)
  <2>1. session' = [session EXCEPT ![i] = r] /\ faults' = faults
    BY <1>2 DEF Accept, Started, r
  <2>2. Lost' => Lost
    BY <1>2 DEF Accept, Lost
  <2>3. /\ peer[i].at = "queued" /\ peer' = [peer EXCEPT ![i].at = "up"]
        /\ mainRuns' \in BOOLEAN /\ faults' \in Nat /\ faults' >= faults
    BY <1>2 DEF Accept, KInv, Shapes
  <2>4. QED
    BY <1>1, <2>1, <2>2, <2>3, AcceptStep
<1>3. CASE FactoryFails(i)
  <2>1. session' = [session EXCEPT ![i] = r] /\ faults' = faults + 1
    BY <1>3 DEF FactoryFails, Fault, Started, r
  <2>2. Lost' => Lost
    BY <1>3 DEF FactoryFails, Lost
  <2>3. /\ peer[i].at = "queued" /\ peer' = [peer EXCEPT ![i].at = "up"]
        /\ mainRuns' \in BOOLEAN /\ faults' \in Nat /\ faults' >= faults
    BY <1>3, <2>1 DEF FactoryFails, KInv, Shapes
  <2>4. QED
    BY <1>1, <2>1, <2>2, <2>3, AcceptStep
<1>4. ASSUME UNCHANGED session, peer[i].at \in {"queued", "early"}
      PROVE  session' = [session EXCEPT ![i] = NoSession]
  BY <1>4 DEF KInv, Shapes, Each, Fresh
<1>5. CASE AcceptNotStarted(i)
  <2>1. peer[i].at \in {"queued", "early"} /\ faults' = faults + 1
    BY <1>5 DEF AcceptNotStarted, Queued, Fault, KInv, Shapes
  <2>2. mainRuns' \in BOOLEAN
    BY <1>5 DEF AcceptNotStarted, Escape, KInv, Shapes
  <2>3. session' = [session EXCEPT ![i] = NoSession]
    BY <1>4, <1>5, <2>1 DEF AcceptNotStarted
  <2>4. /\ peer' = [peer EXCEPT ![i].at = "reset", ![i].left = << >>]
        /\ faults' \in Nat /\ faults' >= faults
    BY <1>5, <2>1 DEF AcceptNotStarted, KInv, Shapes
  <2>5. QED
    BY <2>1, <2>2, <2>3, <2>4, AcceptStep, NoSessionSound
<1>6. CASE LoggerFails(i)
  <2>1. mainRuns' \in BOOLEAN
    BY <1>6 DEF LoggerFails, Escape, KInv, Shapes
  <2>2. session' = [session EXCEPT ![i] = NoSession]
    BY <1>4, <1>6 DEF LoggerFails
  <2>3. /\ peer[i].at = "early" /\ peer' = [peer EXCEPT ![i].at = "reset"]
        /\ faults' \in Nat /\ faults' >= faults
    BY <1>6 DEF LoggerFails, KInv, Shapes
  <2>4. QED
    BY <2>1, <2>2, <2>3, AcceptStep, NoSessionSound
<1>7. QED
  BY <1>2, <1>3, <1>5, <1>6 DEF Listener

(* Of the two reads a session may have, it has the one it is asked about. *)
LEMMA ReadingSession ==
  ASSUME KInv, NEW i \in Connection, session[i].ops # {}
  PROVE  session[i] # NoSession /\ Sound(session[i])
BY NoSessionSound DEF KInv, Each

(* What arrives goes into the buffer of an operation that reads. *)
LEMMA ReadSomeKInv ==
  ASSUME KInv, NEW i \in Connection, ReadSome(i)
  PROVE  KInv'
<1>1. PICK k : /\ session' = [session EXCEPT ![i].in = @ \o SubSeq(peer[i].left, 1, k)]
               /\ peer' = [peer EXCEPT ![i].left = SubSeq(@, k + 1, Len(@))]
  BY DEF ReadSome
<1> DEFINE t == [session[i] EXCEPT !.in = session[i].in \o SubSeq(peer[i].left, 1, k)]
           l == SubSeq(peer[i].left, k + 1, Len(peer[i].left))
<1>2. session[i] # NoSession /\ Sound(session[i])
  BY ReadingSession DEF ReadSome, Reads
<1>3. Sound(t)
  BY <1>2 DEF Sound, Fields
<1>4. session' = [session EXCEPT ![i] = t] /\ peer' = [peer EXCEPT ![i].left = l]
  BY <1>1
<1> HIDE DEF t, l
<1>5. UNCHANGED <<status, mainRuns>> /\ faults' \in Nat /\ faults' >= faults
  BY DEF ReadSome, KInv, Shapes
<1>6. QED
  BY <1>2, <1>3, <1>4, <1>5, HandlerStep

(* A session that ends, for whatever reason, ends alone. *)
LEMMA EndKInv ==
  ASSUME KInv, NEW i \in Connection, session[i].ops # {}, NEW s, NEW why,
         session' = [session EXCEPT ![i] = Ended(s, why)],
         UNCHANGED <<peer, status, mainRuns>>, faults' \in Nat, faults' >= faults
  PROVE  KInv'
BY ReadingSession, EndedSound, HandlerStep

(* A line is handled: the next operation begins or the session ends. *)
LEMMA LineReadKInv ==
  ASSUME KInv, NEW i \in Connection, NEW k \in {"a", "b"}, LineRead(i, k)
  PROVE  KInv'
<1> DEFINE s == session[i]
           v == Value(FirstLine(s.in))
           t == [s EXCEPT !.in = Erased(s.in)]
           a == Begin([t EXCEPT !.a = v], "a", "b")
           b == Begin([t EXCEPT !.a = s.a * v, !.out = s.a * v], "b", "write")
<1>1. /\ k \in s.ops /\ s # NoSession /\ Sound(s) /\ faults' = faults
      /\ UNCHANGED <<peer, status, mainRuns>>
  BY ReadingSession DEF LineRead, HandlesLine, ParseFailed, Same
<1>2. CASE Parses(FirstLine(s.in))
  <2>1. session' = [session EXCEPT ![i] = IF k = "a" THEN a ELSE b]
    BY <1>2 DEF LineRead
  <2>2. k = "a" => Sound(a)
    <3> DEFINE u == [t EXCEPT !.a = v]
    <3>1. DOMAIN u = Fields /\ u.open = s.open /\ u.ops = s.ops
      BY <1>1 DEF Sound, Fields
    <3> HIDE DEF u
    <3>2. k = "a" => Sound(Begin(u, "a", "b"))
      BY <1>1, <3>1, BeginSound
    <3>3. QED
      BY <3>2 DEF u
  <2>3. k = "b" => Sound(b)
    <3> DEFINE u == [t EXCEPT !.a = s.a * v, !.out = s.a * v]
    <3>1. DOMAIN u = Fields /\ u.open = s.open /\ u.ops = s.ops
      BY <1>1 DEF Sound, Fields
    <3> HIDE DEF u
    <3>2. k = "b" => Sound(Begin(u, "b", "write"))
      BY <1>1, <3>1, BeginSound
    <3>3. QED
      BY <3>2 DEF u
  <2> HIDE DEF a, b
  <2>4. QED
    BY <1>1, <2>1, <2>2, <2>3, HandlerStep DEF KInv, Shapes
<1>3. CASE ~Parses(FirstLine(s.in))
  <2>1. session' = [session EXCEPT ![i] = Ended(s, "parse")]
    BY <1>3 DEF LineRead, ParseFailed
  <2>2. QED
    BY <1>1, <2>1, EndedSound, HandlerStep DEF KInv, Shapes
<1>4. QED
  BY <1>2, <1>3

(* So do the handlers of a failed read and of a write. *)
LEMMA OtherHandlersKInv ==
  ASSUME KInv, NEW i \in Connection,
         (\E k \in {"a", "b"} : ReadFailed(i, k)) \/ WriteFailed(i) \/ Written(i)
  PROVE  KInv'
<1>1. ASSUME NEW k \in {"a", "b"}, ReadFailed(i, k) PROVE KInv'
  <2>1. session' = [session EXCEPT ![i] = Ended(session[i], ReadError(i, k))]
    BY <1>1 DEF ReadFailed
  <2>2. QED
    BY <1>1, <2>1, EndKInv DEF ReadFailed, Same, KInv, Shapes
<1>2. CASE WriteFailed(i)
  <2> DEFINE why == IF session[i].open THEN "reset" ELSE "timeout"
  <2>1. session' = [session EXCEPT ![i] = Ended(session[i], why)]
    BY <1>2 DEF WriteFailed
  <2> HIDE DEF why
  <2>2. QED
    BY <1>2, <2>1, EndKInv DEF WriteFailed, Same, KInv, Shapes
<1>3. CASE Written(i)
  <2> DEFINE t == Answered(Delivered(session[i]))
  <2>1. session' = [session EXCEPT ![i] = t] /\ session[i] # NoSession /\ Sound(t)
    BY <1>3, ReadingSession, AnsweredSound DEF Written
  <2> HIDE DEF t
  <2>2. QED
    BY <1>3, <2>1, HandlerStep DEF Written, Same, KInv, Shapes
<1>4. QED
  BY <1>1, <1>2, <1>3

(* An operation that does not start ends its session, or the session never *)
(* began.                                                                  *)
LEMMA NotStartedKInv ==
  ASSUME KInv, NEW i \in Connection, NotStarted(i)
  PROVE  KInv'
<1>1. faults' \in Nat /\ faults' >= faults /\ UNCHANGED <<status, mainRuns>>
  BY DEF NotStarted, Fault, KInv, Shapes
<1>2. ASSUME NEW k \in {"a", "b"}, HandlesLine(i, k), UNCHANGED peer,
             session' = [session EXCEPT ![i] = Ended(session[i], "memory")]
      PROVE  KInv'
  BY <1>1, <1>2, EndKInv DEF HandlesLine
<1>3. CASE /\ "write" \in session[i].ops /\ UNCHANGED peer
           /\ session' = [session EXCEPT ![i] = Ended(Delivered(session[i]), "memory")]
  BY <1>1, <1>3, EndKInv
<1>4. CASE /\ peer[i].at = "queued" /\ peer' = [peer EXCEPT ![i].at = "up"]
           /\ session' = [session EXCEPT ![i] = Ended(session[i], "memory")]
  <2>1. Sound(Ended(session[i], "memory")) /\ (Lost' => Lost) /\ mainRuns' \in BOOLEAN
    BY <1>1, EndedSound DEF Lost, KInv, Shapes
  <2>2. QED
    BY <1>1, <1>4, <2>1, AcceptStep
<1>5. QED
  BY <1>2, <1>3, <1>4 DEF NotStarted

(* A deadline closes the stream under its operation. *)
LEMMA TimeoutKInv ==
  ASSUME KInv, NEW i \in Connection, Timeout(i)
  PROVE  KInv'
<1> DEFINE t == [session[i] EXCEPT !.open = FALSE]
<1>1. session' = [session EXCEPT ![i] = t] /\ session[i] # NoSession /\ Sound(t)
  BY ReadingSession DEF Timeout, Sound, Fields
<1> HIDE DEF t
<1>2. QED
  BY <1>1, HandlerStep DEF Timeout, Same, KInv, Shapes

(* A signal loses no thread, nor does an accept that fails; the end of     *)
(* main() ends every session.                                              *)
LEMMA ProcessKInv ==
  ASSUME KInv, AcceptFails \/ Signal \/ Teardown
  PROVE  KInv'
<1>1. CASE AcceptFails
  BY <1>1 DEF AcceptFails, Fault, KInv, Shapes, Each, Lost, Dropped
<1>2. CASE Signal
  BY <1>2 DEF Signal, KInv, Shapes, Each, Lost, Dropped
<1>3. CASE Teardown
  <2>1. \A i \in Connection : session'[i] = Ended(session[i], session[i].log) /\ peer'[i] = peer[i]
    BY <1>3 DEF Teardown
  <2>2. Shapes' /\ ~Lost'
    BY <1>3 DEF Teardown, KInv, Shapes, Lost
  <2>3. ASSUME NEW i \in Connection PROVE Each(i)'
    <3>1. Sound(session'[i]) /\ IsPeer(peer'[i])
      BY <2>1, EndedSound DEF KInv, Each
    <3>2. Fresh(peer'[i], session'[i])
      BY <2>1, EndedTwice DEF KInv, Each, Fresh
    <3>3. QED
      BY <3>1, <3>2 DEF Each
  <2>4. QED
    BY <2>2, <2>3 DEF KInv
<1>4. QED
  BY <1>1, <1>2, <1>3

-----------------------------------------------------------------------------
(* main() has set everything up and nobody has connected. *)
LEMMA InitKInv == Init => KInv
BY NoSessionSound DEF Init, KInv, Shapes, Each, Fresh, IsPeer, Lost

(* Every step keeps it. *)
LEMMA NextKInv == KInv /\ [Next]_vars => KInv'
<1> SUFFICES ASSUME KInv, [Next]_vars PROVE KInv'
  OBVIOUS
<1>1. CASE UNCHANGED vars
  BY <1>1 DEF vars, KInv, Shapes, Each, Lost, Dropped
<1>2. CASE AcceptFails \/ Signal \/ Teardown
  BY <1>2, ProcessKInv
<1>3. ASSUME NEW i \in Connection,
             \/ Connect(i) \/ Finish(i) \/ Reset(i) \/ Listener(i) \/ ReadSome(i)
             \/ Handler(i) \/ Written(i) \/ NotStarted(i) \/ Timeout(i)
      PROVE  KInv'
  BY <1>3, PeerKInv, ListenerKInv, ReadSomeKInv, LineReadKInv, OtherHandlersKInv,
     NotStartedKInv, TimeoutKInv DEF Handler
<1>4. QED
  BY <1>1, <1>2, <1>3 DEF Next

(* KInv holds in every behaviour of the server. *)
THEOREM ServerInvariance == Spec => []KInv
<1>1. Init => KInv
  BY InitKInv
<1>2. KInv /\ [Next]_vars => KInv'
  BY NextKInv
<1>3. QED
  BY <1>1, <1>2, PTL DEF Spec

(* calc_session starts an operation only from the handler of the one       *)
(* before, so that two never use its buffers at a time; and no stream      *)
(* stays open that no operation owns.                                      *)
THEOREM OneOperationCorrect == Spec => []OneOperation
<1>1. ASSUME KInv PROVE OneOperation
  <2> SUFFICES ASSUME NEW i \in Connection
               PROVE  Cardinality(session[i].ops) <= 1 /\ (session[i].open => session[i].ops # {})
    BY DEF OneOperation
  <2>1. Sound(session[i])
    BY <1>1 DEF KInv, Each
  <2>2. /\ Cardinality({}) = 0 /\ Cardinality({"a"}) = 1
        /\ Cardinality({"b"}) = 1 /\ Cardinality({"write"}) = 1
    BY FS_EmptySet, FS_Singleton
  <2>3. Cardinality(session[i].ops) \in {0, 1}
    BY <2>1, <2>2, Zenon DEF Sound
  <2>4. QED
    BY <2>1, <2>3 DEF Sound
<1>2. QED
  BY <1>1, ServerInvariance, PTL

(* No exception of a session reaches a thread: where one is lost, the      *)
(* listener has dropped a connection before it had a session.              *)
THEOREM SessionsContainedCorrect == Spec => []SessionsContained
<1>1. ASSUME KInv PROVE SessionsContained
  BY <1>1 DEF KInv, Lost, Dropped, Gone, SessionsContained
<1>2. QED
  BY <1>1, ServerInvariance, PTL

-----------------------------------------------------------------------------
(* Numbers and sequences. *)

(* A non-empty set of numbers in an interval has a least one. *)
LEMMA LeastExists ==
  ASSUME NEW m \in Nat, NEW n \in Nat, NEW T \in SUBSET (m..n), T # {}
  PROVE  \E i \in T : \A j \in T : i <= j
<1> DEFINE Before(k) == {j \in T : j <= k}
           U == {Before(k) : k \in T}
<1>1. IsFiniteSet(T)
  <2>1. IsFiniteSet(m..n)
    BY FS_Interval
  <2>2. QED
    BY <2>1, FS_Subset
<1>2. U # {} /\ U \subseteq FiniteSubsetsOf(T)
  <2>1. ASSUME NEW k \in T PROVE Before(k) \in SUBSET T /\ IsFiniteSet(Before(k))
    <3>1. Before(k) \in SUBSET T
      OBVIOUS
    <3>2. QED
      BY <1>1, <3>1, FS_Subset
  <2>2. QED
    BY <2>1 DEF FiniteSubsetsOf
<1>3. PICK V \in U : \A W \in U : ~(<<W, V>> \in StrictSubsetOrdering(T))
  BY <1>2, WFMin, FS_StrictSubsetOrderingWellFounded
<1>4. PICK k \in T : V = Before(k)
  OBVIOUS
<1>5. SUFFICES ASSUME NEW j \in T, ~(k <= j) PROVE FALSE
  BY <1>4
<1>6. Before(j) \subseteq Before(k) /\ k \in Before(k) /\ k \notin Before(j)
  <2>1. j <= k /\ \A i \in T : i <= j => i <= k
    BY <1>5
  <2>2. Before(j) \subseteq Before(k)
    BY <2>1
  <2>3. k \in Before(k) /\ k \notin Before(j)
    BY <1>5
  <2>4. QED
    BY <2>2, <2>3
<1>7. Before(j) \in U /\ Before(j) \subseteq T
  BY Zenon
<1> HIDE DEF Before
<1>8. <<Before(j), Before(k)>> \in StrictSubsetOrdering(T)
  BY <1>6, <1>7 DEF StrictSubsetOrdering, Before
<1> QED
  BY <1>3, <1>4, <1>7, <1>8

(* A set that holds 0, and with each number up to n the next one, holds    *)
(* all of them.                                                            *)
LEMMA Upwards ==
  ASSUME NEW n \in Nat, NEW S, 0 \in S, \A k \in 0..n : k \in S /\ k < n => k + 1 \in S
  PROVE  0..n \subseteq S
<1> DEFINE T == {k \in 0..n : k \notin S}
<1>1. SUFFICES ASSUME T # {} PROVE FALSE
  OBVIOUS
<1>2. PICK i \in T : \A j \in T : i <= j
  <2>1. T \in SUBSET (0..n)
    OBVIOUS
  <2> HIDE DEF T
  <2>2. QED
    BY <1>1, <2>1, LeastExists
<1>3. i - 1 \in 0..n /\ i - 1 < n /\ i - 1 + 1 = i /\ i - 1 \notin T
  BY <1>2
<1>4. i - 1 \in S
  BY <1>3
<1>5. QED
  BY <1>3, <1>4

(* The end of a sequence. *)
LEMMA TailFacts ==
  ASSUME NEW T, NEW s \in Seq(T), NEW k \in 0..Len(s)
  PROVE  /\ SubSeq(s, k + 1, Len(s)) \in Seq(T)
         /\ Len(SubSeq(s, k + 1, Len(s))) = Len(s) - k
         /\ \A j \in 1..Len(s) - k : /\ k + j \in 1..Len(s)
                                     /\ SubSeq(s, k + 1, Len(s))[j] = s[k + j]
  OBVIOUS

(* f holds the values of the beginnings of t. *)
Digits(f, t, n) == f = [k \in 0..n |-> IF k = 0 THEN 0 ELSE 10 * f[k - 1] + t[k]]

(* There are such values, ... *)
LEMMA DigitsExist ==
  ASSUME NEW t, NEW n \in Nat
  PROVE  \E f : Digits(f, t, n)
<1> DEFINE S == {l \in 0..n : \E f : Digits(f, t, l)}
<1>1. 0 \in S
  <2> DEFINE f == [k \in 0..0 |-> 0]
  <2>1. Digits(f, t, 0)
    BY DEF Digits
  <2> HIDE DEF f
  <2>2. QED
    BY <2>1
<1>2. ASSUME NEW l \in 0..n, l \in S, l < n PROVE l + 1 \in S
  <2>1. PICK f : Digits(f, t, l)
    BY <1>2
  <2> DEFINE g == [k \in 0..l + 1 |-> IF k = 0 THEN 0 ELSE 10 * f[k - 1] + t[k]]
  <2>2. ASSUME NEW k \in 0..l PROVE g[k] = f[k]
    <3>1. f[k] = IF k = 0 THEN 0 ELSE 10 * f[k - 1] + t[k]
      BY <2>1, Zenon DEF Digits
    <3>2. QED
      BY <3>1
  <2>3. ASSUME NEW k \in 0..l + 1, k # 0 PROVE f[k - 1] = g[k - 1]
    <3>1. k - 1 \in 0..l
      BY <2>3
    <3> HIDE DEF g
    <3>2. QED
      BY <2>2, <3>1, Zenon
  <2>4. Digits(g, t, l + 1)
    BY <2>3, Zenon DEF Digits
  <2>5. l + 1 \in 0..n
    BY <1>2
  <2> HIDE DEF g
  <2>6. QED
    BY <2>4, <2>5
<1> HIDE DEF S
<1>3. 0..n \subseteq S
  BY <1>1, <1>2, Upwards, Zenon
<1>4. n \in S
  BY <1>3
<1>5. QED
  BY <1>4 DEF S

(* ... and they are numbers. *)
LEMMA ValueType ==
  ASSUME NEW t \in Seq(Nat)
  PROVE  Value(t) \in Nat
<1>1. Value(t) = (CHOOSE f : Digits(f, t, Len(t)))[Len(t)]
  BY Zenon DEF Value, Digits
<1>2. PICK f : f = (CHOOSE g : Digits(g, t, Len(t))) /\ Digits(f, t, Len(t))
  <2>1. \E g : Digits(g, t, Len(t))
    <3>1. Len(t) \in Nat
      OBVIOUS
    <3>2. QED
      BY <3>1, DigitsExist, Zenon
  <2>2. QED
    BY <2>1, Zenon
<1> DEFINE S == {k \in 0..Len(t) : f[k] \in Nat}
<1>3. ASSUME NEW k \in 0..Len(t)
      PROVE  f[k] = IF k = 0 THEN 0 ELSE 10 * f[k - 1] + t[k]
  BY <1>2, Zenon DEF Digits
<1>4. 0 \in S
  BY <1>3
<1>5. ASSUME NEW k \in 0..Len(t), k \in S, k < Len(t) PROVE k + 1 \in S
  <2>1. PICK l \in 1..Len(t) : l = k + 1 /\ l - 1 = k
    BY <1>5
  <2>2. f[l] = 10 * f[k] + t[l] /\ t[l] \in Nat /\ f[k] \in Nat
    BY <1>3, <1>5, <2>1
  <2>3. QED
    BY <2>1, <2>2
<1> HIDE DEF S
<1>6. 0..Len(t) \subseteq S
  <2>1. Len(t) \in Nat
    OBVIOUS
  <2>2. QED
    BY <1>4, <1>5, <2>1, Upwards, Zenon
<1>7. f[Len(t)] \in Nat
  BY <1>6 DEF S
<1>8. QED
  BY <1>1, <1>2, <1>7

-----------------------------------------------------------------------------
(* Lines. *)

Chars == (1..9) \cup {NL, Bad}

(* Position c of t ends a line, or nothing has been used of t. *)
Start(t, c) == c \in 0..Len(t) /\ (c = 0 \/ t[c] = NL)

(* Used(t, c) is the number of lines up to c. *)
Used(t, c) == Cardinality(Ends(t, c))

(* There are as many ends of lines as has been counted. *)
LEMMA EndsFinite ==
  ASSUME NEW t, NEW n \in Nat
  PROVE  IsFiniteSet(Ends(t, n)) /\ Used(t, n) \in Nat
<1>1. IsFiniteSet(1..n) /\ Ends(t, n) \in SUBSET (1..n)
  BY FS_Interval DEF Ends
<1>2. IsFiniteSet(Ends(t, n))
  BY <1>1, FS_Subset
<1>3. QED
  BY <1>2, FS_CardinalityType DEF Used

(* Further on there are no fewer, and more behind another end. *)
LEMMA EndsGrow ==
  ASSUME NEW t, NEW m \in Nat, NEW n \in Nat, m <= n
  PROVE  /\ Used(t, m) <= Used(t, n)
         /\ m < n /\ t[n] = NL => Used(t, m) < Used(t, n)
<1>1. Ends(t, m) \in SUBSET Ends(t, n)
  BY DEF Ends
<1>2. m < n /\ t[n] = NL => Ends(t, m) # Ends(t, n)
  BY DEF Ends
<1>3. IsFiniteSet(Ends(t, n)) /\ Used(t, n) \in Nat /\ Used(t, m) \in Nat
  BY EndsFinite
<1>4. QED
  BY <1>1, <1>2, <1>3, FS_Subset DEF Used

(* Up to the next end there is one more. *)
LEMMA EndsNext ==
  ASSUME NEW t, NEW c \in Nat, NEW e \in Nat, c < e, t[e] = NL,
         \A j \in c + 1..e - 1 : t[j] # NL
  PROVE  Used(t, e) = Used(t, c) + 1
<1>1. Ends(t, e) = Ends(t, c) \cup {e} /\ e \notin Ends(t, c)
  BY DEF Ends
<1>2. QED
  BY <1>1, EndsFinite, FS_AddElement DEF Used

(* A line ends where as many lines end as its number says. *)
LEMMA LineEndIs ==
  ASSUME NEW t, NEW c, Len(t) \in Nat, Start(t, c)
  PROVE  LineEnd(t, Used(t, c)) = c
<1>1. c \in Nat /\ c <= Len(t) /\ Used(t, c) \in Nat
  BY EndsFinite DEF Start
<1>2. CASE c = 0
  <2>1. Ends(t, c) = {}
    BY <1>2 DEF Ends
  <2>2. Used(t, c) = 0
    BY <2>1, FS_EmptySet DEF Used
  <2>3. QED
    BY <1>2, <2>2 DEF LineEnd
<1>3. CASE c # 0
  <2>1. Used(t, c) # 0 /\ c \in Ends(t, Len(t))
    <3>1. 0 \in Nat /\ 0 <= c /\ 0 < c /\ t[c] = NL
      BY <1>1, <1>3 DEF Start
    <3>2. Used(t, 0) < Used(t, c) /\ Used(t, 0) \in Nat
      BY <1>1, <3>1, EndsGrow, EndsFinite
    <3>3. QED
      BY <1>1, <3>1, <3>2 DEF Ends
  <2> DEFINE Is(e) == e \in Ends(t, Len(t)) /\ Cardinality(Ends(t, e)) = Used(t, c)
  <2>2. Is(c)
    BY <2>1 DEF Used
  <2>3. ASSUME NEW e, Is(e) PROVE e = c
    <3>1. e \in Nat /\ t[e] = NL /\ t[c] = NL /\ Used(t, e) = Used(t, c)
      BY <1>1, <1>3, <2>3 DEF Start, Ends, Used
    <3>2. ~(e < c) /\ ~(c < e)
      BY <1>1, <3>1, EndsGrow
    <3>3. QED
      BY <1>1, <3>1, <3>2
  <2>4. LineEnd(t, Used(t, c)) = CHOOSE e : Is(e)
    BY <2>1, Zenon DEF LineEnd
  <2> HIDE DEF Is
  <2>5. QED
    BY <2>2, <2>3, <2>4, Zenon
<1>4. QED
  BY <1>2, <1>3

(* The end e follows c. *)
Follows(t, c, e) ==
  /\ Start(t, c) /\ e \in c + 1..Len(t) /\ t[e] = NL
  /\ \A j \in c + 1..e - 1 : t[j] # NL

(* What lies between two ends that follow each other is a line. *)
LEMMA LineBetween ==
  ASSUME NEW t, NEW c, NEW e, Len(t) \in Nat, Follows(t, c, e)
  PROVE  /\ Start(t, e) /\ Used(t, e) = Used(t, c) + 1
         /\ Used(t, e) \in DOMAIN LinesOf(t)
         /\ LinesOf(t)[Used(t, e)] = SubSeq(t, c + 1, e - 1)
<1>1. c \in Nat /\ e \in Nat /\ c < e /\ e <= Len(t) /\ Start(t, c) /\ Start(t, e)
  BY DEF Follows, Start
<1>2. Used(t, e) = Used(t, c) + 1 /\ Used(t, c) \in Nat /\ Used(t, e) - 1 = Used(t, c)
  BY <1>1, EndsNext, EndsFinite DEF Follows
<1>3. LineEnd(t, Used(t, c)) = c /\ LineEnd(t, Used(t, e)) = e
  BY <1>1, LineEndIs
<1>4. Used(t, e) \in 1..Used(t, Len(t))
  <2>1. Used(t, e) <= Used(t, Len(t)) /\ Used(t, Len(t)) \in Nat
    BY <1>1, EndsGrow, EndsFinite
  <2>2. QED
    BY <1>2, <2>1
<1>5. LinesOf(t) = [k \in 1..Used(t, Len(t)) |->
                      SubSeq(t, LineEnd(t, k - 1) + 1, LineEnd(t, k) - 1)]
  BY DEF LinesOf, Used
<1> HIDE DEF LinesOf
<1>6. /\ Used(t, e) \in DOMAIN LinesOf(t)
      /\ LinesOf(t)[Used(t, e)] =
           SubSeq(t, LineEnd(t, Used(t, e) - 1) + 1, LineEnd(t, Used(t, e)) - 1)
  BY <1>4, <1>5, Zenon
<1>7. QED
  BY <1>1, <1>2, <1>3, <1>6

-----------------------------------------------------------------------------
(* The invariant of what is read and answered. *)

(* What peer p has not sent yet, or lost, is the end of its script, behind *)
(* position m.                                                             *)
Rest(p, m) ==
  /\ m \in 0..Len(p.script) /\ Len(p.left) = Len(p.script) - m
  /\ \A j \in DOMAIN p.left : p.left[j] = p.script[m + j]

PeerRight(p, i) ==
  /\ p.at \in {"away", "queued", "up", "finished", "reset", "early"}
  /\ p.script \in Scripts[i] \cup {<< >>} /\ p.left \in Seq(Chars)
  /\ \E m \in Nat : Rest(p, m)
  /\ p.at = "queued" => Rest(p, 0)

(* The types of a session, if l says whether there are limits; only limits *)
(* have deadlines, and only a deadline closes a stream under an operation. *)
SessionRight(s, l) ==
  /\ s.in \in Seq(Chars) /\ s.a \in Nat /\ s.out \in Nat /\ s.got \in Seq(Nat)
  /\ s.log \in {"none", "closed", "eof", "reset", "long", "parse", "timeout", "memory"}
  /\ l => Len(s.in) <= NumberLimit
  /\ s.timed \in BOOLEAN /\ (s.timed => l)
  /\ s.ops # {} /\ ~s.open => l

(* The answers to script t. *)
Products(t, got) ==
  \A k \in DOMAIN got :
    /\ 2 * k <= Len(LinesOf(t))
    /\ got[k] = Value(LinesOf(t)[2 * k - 1]) * Value(LinesOf(t)[2 * k])

(* Session s has used the script of p up to position c, which ends a line; *)
(* it holds what follows in its buffer and the rest is still to come.  The *)
(* lines that it has used are those of its answers and of its operation.   *)
At(p, s, c) ==
  LET n == 2 * Len(s.got)  ls == LinesOf(p.script)
  IN /\ Start(p.script, c) /\ c + Len(s.in) <= Len(p.script)
     /\ \A j \in DOMAIN s.in : s.in[j] = p.script[c + j]
     /\ p.left # << >> => Rest(p, c + Len(s.in))
     /\ "a" \in s.ops => Used(p.script, c) = n
     /\ "b" \in s.ops => Used(p.script, c) = n + 1 /\ s.a = Value(ls[n + 1])
     /\ "write" \in s.ops =>
          Used(p.script, c) = n + 2 /\ s.out = Value(ls[n + 1]) * Value(ls[n + 2])

(* A reason why a session has ended, if f is the number of faults. *)
Reason(p, log, l, f) ==
  LET ls == LinesOf(p.script \o <<NL>>)
  IN /\ log \in {"closed", "eof"} => p.at = "finished" /\ p.left = << >>
     /\ log = "reset" => p.at \in {"reset", "finished"}
     /\ log = "parse" => \E j \in DOMAIN ls : ~Parses(ls[j])
     /\ log = "long" => l /\ \E j \in DOMAIN ls : Len(ls[j]) >= NumberLimit
     /\ log = "timeout" => l
     /\ log = "memory" => f > 0

Served(p, s, i, l, f) ==
  /\ PeerRight(p, i) /\ SessionRight(s, l) /\ Products(p.script, s.got)
  /\ s.ops # {} => \E c \in Nat : At(p, s, c)
  /\ Reason(p, s.log, l, f)

Process ==
  /\ limited \in BOOLEAN /\ status \in {"running", "stopped", "ended", "killed"}
  /\ mainRuns \in BOOLEAN /\ pool \in PoolSizes \cup {0} /\ accepting \in BOOLEAN
  /\ faults \in 0..MaxFaults

AnswerInv ==
  /\ KInv /\ Process
  /\ \A i \in Connection : Served(peer[i], session[i], i, limited, faults)

-----------------------------------------------------------------------------
(* One session and its peer. *)

LEMMA ScriptType ==
  ASSUME NEW i \in Connection, NEW p, PeerRight(p, i)
  PROVE  p.script \in Seq(Chars) /\ Len(p.script) \in Nat
<1>1. p.script \in Seq(Chars)
  <2>1. Scripts[i] \subseteq Seq(Chars)
    BY CalcAssumption DEF Connection, Chars
  <2>2. << >> \in Seq(Chars)
    OBVIOUS
  <2>3. QED
    BY <2>1, <2>2, Zenon DEF PeerRight
<1>2. QED
  BY <1>1

(* A further fault changes nothing for a session. *)
LEMMA MoreFaults ==
  ASSUME NEW p, NEW s, NEW i, NEW l, NEW f \in Nat, NEW g \in Nat, f <= g, Served(p, s, i, l, f)
  PROVE  Served(p, s, i, l, g)
<1>1. Reason(p, s.log, l, g)
  BY DEF Served, Reason
<1>2. QED
  BY <1>1 DEF Served

(* A session that ends keeps its answers and tells a reason. *)
LEMMA EndServed ==
  ASSUME NEW p, NEW s, NEW i, NEW l, NEW f, NEW g,
         PeerRight(p, i), s.got \in Seq(Nat), Products(p.script, s.got),
         NEW why \in {"none", "closed", "eof", "reset", "long", "parse", "timeout", "memory"},
         Reason(p, why, l, f)
  PROVE  Served(p, Ended(s, why), i, l, f)
<1> DEFINE e == Ended(s, why)
<1>1. /\ e.in = << >> /\ e.a = 0 /\ e.out = 0 /\ e.got = s.got /\ e.log = why
      /\ e.timed = FALSE /\ e.ops = {} /\ ~e.open
  BY DEF Ended, NoSession
<1> HIDE DEF e
<1>2. SessionRight(e, l)
  <2>1. << >> \in Seq(Chars) /\ Len(<< >>) <= NumberLimit
    BY CalcAssumption
  <2>2. e.timed \in BOOLEAN /\ (e.timed => l) /\ (e.ops # {} /\ ~e.open => l)
    BY <1>1, Zenon
  <2>3. QED
    BY <1>1, <2>1, <2>2 DEF SessionRight
<1>3. QED
  BY <1>1, <1>2 DEF Served, e

(* A session begins with the whole script before it. *)
LEMMA StartServed ==
  ASSUME NEW i \in Connection, NEW p, NEW q, NEW f, PeerRight(p, i), p.at = "queued",
         q.at = "up", q.script = p.script, q.left = p.left, limited \in BOOLEAN
  PROVE  Served(q, Reading([NoSession EXCEPT !.open = TRUE]), i, limited, f)
<1> DEFINE r == Reading([NoSession EXCEPT !.open = TRUE])
<1>1. /\ r.in = << >> /\ r.a = 0 /\ r.out = 0 /\ r.got = << >> /\ r.log = "none"
      /\ r.timed = limited /\ r.ops = {"a"} /\ r.open
  BY DEF Reading, NoSession
<1> HIDE DEF r
<1>2. SessionRight(r, limited)
  BY <1>1, CalcAssumption DEF SessionRight
<1>3. PeerRight(q, i) /\ Rest(q, 0)
  BY DEF PeerRight, Rest
<1>4. At(q, r, 0)
  <2>1. Used(q.script, 0) = 0
    BY FS_EmptySet DEF Used, Ends
  <2>2. Start(q.script, 0)
    BY <1>3 DEF Rest, Start
  <2>3. Len(q.script) \in Nat
    BY ScriptType
  <2>4. QED
    BY <1>1, <1>3, <2>1, <2>2, <2>3 DEF At
<1>5. Products(q.script, r.got) /\ Reason(q, r.log, limited, f)
  BY <1>1 DEF Products, Reason
<1>6. QED
  BY <1>2, <1>3, <1>4, <1>5 DEF Served, r

(* The beginning of what is left is appended to the buffer. *)
LEMMA ReadServed ==
  ASSUME NEW i \in Connection, NEW p, NEW s, NEW l, NEW f, Served(p, s, i, l, f),
         DOMAIN s = Fields, IsPeer(p), p.at # "queued", s.ops # {}, NEW k \in 1..Len(p.left),
         l => k <= NumberLimit - Len(s.in)
  PROVE  Served([p EXCEPT !.left = SubSeq(p.left, k + 1, Len(p.left))],
                [s EXCEPT !.in = s.in \o SubSeq(p.left, 1, k)], i, l, f)
<1> DEFINE q == [p EXCEPT !.left = SubSeq(p.left, k + 1, Len(p.left))]
           t == [s EXCEPT !.in = s.in \o SubSeq(p.left, 1, k)]
<1>1. p.left \in Seq(Chars) /\ s.in \in Seq(Chars) /\ Len(p.script) \in Nat
  BY ScriptType DEF Served, PeerRight, SessionRight
<1>2. /\ q.at = p.at /\ q.script = p.script
      /\ q.left = SubSeq(p.left, k + 1, Len(p.left))
  BY DEF IsPeer
<1>3. /\ t.a = s.a /\ t.out = s.out /\ t.got = s.got /\ t.log = s.log /\ t.timed = s.timed
      /\ t.ops = s.ops /\ t.open = s.open /\ t.in = s.in \o SubSeq(p.left, 1, k)
  BY DEF Fields
<1> HIDE DEF q, t
<1>4. /\ q.left \in Seq(Chars) /\ Len(q.left) = Len(p.left) - k
      /\ \A j \in DOMAIN q.left : j + k \in DOMAIN p.left /\ q.left[j] = p.left[j + k]
  BY <1>1, <1>2
<1>5. /\ t.in \in Seq(Chars) /\ Len(t.in) = Len(s.in) + k
      /\ \A j \in DOMAIN t.in : t.in[j] =
           IF j <= Len(s.in) THEN s.in[j] ELSE p.left[j - Len(s.in)]
  <2>1. PICK old : old = s.in
    OBVIOUS
  <2>2. PICK more : more = SubSeq(p.left, 1, k)
    OBVIOUS
  <2>3. more \in Seq(Chars) /\ Len(more) = k /\ \A j \in 1..k : more[j] = p.left[j]
    BY <1>1, <2>2
  <2>4. old \in Seq(Chars) /\ Len(old) \in Nat /\ k \in Nat
    BY <1>1, <2>1
  <2>5. /\ old \o more \in Seq(Chars) /\ Len(old \o more) = Len(old) + k
        /\ \A j \in 1..Len(old) + k :
             (old \o more)[j] = IF j <= Len(old) THEN old[j] ELSE p.left[j - Len(old)]
    <3>1. /\ old \o more \in Seq(Chars) /\ Len(old \o more) = Len(old) + Len(more)
          /\ \A j \in 1..Len(old) + Len(more) :
               (old \o more)[j] = IF j <= Len(old) THEN old[j] ELSE more[j - Len(old)]
      <4>1. old \in Seq(Chars) /\ more \in Seq(Chars)
        BY <2>3, <2>4
      <4>2. QED
        BY <4>1
    <3>2. ASSUME NEW j \in 1..Len(old) + k, ~(j <= Len(old)) PROVE j - Len(old) \in 1..k
      BY <2>4, <3>2
    <3>3. QED
      BY <2>3, <3>1, <3>2, Zenon
  <2>6. t.in = old \o more
    BY <1>3, <2>1, <2>2
  <2>7. PICK new : new = t.in
    OBVIOUS
  <2>8. /\ new \in Seq(Chars) /\ Len(new) = Len(old) + k /\ DOMAIN new = 1..Len(old) + k
        /\ \A j \in 1..Len(old) + k :
             new[j] = IF j <= Len(old) THEN old[j] ELSE p.left[j - Len(old)]
    BY <2>4, <2>5, <2>6, <2>7
  <2>9. QED
    BY <2>1, <2>7, <2>8, Zenon
<1>6. PICK c \in Nat : At(p, s, c)
  BY DEF Served
<1>7. Rest(p, c + Len(s.in))
  BY <1>1, <1>6 DEF At
<1>8. Rest(q, c + Len(t.in))
  <2>1. /\ c + Len(t.in) \in 0..Len(q.script) /\ Len(q.left) = Len(q.script) - (c + Len(t.in))
        /\ Len(s.in) \in Nat /\ DOMAIN q.left = 1..Len(q.left)
    <3>1. Len(p.left) = Len(p.script) - (c + Len(s.in)) /\ c + Len(s.in) \in 0..Len(p.script)
      BY <1>7 DEF Rest
    <3>2. /\ Len(s.in) \in Nat /\ Len(p.left) \in Nat /\ k \in 1..Len(p.left)
          /\ DOMAIN q.left = 1..Len(q.left)
      BY <1>1, <1>4
    <3>3. q.script = p.script /\ Len(q.left) = Len(p.left) - k /\ Len(t.in) = Len(s.in) + k
      BY <1>2, <1>4, <1>5
    <3>4. QED
      BY <1>1, <3>1, <3>2, <3>3
  <2>2. ASSUME NEW j \in DOMAIN q.left PROVE q.left[j] = q.script[c + Len(t.in) + j]
    <3>1. c + Len(s.in) + (j + k) = c + Len(t.in) + j
      BY <1>5, <2>1, <2>2
    <3>2. p.left[j + k] = p.script[c + Len(s.in) + (j + k)]
      BY <1>4, <1>7 DEF Rest
    <3>3. QED
      BY <1>2, <1>4, <3>1, <3>2
  <2>3. QED
    BY <2>1, <2>2 DEF Rest
<1>9. At(q, t, c)
  <2>1. Start(q.script, c) /\ c + Len(t.in) <= Len(q.script)
    BY <1>2, <1>6, <1>8 DEF At, Rest
  <2>2. ASSUME NEW j \in DOMAIN t.in PROVE t.in[j] = q.script[c + j]
    <3>1. CASE j <= Len(s.in)
      BY <1>1, <1>2, <1>5, <1>6, <2>2, <3>1 DEF At
    <3>2. CASE ~(j <= Len(s.in))
      <4>1. j - Len(s.in) \in DOMAIN p.left /\ c + Len(s.in) + (j - Len(s.in)) = c + j
        BY <1>1, <1>5, <2>2, <3>2
      <4>2. QED
        BY <1>2, <1>5, <1>7, <2>2, <3>2, <4>1 DEF Rest
    <3>3. QED
      BY <3>1, <3>2
  <2>3. QED
    BY <1>2, <1>3, <1>6, <1>8, <2>1, <2>2 DEF At
<1>10. PeerRight(q, i)
  <2>1. \E m \in Nat : Rest(q, m)
    BY <1>1, <1>5, <1>8
  <2>2. QED
    BY <1>2, <1>4, <2>1 DEF Served, PeerRight
<1>11. SessionRight(t, l)
  BY <1>1, <1>3, <1>5, CalcAssumption DEF Served, SessionRight
<1>12. Products(q.script, t.got) /\ Reason(q, t.log, l, f)
  BY <1>1, <1>2, <1>3 DEF Served, Reason
<1>13. QED
  BY <1>6, <1>9, <1>10, <1>11, <1>12 DEF Served, q, t

-----------------------------------------------------------------------------
(* The handler of a line. *)

(* The first line of t ends at f. *)
FirstEnd(t, f) ==
  /\ f \in 1..Len(t) /\ t[f] = NL /\ \A j \in 1..f - 1 : t[j] # NL
  /\ FirstLine(t) = SubSeq(t, 1, f - 1) /\ AfterLine(t) = SubSeq(t, f + 1, Len(t))

LEMMA FirstEndExists ==
  ASSUME NEW t \in Seq(Chars), HasLine(t)
  PROVE  \E f : FirstEnd(t, f)
<1> DEFINE I == {j \in 1..Len(t) : t[j] = NL}
           f == CHOOSE x \in I : \A y \in I : x <= y
<1>1. I # {} /\ I \in SUBSET (1..Len(t)) /\ Len(t) \in Nat
  BY DEF HasLine, Contains
<1>2. f \in I /\ \A y \in I : f <= y
  <2>1. \E x \in I : \A y \in I : x <= y
    <3>1. 1 \in Nat
      OBVIOUS
    <3> HIDE DEF I
    <3>2. QED
      BY <1>1, <3>1, LeastExists, Zenon
  <2> HIDE DEF I
  <2>2. QED
    BY <2>1, Zenon
<1>3. SelectInSeq(t, LAMBDA c : c = NL) = f
  BY <1>1, Zenon DEF SelectInSeq, Min
<1> HIDE DEF f
<1>4. f \in 1..Len(t) /\ t[f] = NL /\ \A j \in 1..f - 1 : t[j] # NL
  BY <1>1, <1>2
<1>5. FirstLine(t) = SubSeq(t, 1, f - 1) /\ AfterLine(t) = SubSeq(t, f + 1, Len(t))
  BY <1>3, Zenon DEF FirstLine, AfterLine
<1>6. QED
  BY <1>4, <1>5 DEF FirstEnd

(* e is where the line ends that a session reads next, and the rest of its *)
(* buffer follows.                                                         *)
NextLine(p, s, c, e) ==
  LET k == Used(p.script, e)  rest == Erased(s.in)
  IN /\ Start(p.script, e) /\ e \in Nat /\ k = Used(p.script, c) + 1
     /\ k \in DOMAIN LinesOf(p.script) /\ LinesOf(p.script)[k] = FirstLine(s.in)
     /\ rest \in Seq(Chars) /\ Len(rest) <= Len(s.in)
     /\ e + Len(rest) = c + Len(s.in)
     /\ \A j \in DOMAIN rest : rest[j] = p.script[e + j]
     /\ \E j \in DOMAIN LinesOf(p.script \o <<NL>>) :
          LinesOf(p.script \o <<NL>>)[j] = FirstLine(s.in)

(* The line between two ends is a line of the script that an end is        *)
(* appended to as well.                                                    *)
LEMMA LineOfMore ==
  ASSUME NEW t \in Seq(Chars), NEW c, NEW e \in c + 1..Len(t) + 1, Start(t, c),
         e <= Len(t) => t[e] = NL, \A j \in c + 1..e - 1 : t[j] # NL
  PROVE  \E j \in DOMAIN LinesOf(t \o <<NL>>) :
           LinesOf(t \o <<NL>>)[j] = SubSeq(t, c + 1, e - 1)
<1> DEFINE u == t \o <<NL>>
<1>1. NL \in Chars
  BY DEF Chars
<1>2. /\ Len(u) = Len(t) + 1 /\ Len(t) \in Nat /\ u \in Seq(Chars)
      /\ u[Len(t) + 1] = NL /\ \A j \in 1..Len(t) : u[j] = t[j]
  BY <1>1
<1> HIDE DEF u
<1>3. c \in Nat /\ c <= Len(t)
  BY <1>2 DEF Start
<1>4. Start(u, c)
  BY <1>2, <1>3 DEF Start
<1>5. Follows(u, c, e)
  BY <1>2, <1>3, <1>4 DEF Follows
<1>6. Used(u, e) \in DOMAIN LinesOf(u) /\ LinesOf(u)[Used(u, e)] = SubSeq(u, c + 1, e - 1)
  <2>1. Len(u) \in Nat
    BY <1>2
  <2>2. QED
    BY <1>5, <2>1, LineBetween
<1>7. SubSeq(u, c + 1, e - 1) = SubSeq(t, c + 1, e - 1)
  <2>1. e - 1 <= Len(t) /\ e - 1 <= Len(u)
    BY <1>2, <1>3
  <2>2. QED
    BY <1>2, <1>3, <2>1
<1>8. QED
  BY <1>6, <1>7 DEF u

LEMMA NextLineExists ==
  ASSUME NEW i \in Connection, NEW p, NEW s, NEW c \in Nat, PeerRight(p, i),
         s.in \in Seq(Chars), At(p, s, c), HasLine(s.in)
  PROVE  \E e : NextLine(p, s, c, e)
<1>1. PICK f : FirstEnd(s.in, f)
  BY FirstEndExists
<1>2. /\ f \in 1..Len(s.in) /\ Len(s.in) \in Nat
      /\ f \in Nat /\ 1 <= f /\ f <= Len(s.in) /\ s.in[f] = NL
  BY <1>1 DEF FirstEnd
<1>0. PICK e \in Nat : e = c + f
  BY <1>2
<1> DEFINE t == p.script
<1>3. t \in Seq(Chars) /\ Len(t) \in Nat
  BY ScriptType
<1>4. Start(t, c) /\ c + Len(s.in) <= Len(t) /\ \A j \in 1..Len(s.in) : s.in[j] = t[c + j]
  BY <1>2 DEF At
<1> HIDE DEF t
<1>5. e \in c + 1..Len(t) /\ t[e] = NL
  BY <1>0, <1>2, <1>3, <1>4
<1>6. ASSUME NEW j \in c + 1..e - 1 PROVE t[j] # NL
  <2>1. j - c \in 1..f - 1 /\ j - c \in 1..Len(s.in) /\ c + (j - c) = j
    BY <1>0, <1>2
  <2>2. QED
    BY <1>1, <1>4, <2>1 DEF FirstEnd
<1>7. FirstLine(s.in) = SubSeq(t, c + 1, e - 1)
  <2> DEFINE a == SubSeq(s.in, 1, f - 1)
             b == SubSeq(t, c + 1, e - 1)
  <2>1. /\ a \in Seq(Chars) /\ Len(a) = f - 1
        /\ \A j \in 1..f - 1 : a[j] = s.in[j]
    BY <1>2
  <2>2. /\ b \in Seq(Chars) /\ Len(b) = f - 1
        /\ \A j \in 1..f - 1 : b[j] = t[c + j]
    BY <1>0, <1>2, <1>3, <1>5
  <2> HIDE DEF a, b
  <2>3. a = b
    <3>1. \A j \in 1..Len(a) : a[j] = b[j]
      BY <1>2, <1>4, <2>1, <2>2
    <3>2. QED
      BY <2>1, <2>2, <3>1, SeqEqual
  <2>4. QED
    BY <1>1, <2>3 DEF FirstEnd, a, b
<1>8. /\ Start(t, e) /\ Used(t, e) = Used(t, c) + 1
      /\ Used(t, e) \in DOMAIN LinesOf(t) /\ LinesOf(t)[Used(t, e)] = FirstLine(s.in)
  <2>1. Follows(t, c, e)
    BY <1>4, <1>5, <1>6 DEF Follows
  <2>2. /\ Start(t, e) /\ Used(t, e) = Used(t, c) + 1
        /\ Used(t, e) \in DOMAIN LinesOf(t)
        /\ LinesOf(t)[Used(t, e)] = SubSeq(t, c + 1, e - 1)
    BY <1>3, <2>1, LineBetween
  <2>3. QED
    BY <1>7, <2>2, Zenon
<1>9. \E j \in DOMAIN LinesOf(t \o <<NL>>) : LinesOf(t \o <<NL>>)[j] = FirstLine(s.in)
  <2>1. e \in c + 1..Len(t) + 1
    BY <1>3, <1>5
  <2>2. (e <= Len(t) => t[e] = NL) /\ \A j \in c + 1..e - 1 : t[j] # NL
    BY <1>5, <1>6
  <2>3. \E j \in DOMAIN LinesOf(t \o <<NL>>) :
          LinesOf(t \o <<NL>>)[j] = SubSeq(t, c + 1, e - 1)
    BY <1>3, <1>4, <2>1, <2>2, LineOfMore, Zenon
  <2>4. QED
    BY <1>7, <2>3, Zenon
<1> DEFINE rest == Erased(s.in)
<1>10. rest = SubSeq(s.in, f + 1, Len(s.in))
  BY <1>1 DEF FirstEnd, Erased
<1>11. /\ rest \in Seq(Chars) /\ Len(rest) = Len(s.in) - f
       /\ \A j \in DOMAIN rest : f + j \in 1..Len(s.in) /\ rest[j] = s.in[f + j]
  <2>1. f \in 0..Len(s.in) /\ s.in \in Seq(Chars)
    BY <1>2
  <2> HIDE DEF rest
  <2>2. /\ rest \in Seq(Chars) /\ Len(rest) = Len(s.in) - f
        /\ \A j \in 1..Len(s.in) - f : f + j \in 1..Len(s.in) /\ rest[j] = s.in[f + j]
    BY <1>10, <2>1, TailFacts, Zenon
  <2>3. QED
    BY <2>2
<1> HIDE DEF rest
<1>12. ASSUME NEW j \in DOMAIN rest PROVE rest[j] = t[e + j]
  <2>1. c + (f + j) = e + j
    <3>1. j \in Nat
      BY <1>11
    <3>2. QED
      BY <1>0, <1>2, <3>1
  <2>2. QED
    BY <1>4, <1>11, <2>1
<1>13. e \in Nat /\ Len(rest) <= Len(s.in) /\ e + Len(rest) = c + Len(s.in)
  <2>1. PICK n \in Nat : n = Len(s.in)
    BY <1>2
  <2>2. Len(rest) = n - f /\ f \in Nat /\ f <= n
    BY <1>2, <1>11, <2>1
  <2>3. PICK r \in Nat : r = Len(rest)
    BY <2>2
  <2>4. r = n - f /\ r <= n /\ e + r = c + n
    BY <1>0, <2>2, <2>3
  <2>5. QED
    BY <2>1, <2>3, <2>4
<1>14. NextLine(p, s, c, e)
  BY <1>8, <1>9, <1>11, <1>12, <1>13 DEF NextLine, t, rest
<1>15. QED
  BY <1>14

(* What a line says is a number. *)
LEMMA LineValue ==
  ASSUME NEW t \in Seq(Chars), HasLine(t)
  PROVE  Value(FirstLine(t)) \in Nat
<1>1. PICK f : FirstEnd(t, f)
  BY FirstEndExists
<1>2. FirstLine(t) \in Seq(Chars)
  BY <1>1 DEF FirstEnd
<1>3. Chars \subseteq Nat
  BY DEF Chars, NL, Bad
<1>4. FirstLine(t) \in Seq(Nat)
  BY <1>2, <1>3, SeqMonotonic, Zenon
<1>5. QED
  BY <1>4, ValueType

(* A session goes on behind a line, with an operation for which the line   *)
(* counts.                                                                 *)
LEMMA GoesOn ==
  ASSUME NEW i \in Connection, NEW p, NEW s, NEW l, NEW f, Served(p, s, i, l, f),
         NEW c \in Nat, At(p, s, c), NEW e, NextLine(p, s, c, e), NEW r,
         r.in = Erased(s.in), r.a \in Nat, r.out \in Nat, r.got = s.got, r.log = s.log,
         r.timed \in BOOLEAN, r.timed => l, r.open,
         \/ /\ r.ops = {"b"} /\ Used(p.script, c) = 2 * Len(s.got)
            /\ r.a = Value(FirstLine(s.in))
         \/ /\ r.ops = {"write"} /\ Used(p.script, c) = 2 * Len(s.got) + 1
            /\ r.out = Value(LinesOf(p.script)[2 * Len(s.got) + 1]) * Value(FirstLine(s.in))
  PROVE  Served(p, r, i, l, f)
<1>1. /\ Start(p.script, e) /\ e \in Nat /\ Used(p.script, e) = Used(p.script, c) + 1
      /\ LinesOf(p.script)[Used(p.script, e)] = FirstLine(s.in)
      /\ r.in \in Seq(Chars) /\ Len(r.in) <= Len(s.in)
      /\ e + Len(r.in) = c + Len(s.in)
      /\ \A j \in DOMAIN r.in : r.in[j] = p.script[e + j]
  BY DEF NextLine
<1>2. s.in \in Seq(Chars) /\ s.got \in Seq(Nat) /\ Len(s.got) \in Nat
  BY DEF Served, SessionRight
<1>3. SessionRight(r, l)
  <2>1. r.log \in {"none", "closed", "eof", "reset", "long", "parse", "timeout", "memory"}
    BY DEF Served, SessionRight
  <2>2. l => Len(r.in) <= NumberLimit
    <3>1. Len(r.in) \in Nat /\ Len(s.in) \in Nat /\ NumberLimit \in Nat
      BY <1>1, <1>2, CalcAssumption
    <3>2. QED
      BY <1>1, <3>1 DEF Served, SessionRight
  <2>3. QED
    BY <1>1, <1>2, <2>1, <2>2 DEF SessionRight
<1>4. At(p, r, e)
  <2>1. /\ e + Len(r.in) <= Len(p.script)
        /\ p.left # << >> => Rest(p, e + Len(r.in))
    BY <1>1 DEF At
  <2>2. "a" \notin r.ops
    OBVIOUS
  <2>3. "b" \in r.ops => /\ Used(p.script, e) = 2 * Len(r.got) + 1
                         /\ r.a = Value(LinesOf(p.script)[2 * Len(r.got) + 1])
    BY <1>1, <1>2
  <2>4. "write" \in r.ops =>
          /\ Used(p.script, e) = 2 * Len(r.got) + 2
          /\ r.out = Value(LinesOf(p.script)[2 * Len(r.got) + 1])
                       * Value(LinesOf(p.script)[2 * Len(r.got) + 2])
    <3>1. 2 * Len(s.got) + 1 + 1 = 2 * Len(s.got) + 2
      BY <1>2
    <3>2. QED
      BY <1>1, <3>1
  <2>5. QED
    BY <1>1, <2>1, <2>2, <2>3, <2>4 DEF At
<1>5. QED
  BY <1>1, <1>3, <1>4 DEF Served

(* The handler of a line, when it parses, ... *)
LEMMA LineServed ==
  ASSUME NEW i \in Connection, NEW p, NEW s, NEW f, Served(p, s, i, limited, f), Sound(s),
         limited \in BOOLEAN, s.open, HasLine(s.in), NEW k \in {"a", "b"}, k \in s.ops,
         NEW v, v = Value(FirstLine(s.in)), NEW t, t = [s EXCEPT !.in = Erased(s.in)]
  PROVE  /\ k = "a" => Served(p, Begin([t EXCEPT !.a = v], "a", "b"), i, limited, f)
         /\ k = "b" => Served(p, Begin([t EXCEPT !.a = s.a * v, !.out = s.a * v], "b", "write"),
                              i, limited, f)
<1>1. /\ s.in \in Seq(Chars) /\ s.a \in Nat /\ s.out \in Nat
      /\ DOMAIN s = Fields /\ s.ops = {k} /\ PeerRight(p, i)
  BY OneInFlight DEF Served, SessionRight, Sound
<1>2. v \in Nat /\ s.a * v \in Nat
  BY <1>1, LineValue
<1>3. PICK c \in Nat : At(p, s, c)
  BY <1>1 DEF Served
<1>4. PICK e : NextLine(p, s, c, e)
  BY <1>1, <1>3, NextLineExists
<1>5. /\ k = "a" => Used(p.script, c) = 2 * Len(s.got)
      /\ k = "b" => /\ Used(p.script, c) = 2 * Len(s.got) + 1
                    /\ s.a = Value(LinesOf(p.script)[2 * Len(s.got) + 1])
  BY <1>1, <1>3 DEF At
<1>6. CASE k = "a"
  <2> DEFINE r == Begin([t EXCEPT !.a = v], "a", "b")
  <2>1. /\ r.in = Erased(s.in) /\ r.a = v /\ r.out = s.out /\ r.got = s.got
        /\ r.log = s.log /\ r.timed = limited /\ r.open = s.open
        /\ r.ops = (s.ops \ {"a"}) \cup {"b"}
    BY <1>1 DEF Begin, Fields
  <2>2. r.ops = {"b"}
    BY <1>1, <1>6, <2>1
  <2> HIDE DEF r
  <2>3. r.timed \in BOOLEAN /\ (r.timed => limited) /\ r.open
    BY <2>1, Zenon
  <2>4. Served(p, r, i, limited, f)
    BY <1>1, <1>2, <1>3, <1>4, <1>5, <1>6, <2>1, <2>2, <2>3, GoesOn
  <2>5. QED
    BY <1>6, <2>4 DEF r
<1>7. CASE k = "b"
  <2> DEFINE r == Begin([t EXCEPT !.a = s.a * v, !.out = s.a * v], "b", "write")
  <2>1. /\ r.in = Erased(s.in) /\ r.a = s.a * v /\ r.out = s.a * v /\ r.got = s.got
        /\ r.log = s.log /\ r.timed = limited /\ r.open = s.open
        /\ r.ops = (s.ops \ {"b"}) \cup {"write"}
    BY <1>1 DEF Begin, Fields
  <2>2. r.ops = {"write"}
    BY <1>1, <1>7, <2>1
  <2> HIDE DEF r
  <2>3. r.timed \in BOOLEAN /\ (r.timed => limited) /\ r.open
    BY <2>1, Zenon
  <2>4. Served(p, r, i, limited, f)
    BY <1>1, <1>2, <1>3, <1>4, <1>5, <1>7, <2>1, <2>2, <2>3, GoesOn
  <2>5. QED
    BY <1>7, <2>4 DEF r
<1>8. QED
  BY <1>6, <1>7

(* ... and when it does not. *)
LEMMA ParseServed ==
  ASSUME NEW i \in Connection, NEW p, NEW s, NEW l, NEW f, Served(p, s, i, l, f),
         s.ops # {}, HasLine(s.in), ~Parses(FirstLine(s.in))
  PROVE  Served(p, Ended(s, "parse"), i, l, f)
<1>1. s.in \in Seq(Chars) /\ PeerRight(p, i) /\ s.got \in Seq(Nat) /\ Products(p.script, s.got)
  BY DEF Served, SessionRight
<1>2. PICK c \in Nat : At(p, s, c)
  BY DEF Served
<1>3. PICK e : NextLine(p, s, c, e)
  BY <1>1, <1>2, NextLineExists
<1>4. Reason(p, "parse", l, f)
  BY <1>3 DEF NextLine, Reason
<1>5. QED
  BY <1>1, <1>4, EndServed

(* A buffer that is full holds the beginning of a line that is too long. *)
LEMMA LongServed ==
  ASSUME NEW i \in Connection, NEW p, NEW s, NEW l, NEW f, Served(p, s, i, l, f),
         s.ops # {}, l, Len(s.in) = NumberLimit, ~HasLine(s.in)
  PROVE  Reason(p, "long", l, f)
<1>1. s.in \in Seq(Chars) /\ p.script \in Seq(Chars) /\ Len(p.script) \in Nat
  BY ScriptType DEF Served, SessionRight
<1>2. PICK c \in Nat : At(p, s, c)
  BY DEF Served
<1> DEFINE t == p.script
           T == {j \in c + 1..Len(t) + 1 : j <= Len(t) => t[j] = NL}
<1>3. /\ Start(t, c) /\ c + NumberLimit <= Len(t)
      /\ \A j \in 1..NumberLimit : t[c + j] = s.in[j] /\ s.in[j] # NL
  BY <1>1, <1>2, CalcAssumption DEF At, HasLine, Contains
<1>4. PICK e \in T : \A j \in T : e <= j
  <2>1. /\ T \in SUBSET (c + 1..Len(t) + 1) /\ Len(t) + 1 \in T
        /\ c + 1 \in Nat /\ Len(t) + 1 \in Nat
    BY <1>1, <1>3, CalcAssumption
  <2> HIDE DEF T
  <2>2. QED
    BY <2>1, LeastExists
<1>5. /\ e \in c + 1..Len(t) + 1 /\ (e <= Len(t) => t[e] = NL)
      /\ \A j \in c + 1..e - 1 : t[j] # NL
  BY <1>1, <1>4
<1>6. e > c + NumberLimit
  <2>1. SUFFICES ASSUME e <= c + NumberLimit PROVE FALSE
    BY <1>5, CalcAssumption
  <2>2. e - c \in 1..NumberLimit /\ c + (e - c) = e /\ e <= Len(t)
    BY <1>1, <1>3, <1>5, <2>1, CalcAssumption
  <2>3. QED
    BY <1>3, <1>5, <2>2
<1>7. PICK j \in DOMAIN LinesOf(t \o <<NL>>) :
           LinesOf(t \o <<NL>>)[j] = SubSeq(t, c + 1, e - 1)
  <2> HIDE DEF T, t
  <2>1. t \in Seq(Chars)
    BY <1>1 DEF t
  <2>2. QED
    BY <1>3, <1>5, <2>1, LineOfMore
<1>8. Len(SubSeq(t, c + 1, e - 1)) >= NumberLimit
  <2>1. e - 1 <= Len(t) /\ e - 1 - (c + 1) + 1 >= NumberLimit
    BY <1>1, <1>5, <1>6, CalcAssumption
  <2>2. Len(SubSeq(t, c + 1, e - 1)) = e - 1 - (c + 1) + 1
    BY <1>1, <1>5, <2>1, CalcAssumption
  <2>3. QED
    BY <2>1, <2>2
<1>9. QED
  BY <1>7, <1>8 DEF Reason

-----------------------------------------------------------------------------
(* The handler of a write, and what the peers do. *)

(* An answer that has gone out is the next product. *)
LEMMA AnswerServed ==
  ASSUME NEW i \in Connection, NEW p, NEW s, NEW f, Served(p, s, i, limited, f), Sound(s),
         limited \in BOOLEAN, "write" \in s.ops, s.open
  PROVE  /\ Served(p, Answered(Delivered(s)), i, limited, f)
         /\ Delivered(s).got \in Seq(Nat) /\ Products(p.script, Delivered(s).got)
<1> DEFINE d == Delivered(s)
           r == Answered(d)
           n == Len(s.got)
           ls == LinesOf(p.script)
<1>1. /\ DOMAIN s = Fields /\ s.ops = {"write"} /\ PeerRight(p, i) /\ s.out \in Nat
      /\ s.got \in Seq(Nat) /\ n \in Nat /\ Len(p.script) \in Nat
  BY OneInFlight, ScriptType DEF Served, SessionRight, Sound
<1>2. PICK c \in Nat : At(p, s, c)
  BY <1>1 DEF Served
<1>3. /\ d.got = Append(s.got, s.out) /\ r.got = Append(s.got, s.out)
      /\ r.in = s.in /\ r.a = s.a /\ r.out = s.out /\ r.log = s.log
      /\ r.timed = limited /\ r.open = s.open /\ r.ops = (s.ops \ {"write"}) \cup {"a"}
  BY <1>1 DEF Delivered, Answered, Reading, Fields
<1>4. r.ops = {"a"}
  BY <1>1, <1>3
<1> HIDE DEF d, r
<1>5. /\ d.got \in Seq(Nat) /\ r.got = d.got /\ Len(d.got) = n + 1 /\ d.got[n + 1] = s.out
      /\ \A k \in 1..n : d.got[k] = s.got[k]
  BY <1>1, <1>3
<1>6. Used(p.script, c) = 2 * n + 2 /\ s.out = Value(ls[2 * n + 1]) * Value(ls[2 * n + 2])
  BY <1>1, <1>2 DEF At
<1>7. 2 * n + 2 <= Len(ls)
  <2>1. Used(p.script, c) <= Used(p.script, Len(p.script))
    BY <1>1, <1>2, EndsGrow DEF At, Start
  <2>2. Used(p.script, Len(p.script)) \in Nat
    BY <1>1, EndsFinite
  <2>3. Len(ls) = Used(p.script, Len(p.script))
    BY <2>2 DEF LinesOf, Used
  <2>4. QED
    BY <1>6, <2>1, <2>3
<1> HIDE DEF ls
<1>8. Products(p.script, d.got)
  <2>1. ASSUME NEW k \in DOMAIN d.got
        PROVE  2 * k <= Len(ls) /\ d.got[k] = Value(ls[2 * k - 1]) * Value(ls[2 * k])
    <3>1. k \in 1..n + 1
      BY <1>5, <2>1
    <3>2. CASE k = n + 1
      <4>1. 2 * k - 1 = 2 * n + 1 /\ 2 * k = 2 * n + 2
        BY <1>1, <3>2
      <4>2. QED
        BY <1>5, <1>6, <1>7, <3>2, <4>1
    <3>3. CASE k \in 1..n
      <4>1. k \in DOMAIN s.got /\ d.got[k] = s.got[k]
        BY <1>1, <1>5, <3>3
      <4>2. QED
        BY <4>1 DEF Served, Products, ls
    <3>4. QED
      BY <1>1, <3>1, <3>2, <3>3
  <2>2. QED
    BY <2>1 DEF Products, ls
<1>9. SessionRight(r, limited)
  <2>1. r.timed \in BOOLEAN /\ (r.timed => limited) /\ r.open
    BY <1>3, Zenon
  <2>2. QED
    BY <1>3, <1>5, <2>1 DEF Served, SessionRight
<1>10. At(p, r, c)
  <2>1. Used(p.script, c) = 2 * Len(r.got)
    BY <1>1, <1>5, <1>6
  <2>2. QED
    BY <1>2, <1>3, <1>4, <2>1 DEF At
<1>11. Served(p, r, i, limited, f)
  BY <1>1, <1>3, <1>5, <1>8, <1>9, <1>10 DEF Served
<1>12. QED
  BY <1>5, <1>8, <1>11 DEF d, r

(* A peer that finishes or resets its connection. *)
LEMMA PeerServed ==
  ASSUME NEW i \in Connection, NEW p, NEW q, NEW s, NEW l, NEW f, Served(p, s, i, l, f),
         q.script = p.script, p.at \in {"queued", "up"},
         \/ q.at = "finished" /\ q.left = p.left
         \/ q.at \in {"early", "reset"} /\ q.left = << >>
  PROVE  Served(q, s, i, l, f)
<1>1. Len(p.script) \in Nat
  BY ScriptType DEF Served
<1>2. Rest(q, Len(p.script)) \/ q.left = p.left
  BY <1>1 DEF Rest
<1>3. PeerRight(q, i)
  <2>1. << >> \in Seq(Chars)
    OBVIOUS
  <2>2. \E m \in Nat : Rest(q, m)
    BY <1>1, <1>2 DEF Served, PeerRight, Rest
  <2>3. q.left \in Seq(Chars)
    BY <2>1 DEF Served, PeerRight
  <2>4. QED
    BY <2>2, <2>3 DEF Served, PeerRight
<1>4. ASSUME NEW c \in Nat, At(p, s, c) PROVE At(q, s, c)
  BY <1>4 DEF At, Rest
<1>5. Reason(q, s.log, l, f)
  BY DEF Served, Reason
<1>6. QED
  BY <1>3, <1>4, <1>5 DEF Served

-----------------------------------------------------------------------------
(* The actions keep what is read and answered. *)

(* Only connection i takes a step, after which it is still served. *)
Advances(i) ==
  /\ limited' = limited /\ faults' \in Nat /\ faults' >= faults
  /\ \A j \in Connection \ {i} : peer'[j] = peer[j] /\ session'[j] = session[j]
  /\ Served(peer'[i], session'[i], i, limited, faults')

(* What is known of a connection before a step. *)
LEMMA Before ==
  ASSUME AnswerInv, NEW i \in Connection
  PROVE  /\ Served(peer[i], session[i], i, limited, faults) /\ PeerRight(peer[i], i)
         /\ SessionRight(session[i], limited) /\ Products(peer[i].script, session[i].got)
         /\ session[i].got \in Seq(Nat)
         /\ IsPeer(peer[i]) /\ Sound(session[i]) /\ DOMAIN session[i] = Fields
         /\ peer[i].at \in {"away", "queued", "early"} => session[i] = NoSession
         /\ limited \in BOOLEAN /\ faults \in Nat /\ MaxFaults \in Nat
         /\ peer = [j \in Connection |-> peer[j]] /\ session = [j \in Connection |-> session[j]]
BY CalcAssumption DEF AnswerInv, Process, KInv, Shapes, Each, Fresh, Sound, Served, SessionRight

(* The steps of a peer. *)
LEMMA PeerAdvances ==
  ASSUME AnswerInv, NEW i \in Connection, Connect(i) \/ Finish(i) \/ Reset(i)
  PROVE  Advances(i)
<1>1. /\ limited' = limited /\ faults' = faults /\ session' = session
      /\ \A j \in Connection \ {i} : peer'[j] = peer[j]
  BY Before DEF Connect, Finish, Reset
<1>2. faults' \in Nat /\ faults' >= faults /\ faults \in Nat
  BY <1>1, Before
<1>3. CASE Connect(i)
  <2>1. PICK t \in Scripts[i] : peer'[i] = [at |-> "queued", script |-> t, left |-> t]
    BY <1>3, Before DEF Connect
  <2> DEFINE q == [at |-> "queued", script |-> t, left |-> t]
  <2>2. t \in Seq(Chars)
    <3>1. Scripts[i] \subseteq Seq(Chars)
      BY CalcAssumption DEF Connection, Chars
    <3>2. QED
      BY <3>1
  <2>3. PeerRight(q, i)
    <3>1. Rest(q, 0)
      BY <2>2 DEF Rest
    <3>2. QED
      BY <2>2, <3>1 DEF PeerRight
  <2>4. session[i] = NoSession
    BY <1>3, Before DEF Connect
  <2>5. Served(q, session[i], i, limited, faults')
    <3>1. NoSession.got = << >> /\ NoSession.ops = {} /\ NoSession.log = "none"
      BY DEF NoSession
    <3>2. SessionRight(session[i], limited)
      BY Before
    <3>3. Products(q.script, session[i].got) /\ Reason(q, session[i].log, limited, faults')
      BY <2>4, <3>1 DEF Products, Reason
    <3>4. QED
      BY <2>3, <2>4, <3>1, <3>2, <3>3 DEF Served
  <2>6. QED
    BY <1>1, <1>2, <2>1, <2>5 DEF Advances
<1>4. CASE Finish(i) \/ Reset(i)
  <2> DEFINE q == peer'[i]
  <2>1. /\ q.script = peer[i].script /\ peer[i].at \in {"queued", "up"}
        /\ \/ q.at = "finished" /\ q.left = peer[i].left
           \/ q.at \in {"early", "reset"} /\ q.left = << >>
    <3>1. CASE Finish(i)
      BY <3>1, Before DEF Finish, IsPeer
    <3>2. CASE Reset(i)
      <4> DEFINE r == [peer[i] EXCEPT !.at = IF @ = "queued" THEN "early" ELSE "reset",
                                      !.left = << >>]
      <4>1. q = r
        BY <3>2, Before DEF Reset
      <4>2. /\ r.script = peer[i].script /\ r.left = << >>
            /\ r.at = IF peer[i].at = "queued" THEN "early" ELSE "reset"
        BY Before DEF IsPeer
      <4>3. QED
        BY <3>2, <4>1, <4>2 DEF Reset
    <3>3. QED
      BY <1>4, <3>1, <3>2
  <2> HIDE DEF q
  <2>2. Served(q, session[i], i, limited, faults)
    BY <2>1, Before, PeerServed
  <2>3. QED
    BY <1>1, <1>2, <2>2 DEF Advances, q
<1>5. QED
  BY <1>3, <1>4

(* The steps of the listener. *)
LEMMA ListenerAdvances ==
  ASSUME AnswerInv, NEW i \in Connection, Listener(i)
  PROVE  Advances(i)
<1>1. /\ limited' = limited /\ peer[i].at \in {"queued", "early"} /\ session[i] = NoSession
      /\ \A j \in Connection \ {i} : peer'[j] = peer[j] /\ session'[j] = session[j]
  BY Before DEF Listener, Accept, FactoryFails, AcceptNotStarted, LoggerFails, Queued, Started
<1>2. faults' \in Nat /\ faults' >= faults /\ faults \in Nat
  BY Before DEF Listener, Accept, FactoryFails, AcceptNotStarted, LoggerFails, Fault
<1>3. CASE Accept(i) \/ FactoryFails(i)
  <2> DEFINE q == peer'[i]
  <2>1. /\ peer[i].at = "queued" /\ q.at = "up" /\ q.script = peer[i].script
        /\ q.left = peer[i].left
    BY <1>3, Before DEF Accept, FactoryFails, IsPeer
  <2>2. session'[i] = Reading([NoSession EXCEPT !.open = TRUE])
    BY <1>3, Before DEF Accept, FactoryFails, Started
  <2> HIDE DEF q
  <2>3. Served(q, Reading([NoSession EXCEPT !.open = TRUE]), i, limited, faults')
    BY <2>1, Before, StartServed
  <2>4. QED
    BY <1>1, <1>2, <2>2, <2>3 DEF Advances, q
<1>4. CASE AcceptNotStarted(i) \/ LoggerFails(i)
  <2> DEFINE q == peer'[i]
  <2>1. /\ q.at = "reset" /\ q.script = peer[i].script
        /\ q.left = peer[i].left \/ q.left = << >>
    BY <1>4, Before DEF AcceptNotStarted, LoggerFails, IsPeer
  <2>2. session'[i] = session[i]
    BY <1>4 DEF AcceptNotStarted, LoggerFails
  <2> HIDE DEF q
  <2>3. PeerRight(q, i)
    <3>1. Len(peer[i].script) \in Nat /\ << >> \in Seq(Chars)
      BY Before, ScriptType
    <3>2. q.left = << >> => Rest(q, Len(peer[i].script))
      BY <2>1, <3>1 DEF Rest
    <3>3. \E m \in Nat : Rest(q, m)
      <4>1. PICK m \in Nat : Rest(peer[i], m)
        BY Before DEF PeerRight
      <4>2. q.left = peer[i].left => Rest(q, m)
        BY <2>1, <4>1 DEF Rest
      <4>3. QED
        BY <2>1, <3>1, <3>2, <4>2
    <3>4. QED
      BY <2>1, <3>1, <3>3, Before DEF PeerRight
  <2>4. NoSession.ops = {} /\ NoSession.log = "none"
    BY DEF NoSession
  <2>5. Served(q, session[i], i, limited, faults')
    BY <1>1, <2>1, <2>3, <2>4, Before DEF Served, Reason
  <2>6. QED
    BY <1>1, <1>2, <2>2, <2>5 DEF Advances, q
<1>5. QED
  BY <1>3, <1>4 DEF Listener

(* What has arrived is read. *)
LEMMA ReadSomeAdvances ==
  ASSUME AnswerInv, NEW i \in Connection, ReadSome(i)
  PROVE  Advances(i)
<1>1. PICK k \in 1..Len(peer[i].left) :
           /\ k <= Room(i)
           /\ session' = [session EXCEPT ![i].in = @ \o SubSeq(peer[i].left, 1, k)]
           /\ peer' = [peer EXCEPT ![i].left = SubSeq(@, k + 1, Len(@))]
  BY DEF ReadSome
<1> DEFINE p == peer[i]
           s == session[i]
<1>2. s.ops # {} /\ limited' = limited /\ faults' = faults /\ (limited => k <= NumberLimit - Len(s.in))
  BY <1>1 DEF ReadSome, Reads, Room
<1>3. p.at # "queued"
  <2>1. NoSession.ops = {}
    BY DEF NoSession
  <2>2. QED
    BY <1>2, <2>1, Before
<1>4. /\ peer'[i] = [p EXCEPT !.left = SubSeq(p.left, k + 1, Len(p.left))]
      /\ session'[i] = [s EXCEPT !.in = s.in \o SubSeq(p.left, 1, k)]
      /\ \A j \in Connection \ {i} : peer'[j] = peer[j] /\ session'[j] = session[j]
  BY <1>1, Before
<1>5. Served(peer'[i], session'[i], i, limited, faults)
  <2> HIDE DEF p, s
  <2>1. /\ Served(p, s, i, limited, faults) /\ DOMAIN s = Fields /\ IsPeer(p)
        /\ k \in 1..Len(p.left)
    BY <1>1, Before DEF p, s
  <2>2. QED
    BY <1>2, <1>3, <1>4, <2>1, ReadServed
<1>6. faults \in Nat
  BY Before
<1>7. QED
  BY <1>2, <1>4, <1>5, <1>6 DEF Advances

(* The handler of a line. *)
LEMMA LineAdvances ==
  ASSUME AnswerInv, NEW i \in Connection, NEW k \in {"a", "b"}, LineRead(i, k)
  PROVE  Advances(i)
<1> DEFINE p == peer[i]
           s == session[i]
           v == Value(FirstLine(s.in))
           t == [s EXCEPT !.in = Erased(@)]
           a == Begin([t EXCEPT !.a = v], "a", "b")
           b == Begin([t EXCEPT !.a = s.a * v, !.out = s.a * v], "b", "write")
<1>1. /\ limited' = limited /\ faults' = faults /\ peer' = peer
      /\ k \in s.ops /\ s.open /\ HasLine(s.in)
      /\ \A j \in Connection \ {i} : session'[j] = session[j]
  BY Before DEF LineRead, HandlesLine, ParseFailed, Same
<1>2. faults \in Nat /\ limited \in BOOLEAN /\ Served(p, s, i, limited, faults) /\ Sound(s)
  BY Before
<1>3. Served(p, session'[i], i, limited, faults)
  <2>1. CASE Parses(FirstLine(s.in))
    <3>1. session'[i] = IF k = "a" THEN a ELSE b
      BY <2>1, Before DEF LineRead
    <3>2. (k = "a" => Served(p, a, i, limited, faults)) /\ (k = "b" => Served(p, b, i, limited, faults))
      <4> DEFINE w == v
                 u == t
      <4>1. w = Value(FirstLine(s.in)) /\ u = [s EXCEPT !.in = Erased(s.in)]
        OBVIOUS
      <4> HIDE DEF w, u, p, s
      <4>2. /\ k = "a" => Served(p, Begin([u EXCEPT !.a = w], "a", "b"), i, limited, faults)
            /\ k = "b" => Served(p, Begin([u EXCEPT !.a = s.a * w, !.out = s.a * w], "b", "write"),
                                 i, limited, faults)
        BY <1>1, <1>2, <4>1, LineServed
      <4>3. QED
        BY <4>2 DEF w, u
    <3> HIDE DEF a, b
    <3>3. QED
      BY <3>1, <3>2
  <2>2. CASE ~Parses(FirstLine(s.in))
    <3>1. session'[i] = Ended(s, "parse")
      BY <2>2, Before DEF LineRead, ParseFailed
    <3>2. s.ops # {}
      BY <1>1
    <3> HIDE DEF p, s
    <3>3. QED
      BY <1>1, <1>2, <2>2, <3>1, <3>2, ParseServed
  <2>3. QED
    BY <2>1, <2>2
<1>4. QED
  BY <1>1, <1>2, <1>3 DEF Advances

(* The handlers that end a session, and the one of a write. *)
LEMMA OtherHandlersAdvance ==
  ASSUME AnswerInv, NEW i \in Connection,
         (\E k \in {"a", "b"} : ReadFailed(i, k)) \/ WriteFailed(i) \/ Written(i)
  PROVE  Advances(i)
<1> DEFINE p == peer[i]
           s == session[i]
           Reasons == {"none", "closed", "eof", "reset", "long", "parse", "timeout", "memory"}
<1>1. /\ limited' = limited /\ faults' = faults /\ peer' = peer /\ faults \in Nat
      /\ \A j \in Connection \ {i} : session'[j] = session[j]
  BY Before DEF ReadFailed, WriteFailed, Written, Same
<1>2. ASSUME NEW why \in Reasons, Reason(p, why, limited, faults), session'[i] = Ended(s, why)
      PROVE  Advances(i)
  <2>1. Served(p, Ended(s, why), i, limited, faults)
    BY <1>2, Before, EndServed
  <2>2. QED
    BY <1>1, <1>2, <2>1 DEF Advances
<1>3. ASSUME s.ops # {}, ~s.open PROVE Reason(p, "timeout", limited, faults)
  BY <1>3, Before DEF Reason, SessionRight
<1>4. ASSUME p.at \in {"reset", "finished"} PROVE Reason(p, "reset", limited, faults)
  BY <1>4 DEF Reason
<1>5. ASSUME NEW k \in {"a", "b"}, ReadFailed(i, k) PROVE Advances(i)
  <2> DEFINE why == ReadError(i, k)
  <2>1. session'[i] = Ended(s, why) /\ s.ops # {} /\ why # "none"
    BY <1>5, Before DEF ReadFailed
  <2>2. why \in Reasons /\ Reason(p, why, limited, faults)
    <3>1. CASE ~s.open
      <4>1. why = "timeout"
        BY <3>1 DEF ReadError
      <4>2. QED
        BY <1>3, <2>1, <3>1, <4>1
    <3>2. CASE s.open /\ ~HasLine(s.in) /\ limited /\ Len(s.in) = NumberLimit
      <4>1. why = "long"
        BY <3>2 DEF ReadError
      <4>2. Reason(p, "long", limited, faults)
        BY <2>1, <3>2, Before, LongServed
      <4>3. QED
        BY <4>1, <4>2
    <3>3. CASE s.open /\ ~HasLine(s.in) /\ ~(limited /\ Len(s.in) = NumberLimit)
      <4>1. CASE p.at = "reset"
        <5>1. why = "reset"
          BY <3>3, <4>1 DEF ReadError
        <5>2. QED
          BY <1>4, <4>1, <5>1
      <4>2. CASE p.at = "finished" /\ p.left = << >>
        <5>1. why \in {"closed", "eof"}
          BY <3>3, <4>2 DEF ReadError
        <5>2. QED
          BY <4>2, <5>1 DEF Reason
      <4>3. CASE p.at # "reset" /\ ~(p.at = "finished" /\ p.left = << >>)
        <5>1. why = "none"
          BY <3>3, <4>3 DEF ReadError
        <5>2. QED
          BY <2>1, <5>1
      <4>4. QED
        BY <4>1, <4>2, <4>3
    <3>4. CASE s.open /\ HasLine(s.in)
      <4>1. why = "none"
        BY <3>4 DEF ReadError
      <4>2. QED
        BY <2>1, <4>1
    <3>5. QED
      BY <3>1, <3>2, <3>3, <3>4
  <2> HIDE DEF why
  <2>3. QED
    BY <1>2, <2>1, <2>2
<1>6. CASE WriteFailed(i)
  <2> DEFINE why == IF s.open THEN "reset" ELSE "timeout"
  <2>1. session'[i] = Ended(s, why) /\ s.ops # {}
        /\ (~s.open \/ p.at \in {"reset", "finished"})
    BY <1>6, Before DEF WriteFailed
  <2>2. why \in Reasons /\ Reason(p, why, limited, faults)
    BY <1>3, <1>4, <2>1
  <2> HIDE DEF why
  <2>3. QED
    BY <1>2, <2>1, <2>2
<1>7. CASE Written(i)
  <2>1. session'[i] = Answered(Delivered(s)) /\ "write" \in s.ops /\ s.open
    BY <1>7, Before DEF Written
  <2>2. Served(p, Answered(Delivered(s)), i, limited, faults)
    BY <2>1, Before, AnswerServed
  <2>3. QED
    BY <1>1, <2>1, <2>2 DEF Advances
<1>8. QED
  BY <1>5, <1>6, <1>7

(* An operation that does not start. *)
LEMMA NotStartedAdvances ==
  ASSUME AnswerInv, NEW i \in Connection, NotStarted(i)
  PROVE  Advances(i)
<1> DEFINE s == session[i]
<1>1. /\ limited' = limited /\ faults' = faults + 1 /\ faults' \in Nat /\ faults' >= faults
      /\ faults' > 0 /\ \A j \in Connection \ {i} : peer'[j] = peer[j] /\ session'[j] = session[j]
  BY Before DEF NotStarted, Fault
<1>3. ASSUME UNCHANGED peer, NEW r, session'[i] = Ended(r, "memory"),
             r.got \in Seq(Nat), Products(peer[i].script, r.got)
      PROVE  Advances(i)
  <2>1. Reason(peer[i], "memory", limited, faults')
    BY <1>1 DEF Reason
  <2>2. Served(peer[i], Ended(r, "memory"), i, limited, faults')
    BY <1>3, <2>1, Before, EndServed
  <2>3. QED
    BY <1>1, <1>3, <2>2 DEF Advances
<1>4. CASE \E k \in {"a", "b"} : HandlesLine(i, k) /\ Parses(FirstLine(session[i].in))
           /\ session' = [session EXCEPT ![i] = Ended(@, "memory")] /\ UNCHANGED peer
  BY <1>3, <1>4, Before
<1>5. CASE /\ Running /\ "write" \in session[i].ops /\ session[i].open /\ peer[i].at # "reset"
           /\ session' = [session EXCEPT ![i] = Ended(Delivered(@), "memory")] /\ UNCHANGED peer
  <2>1. session'[i] = Ended(Delivered(s), "memory")
    BY <1>5, Before
  <2>2. Delivered(s).got \in Seq(Nat) /\ Products(peer[i].script, Delivered(s).got)
    BY <1>5, Before, AnswerServed
  <2> HIDE DEF s
  <2>3. QED
    BY <1>3, <1>5, <2>1, <2>2
<1>6. CASE /\ Running /\ accepting /\ Queued(i) /\ peer[i].at = "queued"
           /\ session' = [session EXCEPT ![i] = Ended(@, "memory")]
           /\ peer' = [peer EXCEPT ![i].at = "up"]
  <2> DEFINE q == peer'[i]
  <2>1. q.at = "up" /\ q.script = peer[i].script /\ q.left = peer[i].left
    BY <1>6, Before DEF IsPeer
  <2>2. session'[i] = Ended(s, "memory")
    BY <1>6, Before
  <2> HIDE DEF q
  <2>3. PeerRight(q, i)
    <3>1. PeerRight(peer[i], i) /\ peer[i].at = "queued"
      BY <1>6, Before
    <3>2. Rest(peer[i], 0)
      BY <3>1 DEF PeerRight
    <3>3. Rest(q, 0)
      BY <2>1, <3>2 DEF Rest
    <3>4. QED
      BY <2>1, <3>1, <3>3 DEF PeerRight
  <2>4. Reason(q, "memory", limited, faults')
    BY <1>1 DEF Reason
  <2>5. Served(q, Ended(s, "memory"), i, limited, faults')
    BY <2>1, <2>3, <2>4, Before, EndServed
  <2>6. QED
    BY <1>1, <2>2, <2>5 DEF Advances, q
<1>7. QED
  BY <1>4, <1>5, <1>6 DEF NotStarted

(* A deadline closes the stream, where there are deadlines. *)
LEMMA TimeoutAdvances ==
  ASSUME AnswerInv, NEW i \in Connection, Timeout(i)
  PROVE  Advances(i)
<1> DEFINE s == session[i]
           r == [s EXCEPT !.open = FALSE]
<1>1. /\ session'[i] = r /\ peer' = peer /\ limited' = limited /\ faults' = faults
      /\ \A j \in Connection \ {i} : session'[j] = session[j]
      /\ s.timed /\ faults \in Nat
  BY Before DEF Timeout, Same
<1>2. /\ r.in = s.in /\ r.a = s.a /\ r.out = s.out /\ r.got = s.got /\ r.log = s.log
      /\ r.timed = s.timed /\ r.ops = s.ops
  BY Before DEF Fields
<1> HIDE DEF r
<1>3. SessionRight(r, limited)
  BY <1>1, <1>2, Before DEF SessionRight
<1>4. \A c \in Nat : At(peer[i], s, c) => At(peer[i], r, c)
  BY <1>2 DEF At
<1>5. Served(peer[i], r, i, limited, faults)
  BY <1>2, <1>3, <1>4, Before DEF Served
<1>6. QED
  BY <1>1, <1>5 DEF Advances

-----------------------------------------------------------------------------
(* Every step keeps the types of the process. *)
LEMMA ProcessStep ==
  ASSUME AnswerInv, [Next]_vars
  PROVE  Process'
<1>1. Process /\ MaxFaults \in Nat
  BY CalcAssumption DEF AnswerInv
<1>2. CASE UNCHANGED vars
  BY <1>1, <1>2 DEF Process, vars
<1>3. CASE AcceptFails
  <2>1. UNCHANGED <<limited, status, mainRuns, pool>> /\ faults' \in 0..MaxFaults
    BY <1>1, <1>3 DEF Process, AcceptFails, Fault
  <2>2. accepting' \in BOOLEAN
    <3>1. accepting' = FALSE
      BY <1>3 DEF AcceptFails
    <3>2. QED
      BY <3>1, Zenon
  <2>3. QED
    BY <1>1, <2>1, <2>2 DEF Process
<1>4. CASE Signal
  BY <1>1, <1>4 DEF Process, Signal
<1>5. CASE Teardown
  <2>1. limited' = limited /\ faults' = faults /\ status' = "ended" /\ pool' = 0
    BY <1>5 DEF Teardown
  <2>2. mainRuns' \in BOOLEAN /\ accepting' \in BOOLEAN
    <3>1. mainRuns' = FALSE /\ accepting' = FALSE
      BY <1>5 DEF Teardown
    <3>2. QED
      BY <3>1, Zenon
  <2>3. QED
    BY <1>1, <2>1, <2>2 DEF Process
<1>6. ASSUME NEW i \in Connection, Listener(i) PROVE Process'
  <2>1. limited' = limited /\ accepting' \in BOOLEAN /\ faults' \in 0..MaxFaults
    <3>1. limited' = limited /\ faults' \in 0..MaxFaults
      BY <1>1, <1>6 DEF Process, Listener, Accept, FactoryFails, AcceptNotStarted, LoggerFails,
         Fault
    <3>2. accepting' = accepting \/ accepting' = FALSE
      BY <1>6 DEF Listener, Accept, FactoryFails, AcceptNotStarted, LoggerFails
    <3>3. accepting' \in BOOLEAN
      BY <1>1, <3>2, Zenon DEF Process
    <3>4. QED
      BY <3>1, <3>3
  <2>2. CASE Escape
    <3>1. CASE mainRuns' = FALSE /\ UNCHANGED pool /\ status' = IF pool = 0 THEN "killed" ELSE status
      BY <1>1, <2>1, <3>1 DEF Process
    <3>2. CASE status' = "killed" /\ UNCHANGED <<mainRuns, pool>>
      BY <1>1, <2>1, <3>2 DEF Process
    <3>3. QED
      BY <2>2, <3>1, <3>2 DEF Escape
  <2>3. CASE UNCHANGED <<status, mainRuns, pool>>
    BY <1>1, <2>1, <2>3 DEF Process
  <2>4. QED
    BY <1>6, <2>2, <2>3 DEF Listener, Accept, FactoryFails, AcceptNotStarted, LoggerFails
<1>7. ASSUME NEW i \in Connection, Connect(i) \/ Finish(i) \/ Reset(i) \/ ReadSome(i)
      PROVE  Process'
  BY <1>1, <1>7 DEF Process, Connect, Finish, Reset, ReadSome
<1>8. ASSUME NEW i \in Connection, Handler(i) \/ Written(i) \/ Timeout(i) PROVE Process'
  <2>1. UNCHANGED <<limited, status, mainRuns, pool, accepting, faults>>
    BY <1>8 DEF Handler, LineRead, ParseFailed, ReadFailed, WriteFailed, Written, Timeout, Same
  <2>2. QED
    BY <1>1, <2>1 DEF Process
<1>9. ASSUME NEW i \in Connection, NotStarted(i) PROVE Process'
  BY <1>1, <1>9 DEF Process, NotStarted, Fault
<1>10. QED
  BY <1>2, <1>3, <1>4, <1>5, <1>6, <1>7, <1>8, <1>9 DEF Next

(* In the beginning nobody has sent anything. *)
LEMMA InitAnswers == Init => AnswerInv
<1> SUFFICES ASSUME Init PROVE AnswerInv
  OBVIOUS
<1>1. KInv /\ Process
  BY InitKInv, CalcAssumption DEF Init, Process
<1>2. ASSUME NEW i \in Connection PROVE Served(peer[i], session[i], i, limited, faults)
  <2> DEFINE p == [at |-> "away", script |-> << >>, left |-> << >>]
  <2>1. peer[i] = p /\ session[i] = NoSession
    BY DEF Init
  <2>2. PeerRight(p, i)
    <3>1. Rest(p, 0) /\ << >> \in Seq(Chars)
      BY DEF Rest
    <3>2. QED
      BY <3>1 DEF PeerRight
  <2>3. /\ NoSession.in = << >> /\ NoSession.a = 0 /\ NoSession.out = 0 /\ NoSession.got = << >>
        /\ NoSession.log = "none" /\ NoSession.timed = FALSE /\ NoSession.ops = {}
    BY DEF NoSession
  <2>4. SessionRight(NoSession, limited)
    <3>1. << >> \in Seq(Chars) /\ << >> \in Seq(Nat) /\ Len(<< >>) <= NumberLimit
      BY CalcAssumption
    <3>2. /\ NoSession.timed \in BOOLEAN /\ (NoSession.timed => limited)
          /\ NoSession.ops # {} /\ ~NoSession.open => limited
      BY <2>3, Zenon
    <3>3. QED
      BY <2>3, <3>1, <3>2 DEF SessionRight
  <2>5. Products(p.script, NoSession.got) /\ Reason(p, NoSession.log, limited, faults)
    BY <2>3 DEF Products, Reason
  <2>6. QED
    BY <2>1, <2>2, <2>3, <2>4, <2>5 DEF Served
<1>3. QED
  BY <1>1, <1>2 DEF AnswerInv

(* Every step keeps the invariant. *)
LEMMA NextAnswers == AnswerInv /\ [Next]_vars => AnswerInv'
<1> SUFFICES ASSUME AnswerInv, [Next]_vars PROVE AnswerInv'
  OBVIOUS
<1>1. KInv' /\ Process'
  BY NextKInv, ProcessStep DEF AnswerInv
<1>2. ASSUME NEW i \in Connection, Advances(i) PROVE AnswerInv'
  <2>1. ASSUME NEW j \in Connection PROVE Served(peer'[j], session'[j], j, limited', faults')
    <3>1. CASE j = i
      BY <1>2, <3>1 DEF Advances
    <3>2. CASE j # i
      <4>1. Served(peer[j], session[j], j, limited, faults')
        <5>1. Served(peer[j], session[j], j, limited, faults) /\ faults \in Nat
          BY Before
        <5>2. faults' \in Nat /\ faults <= faults'
          BY <1>2, <5>1 DEF Advances
        <5>3. QED
          BY <5>1, <5>2, MoreFaults
      <4>2. QED
        BY <1>2, <3>2, <4>1 DEF Advances
    <3>3. QED
      BY <3>1, <3>2
  <2>2. QED
    BY <1>1, <2>1 DEF AnswerInv
<1>3. CASE UNCHANGED vars \/ Signal
  <2>1. UNCHANGED <<peer, session, limited, faults>>
    BY <1>3 DEF vars, Signal
  <2>2. QED
    BY <1>1, <2>1 DEF AnswerInv
<1>4. CASE AcceptFails
  <2>1. UNCHANGED <<peer, session, limited>> /\ faults' = faults + 1
    BY <1>4 DEF AcceptFails, Fault
  <2>2. ASSUME NEW j \in Connection PROVE Served(peer[j], session[j], j, limited, faults')
    <3>1. Served(peer[j], session[j], j, limited, faults) /\ faults \in Nat
      BY Before
    <3>2. QED
      BY <2>1, <3>1, MoreFaults
  <2>3. QED
    BY <1>1, <2>1, <2>2 DEF AnswerInv
<1>5. CASE Teardown
  <2>1. UNCHANGED <<peer, limited, faults>>
        /\ \A j \in Connection : session'[j] = Ended(session[j], session[j].log)
    BY <1>5 DEF Teardown
  <2>2. ASSUME NEW j \in Connection
        PROVE  Served(peer[j], Ended(session[j], session[j].log), j, limited, faults)
    <3>1. /\ session[j].log \in {"none", "closed", "eof", "reset", "long", "parse", "timeout",
                                  "memory"}
          /\ Reason(peer[j], session[j].log, limited, faults)
      BY Before DEF Served, SessionRight
    <3>2. QED
      BY <3>1, Before, EndServed
  <2>3. QED
    BY <1>1, <2>1, <2>2 DEF AnswerInv
<1>6. ASSUME NEW i \in Connection,
             \/ Connect(i) \/ Finish(i) \/ Reset(i) \/ Listener(i) \/ ReadSome(i)
             \/ Handler(i) \/ Written(i) \/ NotStarted(i) \/ Timeout(i)
      PROVE  AnswerInv'
  BY <1>2, <1>6, PeerAdvances, ListenerAdvances, ReadSomeAdvances, LineAdvances,
     OtherHandlersAdvance, NotStartedAdvances, TimeoutAdvances DEF Handler
<1>7. QED
  BY <1>3, <1>4, <1>5, <1>6 DEF Next

(* What a session has read, holds and has answered is always what the      *)
(* script of its peer says, however the stream is cut.                     *)
THEOREM AnswersInvariance == Spec => []AnswerInv
<1>1. Init => AnswerInv
  BY InitAnswers
<1>2. AnswerInv /\ [Next]_vars => AnswerInv'
  BY NextAnswers
<1>3. QED
  BY <1>1, <1>2, PTL DEF Spec

(* What is still to come of a script is its end. *)
LEMMA RestIsSuffix ==
  ASSUME NEW i \in Connection, NEW p, PeerRight(p, i)
  PROVE  IsSuffix(p.left, p.script)
<1>1. p.left \in Seq(Chars) /\ p.script \in Seq(Chars) /\ Len(p.script) \in Nat
  BY ScriptType DEF PeerRight
<1>2. PICK m \in Nat : Rest(p, m)
  BY DEF PeerRight
<1> DEFINE a == Reverse(p.left)
           b == Reverse(p.script)
           n == Len(p.left)
<1>3. /\ n \in Nat /\ n = Len(p.script) - m
      /\ \A j \in 1..n : p.left[j] \in Chars /\ p.left[j] = p.script[m + j]
      /\ \A j \in 1..Len(p.script) : p.script[j] \in Chars
  BY <1>1, <1>2 DEF Rest
<1>4. /\ a \in Seq(Chars) /\ Len(a) = n
      /\ \A j \in 1..n : a[j] = p.left[n - j + 1]
  <2>1. \A j \in 1..n : n - j + 1 \in 1..n
    BY <1>3
  <2>2. a = [j \in 1..n |-> p.left[n - j + 1]]
    BY DEF Reverse
  <2>3. \A j \in 1..n : p.left[n - j + 1] \in Chars
    BY <1>3, <2>1
  <2> HIDE DEF a
  <2>4. a \in [1..n -> Chars] /\ \A j \in 1..n : a[j] = p.left[n - j + 1]
    BY <2>2, <2>3, Zenon
  <2>5. a \in Seq(Chars) /\ Len(a) = n
    <3>1. n \in Nat
      BY <1>3
    <3> HIDE DEF n
    <3>2. QED
      BY <2>4, <3>1
  <2>6. QED
    BY <2>4, <2>5, Zenon
<1>5. /\ b \in Seq(Chars) /\ Len(b) = Len(p.script)
      /\ \A j \in 1..Len(p.script) : b[j] = p.script[Len(p.script) - j + 1]
  <2>1. \A j \in 1..Len(p.script) : Len(p.script) - j + 1 \in 1..Len(p.script)
    BY <1>1
  <2>2. b = [j \in 1..Len(p.script) |-> p.script[Len(p.script) - j + 1]]
    BY DEF Reverse
  <2>3. \A j \in 1..Len(p.script) : p.script[Len(p.script) - j + 1] \in Chars
    BY <1>3, <2>1
  <2> HIDE DEF b
  <2>4. QED
    BY <1>1, <2>2, <2>3
<1> HIDE DEF a, b, n
<1>6. n <= Len(p.script)
  BY <1>1, <1>2, <1>3
<1>7. ASSUME NEW j \in 1..n PROVE a[j] = b[j]
  <2>1. m + (n - j + 1) = Len(p.script) - j + 1 /\ n - j + 1 \in 1..n /\ j \in 1..Len(p.script)
    BY <1>1, <1>3, <1>6
  <2>2. p.left[n - j + 1] = p.script[m + (n - j + 1)]
    BY <1>3, <2>1
  <2>3. QED
    BY <1>4, <1>5, <2>1, <2>2
<1>8. SubSeq(a, 1, n) = SubSeq(b, 1, n)
  <2> DEFINE x == SubSeq(a, 1, n)
             y == SubSeq(b, 1, n)
  <2>1. x \in Seq(Chars) /\ Len(x) = n /\ \A j \in 1..n : x[j] = a[j]
    BY <1>3, <1>4
  <2>2. y \in Seq(Chars) /\ Len(y) = n /\ \A j \in 1..n : y[j] = b[j]
    BY <1>1, <1>3, <1>5, <1>6
  <2> HIDE DEF x, y
  <2>3. x = y
    BY <1>7, <2>1, <2>2, SeqEqual
  <2>4. QED
    BY <2>3 DEF x, y
<1>9. QED
  BY <1>4, <1>5, <1>6, <1>8 DEF IsSuffix, IsPrefix, a, b, n

(* The types of TypeOK. *)
LEMMA TypesOK == AnswerInv => TypeOK
<1> SUFFICES ASSUME AnswerInv PROVE TypeOK
  OBVIOUS
<1>1. Process
  BY DEF AnswerInv
<1>2. ASSUME NEW i \in Connection
      PROVE  /\ peer[i].at \in {"away", "queued", "up", "finished", "reset", "early"}
             /\ peer[i].script \in Scripts[i] \cup {<< >>}
             /\ IsSuffix(peer[i].left, peer[i].script)
             /\ session[i].ops \subseteq {"a", "b", "write"}
             /\ {session[i].open, session[i].timed} \subseteq BOOLEAN
             /\ limited => Len(session[i].in) <= NumberLimit
             /\ session[i].a \in Nat /\ session[i].out \in Nat
             /\ session[i].log \in {"none", "closed", "eof", "reset", "long", "parse",
                                    "timeout", "memory"}
             /\ session[i].got \in Seq(Nat)
  <2>1. IsSuffix(peer[i].left, peer[i].script)
    BY Before, RestIsSuffix
  <2>2. /\ peer[i].at \in {"away", "queued", "up", "finished", "reset", "early"}
        /\ peer[i].script \in Scripts[i] \cup {<< >>}
    BY Before DEF PeerRight
  <2>3. session[i].ops \subseteq {"a", "b", "write"} /\ session[i].open \in BOOLEAN
    BY Before DEF Sound
  <2>4. /\ session[i].timed \in BOOLEAN /\ (limited => Len(session[i].in) <= NumberLimit)
        /\ session[i].a \in Nat /\ session[i].out \in Nat
        /\ session[i].log \in {"none", "closed", "eof", "reset", "long", "parse",
                               "timeout", "memory"}
        /\ session[i].got \in Seq(Nat)
    BY Before DEF SessionRight
  <2>5. {session[i].open, session[i].timed} \subseteq BOOLEAN
    BY <2>3, <2>4
  <2>6. QED
    BY <2>1, <2>2, <2>3, <2>4, <2>5
<1>3. QED
  BY <1>1, <1>2 DEF TypeOK, Process

(* The peers get the products of their lines in pairs, in order, whatever  *)
(* pieces the lines arrive in (calc_session, read_buffered_number).        *)
THEOREM AnswersExactCorrect == Spec => []AnswersExact
<1>1. AnswerInv => AnswersExact
  <2> SUFFICES ASSUME AnswerInv PROVE AnswersExact
    OBVIOUS
  <2>1. TypeOK
    BY TypesOK
  <2>2. \A i \in Connection : Products(peer[i].script, session[i].got)
    BY Before
  <2>3. QED
    BY <2>1, <2>2 DEF AnswersExact, Products
<1>2. QED
  BY <1>1, AnswersInvariance, PTL

(* What the log says of the end of a session is what has happened.         *)
THEOREM EndsForAReasonCorrect == Spec => []EndsForAReason
<1>1. AnswerInv => EndsForAReason
  <2> SUFFICES ASSUME AnswerInv PROVE EndsForAReason
    OBVIOUS
  <2>1. \A i \in Connection : Reason(peer[i], session[i].log, limited, faults)
    BY Before DEF Served
  <2>2. QED
    BY <2>1 DEF EndsForAReason, Reason
<1>2. QED
  BY <1>1, AnswersInvariance, PTL
=============================================================================
