----------------------------- MODULE CalcServer -----------------------------
(***************************************************************************)
(* The multiplying server in its three forms: asio-basic (one thread,      *)
(* callbacks, no limits), asio-advanced (threads, callbacks, limits on the *)
(* length of a line and on the time of an operation) and                   *)
(* asio-stackfull-coro (the same in a coroutine), over the tcp_listener    *)
(* and socket_session of asio-utils.                                       *)
(*                                                                         *)
(* A handler is one step: those of one session run on its strand, those of *)
(* the listener form a chain, and they share nothing else.  A character is *)
(* a number: 1..9 are digits, NL ends a line and Bad is anything bigint    *)
(* does not parse.  Rate limiting only delays reads and is left out.       *)
(***************************************************************************)
EXTENDS Naturals, Sequences, FiniteSets, SequencesExt

CONSTANTS
  Connections,  \* bound: how many peers ever connect
  Scripts,      \* bound: what each peer may send, sets of sequences of characters
  NumberLimit,  \* number_limit_
  PoolSizes,    \* bound: threads - 1, the threads besides the main one
  MaxFaults     \* bound: failed allocations and accepts

NL == 10
Bad == 11

ASSUME CalcAssumption ==
  /\ Connections \in Nat /\ NumberLimit \in Nat \ {0} /\ MaxFaults \in Nat
  /\ PoolSizes \subseteq Nat
  /\ \A i \in 1..Connections : Scripts[i] \subseteq Seq((1..9) \cup {NL, Bad})

Connection == 1..Connections   \* in the order in which they arrive

VARIABLES
  limited,    \* asio-advanced or asio-stackfull-coro: there are limits
  status,     \* of the process: "running", "stopped", "ended" or "killed"
  mainRuns,   \* the main thread is inside ctx.run()
  pool,       \* how many threads of the pool are inside ctx.run()
  accepting,  \* an async_accept is pending; session_ is waiting for it
  faults,     \* failures so far
  peer,       \* of each peer: what it does, its script and what is still unread of it
  session     \* of each connection: its session

vars == <<limited, status, mainRuns, pool, accepting, faults, peer, session>>

NoSession == [ops |-> {}, open |-> FALSE, in |-> << >>, a |-> 0, out |-> 0,
              timed |-> FALSE, log |-> "none", got |-> << >>]

TypeOK ==
  /\ limited \in BOOLEAN
  /\ status \in {"running", "stopped", "ended", "killed"}
  /\ mainRuns \in BOOLEAN /\ pool \in PoolSizes \cup {0} /\ accepting \in BOOLEAN
  /\ faults \in 0..MaxFaults
  /\ \A i \in Connection :
       /\ peer[i].at \in {"away", "queued", "up", "finished", "reset", "early"}
       /\ peer[i].script \in Scripts[i] \cup {<< >>}
       /\ IsSuffix(peer[i].left, peer[i].script)
       /\ session[i].ops \subseteq {"a", "b", "write"}
       /\ {session[i].open, session[i].timed} \subseteq BOOLEAN
       /\ limited => Len(session[i].in) <= NumberLimit
       /\ session[i].a \in Nat /\ session[i].out \in Nat
       /\ session[i].log \in {"none", "closed", "eof", "reset", "long", "parse",
                              "timeout", "memory"}
       /\ session[i].got \in Seq(Nat)

(* main(): the signal handler and the listener are set up before run(). *)
Init ==
  /\ limited \in BOOLEAN
  /\ status = "running" /\ mainRuns = TRUE
  /\ pool \in IF limited THEN PoolSizes ELSE {0}
  /\ accepting = TRUE /\ faults = 0
  /\ peer = [i \in Connection |-> [at |-> "away", script |-> << >>, left |-> << >>]]
  /\ session = [i \in Connection |-> NoSession]

Running == status = "running" /\ (mainRuns \/ pool > 0)
Fault == faults < MaxFaults /\ faults' = faults + 1

-----------------------------------------------------------------------------
(* The peers. *)

Connect(i) ==
  /\ status = "running" /\ peer[i].at = "away" /\ \A j \in 1..i - 1 : peer[j].at # "away"
  /\ \E t \in Scripts[i] : peer' = [peer EXCEPT ![i] = [at |-> "queued", script |-> t, left |-> t]]
  /\ UNCHANGED <<limited, status, mainRuns, pool, accepting, faults, session>>

Finish(i) ==
  /\ status = "running" /\ peer[i].at = "up" /\ session[i].ops # {}
  /\ peer' = [peer EXCEPT ![i].at = "finished"]
  /\ UNCHANGED <<limited, status, mainRuns, pool, accepting, faults, session>>

(* A reset discards what has not been read; "early" comes before the       *)
(* listener has asked for the peer's address.                              *)
Reset(i) ==
  /\ status = "running"
  /\ peer[i].at = "queued" \/ (peer[i].at = "up" /\ session[i].ops # {})
  /\ peer' = [peer EXCEPT ![i].at = IF @ = "queued" THEN "early" ELSE "reset",
                          ![i].left = << >>]
  /\ UNCHANGED <<limited, status, mainRuns, pool, accepting, faults, session>>

-----------------------------------------------------------------------------
(* tcp_listener *)

(* An exception that no handler catches leaves run(): on the main thread   *)
(* main() is unwound, which waits in the pool's destructor for the other   *)
(* threads; on a thread of the pool it ends the process.                   *)
Escape ==
  \/ mainRuns /\ mainRuns' = FALSE /\ UNCHANGED pool
     /\ status' = IF pool = 0 THEN "killed" ELSE status
  \/ pool > 0 /\ status' = "killed" /\ UNCHANGED <<mainRuns, pool>>

Queued(i) ==
  /\ peer[i].at \in {"queued", "early"}
  /\ \A j \in 1..i - 1 : peer[j].at \notin {"queued", "early"}

(* start() calls start_protocol() inside the call, which starts to read a; *)
(* expires_after() comes first, except in the basic form.                  *)
Reading(s) == [s EXCEPT !.ops = @ \cup {"a"}, !.timed = limited]
Started(i) == [session EXCEPT ![i] = Reading([NoSession EXCEPT !.open = TRUE])]

AcceptOnce(i) ==  \* mutant: the next accept is forgotten
  /\ Running /\ accepting /\ Queued(i) /\ peer[i].at = "queued"
  /\ peer' = [peer EXCEPT ![i].at = "up"]
  /\ accepting' = FALSE /\ session' = Started(i)
  /\ UNCHANGED <<limited, status, mainRuns, pool, faults>>
(* The handler of async_accept for a good connection: the next accept is   *)
(* prepared before the session gets its logger and is started.             *)
Accept(i) ==
  /\ Running /\ accepting /\ Queued(i) /\ peer[i].at = "queued"
  /\ peer' = [peer EXCEPT ![i].at = "up"]
  /\ session' = Started(i)
  /\ UNCHANGED <<limited, status, mainRuns, pool, accepting, faults>>

(* The factory fails: the chain of accepts ends, the session starts. *)
FactoryFails(i) ==
  /\ Running /\ accepting /\ Queued(i) /\ peer[i].at = "queued" /\ Fault
  /\ peer' = [peer EXCEPT ![i].at = "up"]
  /\ accepting' = FALSE /\ session' = Started(i)
  /\ UNCHANGED <<limited, status, mainRuns, pool>>

(* async_accept fails to start, outside of any try: the connection is      *)
(* closed as the exception leaves the handler.                             *)
AcceptNotStarted(i) ==
  /\ Running /\ accepting /\ Queued(i) /\ Fault
  /\ peer' = [peer EXCEPT ![i].at = "reset", ![i].left = << >>]
  /\ accepting' = FALSE /\ Escape
  /\ UNCHANGED <<limited, session>>

(* create_logger() throws since the peer has no address any more, and so   *)
(* does the catch clause that wants to log it.                             *)
LoggerFails(i) ==
  /\ Running /\ accepting /\ Queued(i) /\ peer[i].at = "early"
  /\ peer' = [peer EXCEPT ![i].at = "reset"]
  /\ Escape
  /\ UNCHANGED <<limited, accepting, faults, session>>

(* The accept itself fails: nothing accepts any more. *)
AcceptFails ==
  /\ Running /\ accepting /\ Fault
  /\ accepting' = FALSE
  /\ UNCHANGED <<limited, status, mainRuns, pool, peer, session>>

-----------------------------------------------------------------------------
(* calc_session *)

HasLine(t) == Contains(t, NL)
FirstLine(t) == SubSeq(t, 1, SelectInSeq(t, LAMBDA c : c = NL) - 1)
AfterLine(t) == SubSeq(t, SelectInSeq(t, LAMBDA c : c = NL) + 1, Len(t))
Parses(t) == ~Contains(t, Bad)
Value(t) ==
  LET v[n \in 0..Len(t)] == IF n = 0 THEN 0 ELSE 10 * v[n - 1] + t[n]
  IN v[Len(t)]

AfterLineLeft(t) == t                                 \* mutant: nothing is erased
(* read_buffered_number() without its conversion: what stays in in_buf_. *)
Erased(t) == AfterLine(t)

(* A handler returns or throws without having started an operation: the    *)
(* last owner of the session is gone.  An exception has been caught and    *)
(* logged, in basic by the handler, else by the catching executor.         *)
Ended(s, why) == [NoSession EXCEPT !.log = why, !.got = s.got]

BeginUntimed(s, this, next) ==  \* mutant: no expires_after()
  [s EXCEPT !.ops = (@ \ {this}) \cup {next}, !.timed = FALSE]
(* Begins the operation that follows: its handler owns the session. *)
Begin(s, this, next) == [s EXCEPT !.ops = (@ \ {this}) \cup {next}, !.timed = limited]

Room(i) == IF limited THEN NumberLimit - Len(session[i].in) ELSE Len(peer[i].left)

Reads(i) == session[i].ops \cap {"a", "b"} # {}

(* async_read_until takes what has arrived while there is no line yet. *)
ReadSome(i) ==
  /\ Running /\ Reads(i) /\ session[i].open /\ ~HasLine(session[i].in)
  /\ \E k \in 1..Len(peer[i].left) :
       /\ k <= Room(i)
       /\ session' = [session EXCEPT ![i].in = @ \o SubSeq(peer[i].left, 1, k)]
       /\ peer' = [peer EXCEPT ![i].left = SubSeq(@, k + 1, Len(@))]
  /\ UNCHANGED <<limited, status, mainRuns, pool, accepting, faults>>

ReadErrorEarly(i, k) ==  \* mutant: the limit is one too small
  IF session[i].open /\ limited /\ Len(session[i].in) = NumberLimit - 1 THEN "long" ELSE "none"
(* Why a read of a or b fails, "none" as long as it does not.  With an     *)
(* error n is always 0, so that an end of the stream in the middle of a    *)
(* line counts as a graceful one when reading a.                           *)
ReadError(i, k) ==
  IF ~session[i].open THEN "timeout"
  ELSE IF HasLine(session[i].in) THEN "none"
  ELSE IF limited /\ Len(session[i].in) = NumberLimit THEN "long"
  ELSE CASE peer[i].at = "reset" -> "reset"
         [] peer[i].at = "finished" /\ peer[i].left = << >> -> IF k = "a" THEN "closed" ELSE "eof"
         [] OTHER -> "none"

Same == <<limited, status, mainRuns, pool, accepting, peer>>

ReadFailed(i, k) ==
  /\ Running /\ k \in session[i].ops /\ ReadError(i, k) # "none"
  /\ session' = [session EXCEPT ![i] = Ended(@, ReadError(i, k))]
  /\ UNCHANGED faults /\ UNCHANGED Same

HandlesLine(i, k) ==
  Running /\ k \in session[i].ops /\ session[i].open /\ HasLine(session[i].in)

ParseFailed(i) ==
  /\ session' = [session EXCEPT ![i] = Ended(@, "parse")]
  /\ UNCHANGED faults /\ UNCHANGED Same

LineRead(i, k) ==
  LET s == session[i]  line == FirstLine(s.in)
      t == [s EXCEPT !.in = Erased(@)]
  IN /\ HandlesLine(i, k)
     /\ IF Parses(line)
        THEN /\ session' = [session EXCEPT ![i] =
                  IF k = "a" THEN Begin([t EXCEPT !.a = Value(line)], "a", "b")
                  ELSE Begin([t EXCEPT !.a = s.a * Value(line),
                                       !.out = s.a * Value(line)], "b", "write")]
             /\ UNCHANGED faults /\ UNCHANGED Same
        ELSE ParseFailed(i)

ReadAgain(s) == Reading(s)   \* mutant: does not wait for the write
Answered(s) == Reading([s EXCEPT !.ops = @ \ {"write"}])

Delivered(s) == [s EXCEPT !.got = Append(@, s.out)]

(* The answer has gone out, as out_buf_ was then; start_protocol(). *)
Written(i) ==
  /\ Running /\ "write" \in session[i].ops /\ session[i].open /\ peer[i].at # "reset"
  /\ session' = [session EXCEPT ![i] = Answered(Delivered(@))]
  /\ UNCHANGED faults /\ UNCHANGED Same

WriteFailed(i) ==
  /\ Running /\ "write" \in session[i].ops
  /\ ~session[i].open \/ peer[i].at \in {"reset", "finished"}
  /\ session' = [session EXCEPT ![i] =
                   Ended(@, IF session[i].open THEN "reset" ELSE "timeout")]
  /\ UNCHANGED faults /\ UNCHANGED Same

NotStartedThrows(i) ==  \* mutant: the exception is not caught
  /\ Fault /\ \E k \in {"a", "b"} : HandlesLine(i, k) /\ Parses(FirstLine(session[i].in))
  /\ session' = [session EXCEPT ![i] = Ended(@, "memory")]
  /\ Escape /\ UNCHANGED <<limited, accepting, peer>>
(* The handler of a line or of a write, or start(), fails to start the     *)
(* next operation, whose handler is destroyed.  The exception is caught:   *)
(* by the handler in the basic form, by the catching executor in the       *)
(* others, and where start() throws by the listener.                       *)
NotStarted(i) ==
  /\ Fault
  /\ \/ \E k \in {"a", "b"} : HandlesLine(i, k) /\ Parses(FirstLine(session[i].in))
        /\ session' = [session EXCEPT ![i] = Ended(@, "memory")] /\ UNCHANGED peer
     \/ /\ Running /\ "write" \in session[i].ops /\ session[i].open /\ peer[i].at # "reset"
        /\ session' = [session EXCEPT ![i] = Ended(Delivered(@), "memory")] /\ UNCHANGED peer
     \/ /\ Running /\ accepting /\ Queued(i) /\ peer[i].at = "queued"
        /\ session' = [session EXCEPT ![i] = Ended(@, "memory")]
        /\ peer' = [peer EXCEPT ![i].at = "up"]
  /\ UNCHANGED <<limited, status, mainRuns, pool, accepting>>

(* The deadline passes before the handler runs: the stream is closed, and  *)
(* the operation fails even if it has just succeeded.                      *)
Timeout(i) ==
  /\ Running /\ session[i].ops # {} /\ session[i].timed /\ session[i].open
  /\ session' = [session EXCEPT ![i].open = FALSE]
  /\ UNCHANGED faults /\ UNCHANGED Same

-----------------------------------------------------------------------------
(* io_context_signal_interrupter; the end of main(). *)

Signal ==
  /\ Running /\ status' = "stopped"
  /\ UNCHANGED <<limited, mainRuns, pool, accepting, faults, peer, session>>

(* Every thread has left run(); the io_context destroys the handlers that  *)
(* are left, and with them the sessions.                                   *)
Teardown ==
  /\ status = "stopped" /\ status' = "ended" /\ mainRuns' = FALSE /\ pool' = 0
  /\ accepting' = FALSE
  /\ session' = [i \in Connection |-> Ended(session[i], session[i].log)]
  /\ UNCHANGED <<limited, faults, peer>>

Listener(i) == Accept(i) \/ FactoryFails(i) \/ AcceptNotStarted(i) \/ LoggerFails(i)
Handler(i) ==
  \/ \E k \in {"a", "b"} : LineRead(i, k) \/ ReadFailed(i, k)
  \/ WriteFailed(i)

Next ==
  \/ \E i \in Connection :
       \/ Connect(i) \/ Finish(i) \/ Reset(i) \/ Listener(i) \/ ReadSome(i)
       \/ Handler(i) \/ Written(i) \/ NotStarted(i) \/ Timeout(i)
  \/ AcceptFails \/ Signal \/ Teardown

Spec == Init /\ [][Next]_vars

(* The threads go on running handlers, the kernel delivers what has been   *)
(* sent, and time passes.  A peer need not read its answers, nor send.     *)
FairSpec ==
  /\ Spec /\ WF_vars(Teardown)
  /\ \A i \in Connection :
       /\ WF_vars(Listener(i)) /\ WF_vars(ReadSome(i)) /\ WF_vars(Handler(i))
       /\ WF_vars(Timeout(i))

-----------------------------------------------------------------------------
(* Properties *)

(* The lines of t: the k-th one goes to the NL that has k - 1 before it.   *)
Ends(t, n) == {j \in 1..n : t[j] = NL}
LineEnd(t, k) ==
  IF k = 0 THEN 0 ELSE CHOOSE e \in Ends(t, Len(t)) : Cardinality(Ends(t, e)) = k
LinesOf(t) ==
  [k \in 1..Cardinality(Ends(t, Len(t))) |->
     SubSeq(t, LineEnd(t, k - 1) + 1, LineEnd(t, k) - 1)]

(* A session has one operation in flight at a time, so nothing touches     *)
(* in_buf_, a_ or out_buf_ while an operation uses them; a connection is   *)
(* open only while an operation owns its session.                          *)
OneOperation ==
  \A i \in Connection : /\ Cardinality(session[i].ops) <= 1
                        /\ session[i].open => session[i].ops # {}

(* Whatever pieces the lines arrive in, the answers are the products of    *)
(* the consecutive pairs of the peer's lines, in order and none twice.     *)
(* The numbers it computes with stay numbers (TypeOK).                     *)
AnswersExact ==
  /\ TypeOK
  /\ \A i \in Connection :
       LET ls == LinesOf(peer[i].script)  got == session[i].got
       IN \A k \in DOMAIN got : /\ 2 * k <= Len(ls)
                                /\ got[k] = Value(ls[2 * k - 1]) * Value(ls[2 * k])

(* A session ends for the reason that its log tells: a peer that has       *)
(* finished, a line that does not parse or does not fit with its line end  *)
(* into number_limit_, a reset, a deadline where there are deadlines.      *)
EndsForAReason ==
  \A i \in Connection :
    LET ls == LinesOf(peer[i].script \o <<NL>>)  log == session[i].log
    IN /\ log \in {"closed", "eof"} => peer[i].at = "finished" /\ peer[i].left = << >>
       /\ log = "reset" => peer[i].at \in {"reset", "finished"}
       /\ log = "parse" => \E j \in DOMAIN ls : ~Parses(ls[j])
       /\ log = "long" => limited /\ \E j \in DOMAIN ls : Len(ls[j]) >= NumberLimit
       /\ log = "timeout" => limited
       /\ log = "memory" => faults > 0

(* Nothing a session meets leaves its handlers, whether a line does not    *)
(* parse or an operation cannot be started: where a thread of the server   *)
(* is lost, the listener has dropped a connection before its session       *)
(* began, since an async_accept could not be started or the peer was gone  *)
(* before create_logger().  Those two exceptions do cost a thread.         *)
SessionsContained ==
  status = "killed" \/ (status = "running" /\ ~mainRuns) =>
    \E i \in Connection : peer[i].at = "reset" /\ session[i] = NoSession

(* With deadlines no session outlives its peer's interest: every session   *)
(* ends, whether its peer falls silent, never reads or goes on to the end. *)
(* After a signal the process ends and no session is left, with or without *)
(* deadlines.                                                              *)
SessionsEnd ==
  \A i \in Connection :
    session[i].ops # {} /\ (limited \/ status = "stopped")
      ~> session[i].ops = {} \/ status = "killed"

(* A peer that has connected is accepted as long as the listener has not   *)
(* failed and the process is not ending: every accept is followed by       *)
(* another, whatever fails in a session.                                   *)
QueuedIsAccepted ==
  \A i \in Connection :
    peer[i].at = "queued" ~>
      peer[i].at # "queued" \/ (faults > 0 /\ ~accepting) \/ ~Running
=============================================================================
