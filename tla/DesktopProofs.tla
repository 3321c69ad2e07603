---------------------------- MODULE DesktopProofs ----------------------------
(***************************************************************************)
(* Proofs about the two window programs with a model each: FileCopy        *)
(* (gui-progress), for any set of files and any number of copies, and      *)
(* NotesModel (treeview), for any number of entities and any selection.    *)
(***************************************************************************)
EXTENDS FileCopy, NotesModel, FiniteSetTheorems, SequenceTheorems, WellFoundedInduction, TLAPS

-----------------------------------------------------------------------------
(* The inductive invariant. *)

Signals == [progress : Nat] \cup [done : Results]
IsDone(e) == "done" \in DOMAIN e
Waiting == \E i \in DOMAIN events : IsDone(events[i])   \* a result is on its way
Told == box # "none" \/ Waiting
Flags == /\ running_ \in BOOLEAN /\ button \in BOOLEAN /\ cancelled_ \in BOOLEAN
         /\ failed \in BOOLEAN /\ wished \in BOOLEAN

(* CopyTypeOK, in the form the provers take. *)
Types ==
  /\ window \in {"open", "closed", "gone"} /\ Flags
  /\ box \in Results \cup {"none"} /\ bar \in Nat
  /\ events \in Seq(Signals)
  /\ asked \in 0..1 /\ copier \in {"idle", "copying", "ending", "crashed"}
  /\ source \in Sources /\ copied \in Nat /\ copied <= source.blocks
  /\ progress \in Nat /\ runs \in 0..MaxRuns

(* Where the copy of this run is. *)
Places ==
  /\ running_ <=> asked > 0 \/ copier # "idle" \/ Told
  /\ asked > 0 => copier = "idle" /\ ~Told
  /\ copier # "idle" => ~Told
  /\ box # "none" => events = << >>
  /\ window # "open" => ~running_

(* A result is the last signal. *)
LastOnly == \A i \in DOMAIN events : IsDone(events[i]) => i = Len(events)

(* What a result says, and what the copier will say. *)
Truth ==
  /\ cancelled_ => wished
  /\ copier = "ending" /\ ~cancelled_ /\ ~failed => copied = source.blocks
  /\ Reported("copied") => copied = source.blocks
  /\ Reported("cancelled") => wished

Full == source.size = source.blocks /\ source.size > 0 /\ copied = source.blocks

(* The bar shows the last percentage, if it is in its range. *)
Shows == progress <= 100 => bar = progress

(* The last percentage is on its way to the bar or has come there, and the *)
(* report of success is right behind it.                                   *)
Follows ==
  /\ Full /\ (copier # "idle" \/ Reported("copied")) => progress = 100
  /\ copier # "idle" => IF events = << >> THEN Shows
                        ELSE events[Len(events)] = [progress |-> progress]
  /\ \A i \in DOMAIN events : events[i] = [done |-> "copied"] =>
       IF i = 1 THEN Shows ELSE events[i - 1] = [progress |-> progress]
  /\ box = "copied" => Shows

FInv == Types /\ Places /\ LastOnly /\ Truth /\ Follows

-----------------------------------------------------------------------------
(* Signals. *)

(* A signal is a percentage or a result and not both. *)
LEMMA SignalKinds ==
  /\ \A p \in Nat : [progress |-> p] \in Signals /\ ~IsDone([progress |-> p])
  /\ \A r \in Results : [done |-> r] \in Signals /\ IsDone([done |-> r])
  /\ \A e \in Signals : IF IsDone(e) THEN e.done \in Results /\ e = [done |-> e.done]
                        ELSE e.progress \in Nat /\ e = [progress |-> e.progress]
  /\ \A r, q \in Results : [done |-> r] = [done |-> q] => r = q
  /\ \A p, q \in Nat : [progress |-> p] = [progress |-> q] => p = q
BY DEF Signals, IsDone

(* What a signal that is emitted does to those on their way. *)
LEMMA Emitted ==
  ASSUME NEW s \in Seq(Signals), NEW e \in Signals
  PROVE  LET t == s \o <<e>>
         IN /\ t \in Seq(Signals) /\ Len(t) = Len(s) + 1 /\ t # << >>
            /\ DOMAIN t = 1..(Len(s) + 1) /\ DOMAIN s = 1..Len(s)
            /\ t[Len(s) + 1] = e /\ \A i \in 1..Len(s) : t[i] = s[i]
OBVIOUS

(* What taking the first one does. *)
LEMMA SignalTaken ==
  ASSUME NEW s \in Seq(Signals), s # << >>
  PROVE  LET t == Tail(s)
         IN /\ t \in Seq(Signals) /\ Len(t) = Len(s) - 1 /\ Len(s) > 0
            /\ DOMAIN t = 1..(Len(s) - 1) /\ DOMAIN s = 1..Len(s)
            /\ Head(s) = s[1] /\ Head(s) \in Signals
            /\ \A i \in 1..(Len(s) - 1) : t[i] = s[i + 1]
OBVIOUS

(* A result that is reported is shown or on its way. *)
LEMMA ReportedIsTold == \A r \in Results : Types /\ Reported(r) => Told
BY SignalKinds DEF Types, Told, Waiting, Reported, Contains, Results

(* A file whose size is the number of its blocks is at 100 percent when    *)
(* the last one is written.                                                *)
LEMMA AllIsHundred ==
  ASSUME NEW s \in Nat, s > 0
  PROVE  (100 * s) \div s = 100
OBVIOUS

(* Percent is a natural number where there is a size. *)
LEMMA PercentIsNat ==
  ASSUME NEW s \in Nat, s > 0, NEW c \in Nat
  PROVE  (100 * (c + 1)) \div s \in Nat
OBVIOUS

-----------------------------------------------------------------------------
(* The steps that leave the signals alone. *)

(* A click on Run finds nothing of an earlier copy. *)
LEMMA ClickRunFInv == FInv /\ ClickRun => FInv'
<1> SUFFICES ASSUME FInv, ClickRun PROVE FInv'
  OBVIOUS
<1> USE CopyAssumption DEF FInv, ClickRun, file, gui, Usable, FlagReset
<1>1. Types'
  <2>1. asked = 0 /\ asked + 1 \in 0..1 /\ runs + 1 \in 0..MaxRuns
    BY DEF Types, Flags, Places
  <2>2. QED
    BY <2>1 DEF Types, Flags
<1>2. Places'
  BY DEF Types, Flags, Places, Told, Waiting
<1>3. LastOnly'
  BY DEF LastOnly
<1>4. Truth'
  BY ReportedIsTold DEF Types, Flags, Places, Truth, Reported, Results
<1>5. Follows'
  BY DEF Types, Flags, Places, Told, Waiting, Follows, Shows, Full, Reported, Contains
<1>6. QED
  BY <1>1, <1>2, <1>3, <1>4, <1>5

(* A click on Cancel leaves the copy where it is. *)
LEMMA ClickCancelFInv == FInv /\ ClickCancel => FInv'
<1> SUFFICES ASSUME FInv, ClickCancel PROVE FInv'
  OBVIOUS
<1> USE CopyAssumption DEF FInv, ClickCancel, file, gui, Usable, StillRunning
<1>1. Types'
  BY DEF Types, Flags, Results
<1>2. Places'
  BY DEF Types, Flags, Places, Told, Waiting
<1>3. LastOnly'
  BY DEF LastOnly
<1>4. Truth'
  BY DEF Types, Flags, Places, Told, Waiting, Truth, Reported, Contains
<1>5. Follows'
  BY DEF Types, Flags, Places, Told, Waiting, Follows, Shows, Full, Reported, Contains
<1>6. QED
  BY <1>1, <1>2, <1>3, <1>4, <1>5

(* The window closes when no copy runs. *)
LEMMA CloseFInv == FInv /\ Close => FInv'
<1> SUFFICES ASSUME FInv, Close PROVE FInv'
  OBVIOUS
<1> USE CopyAssumption DEF FInv, Close, file, gui, Usable
<1>1. Types'
  BY DEF Types, Flags, Results
<1>2. Places'
  BY DEF Types, Flags, Places, Told, Waiting
<1>3. LastOnly'
  BY DEF LastOnly
<1>4. Truth'
  BY DEF Types, Flags, Places, Told, Waiting, Truth, Reported, Contains
<1>5. Follows'
  BY DEF Types, Flags, Places, Told, Waiting, Follows, Shows, Full, Reported, Contains
<1>6. QED
  BY <1>1, <1>2, <1>3, <1>4, <1>5

(* The window goes when the copier is idle. *)
LEMMA DestroyedFInv == FInv /\ Destroyed => FInv'
<1> SUFFICES ASSUME FInv, Destroyed PROVE FInv'
  OBVIOUS
<1> USE CopyAssumption DEF FInv, Destroyed, file, gui
<1>1. Types'
  BY DEF Types, Flags, Results
<1>2. Places'
  BY DEF Types, Flags, Places, Told, Waiting
<1>3. LastOnly'
  BY DEF LastOnly
<1>4. Truth'
  BY DEF Types, Flags, Places, Told, Waiting, Truth, Reported, Contains
<1>5. Follows'
  BY DEF Types, Flags, Places, Told, Waiting, Follows, Shows, Full, Reported, Contains
<1>6. QED
  BY <1>1, <1>2, <1>3, <1>4, <1>5

(* Dismissing the box ends the run. *)
LEMMA DismissFInv == FInv /\ Dismiss => FInv'
<1> SUFFICES ASSUME FInv, Dismiss PROVE FInv'
  OBVIOUS
<1> USE CopyAssumption DEF FInv, Dismiss, file, gui
<1>1. Types'
  BY DEF Types, Flags, Results
<1>2. Places'
  BY DEF Types, Flags, Places, Told, Waiting
<1>3. LastOnly'
  BY DEF LastOnly
<1>4. Truth'
  BY DEF Types, Flags, Places, Told, Waiting, Truth, Reported, Contains
<1>5. Follows'
  BY DEF Types, Flags, Places, Told, Waiting, Follows, Shows, Full, Reported, Contains
<1>6. QED
  BY <1>1, <1>2, <1>3, <1>4, <1>5

(* The copier leaves its loop. *)
LEMMA LeaveLoopFInv == FInv /\ LeaveLoop => FInv'
<1> SUFFICES ASSUME FInv, LeaveLoop PROVE FInv'
  OBVIOUS
<1> USE CopyAssumption DEF FInv, LeaveLoop, file, gui
<1>1. Types'
  BY DEF Types, Flags, Results
<1>2. Places'
  BY DEF Types, Flags, Places, Told, Waiting
<1>3. LastOnly'
  BY DEF LastOnly
<1>4. Truth'
  BY DEF Types, Flags, Places, Told, Waiting, Truth, Reported, Contains
<1>5. Follows'
  BY DEF Types, Flags, Places, Told, Waiting, Follows, Shows, Full, Reported, Contains
<1>6. QED
  BY <1>1, <1>2, <1>3, <1>4, <1>5

-----------------------------------------------------------------------------
(* The steps that emit a signal or take one. *)

(* A result that is emitted after no other is the only one, and the last. *)
LEMMA EmitResult ==
  ASSUME Types, ~Told, box' = box, NEW r \in Results,
         events' = events \o <<[done |-> r]>>
  PROVE  /\ events' \in Seq(Signals) /\ Waiting' /\ LastOnly'
         /\ \A q \in Results : Reported(q)' => q = r
         /\ \A i \in DOMAIN events' : events'[i] = [done |-> "copied"] =>
              i = Len(events) + 1 /\ r = "copied"
         /\ \A i \in 1..Len(events) : events'[i] = events[i]
<1> DEFINE n == Len(events)
<1>1. [done |-> r] \in Signals
  BY SignalKinds
<1>2. /\ events' \in Seq(Signals) /\ Len(events') = n + 1 /\ n \in Nat /\ events' # << >>
      /\ DOMAIN events' = 1..(n + 1) /\ DOMAIN events = 1..n
      /\ events'[n + 1] = [done |-> r] /\ \A i \in 1..n : events'[i] = events[i]
  BY <1>1, Emitted DEF Types
<1>3. box' = "none" /\ \A i \in 1..n : ~IsDone(events'[i])
  BY <1>2 DEF Told, Waiting
<1>4. IsDone([done |-> r])
  BY SignalKinds
<1>5. Waiting'
  BY <1>2, <1>4 DEF Waiting
<1>6. LastOnly'
  <2> SUFFICES ASSUME NEW i \in 1..(n + 1), IsDone(events'[i]) PROVE i = n + 1
    BY <1>2 DEF LastOnly
  <2>1. i \notin 1..n
    BY <1>3
  <2>2. QED
    BY <1>2, <2>1
<1>7. ASSUME NEW q \in Results, NEW i \in 1..(n + 1), events'[i] = [done |-> q]
      PROVE  i = n + 1 /\ q = r
  <2>1. IsDone(events'[i])
    BY <1>7, SignalKinds
  <2>2. i = n + 1
    BY <1>2, <1>3, <2>1
  <2>3. QED
    BY <1>2, <1>7, <2>2, SignalKinds
<1>8. ASSUME NEW q \in Results, Reported(q)' PROVE q = r
  <2>1. box' # q
    BY <1>3 DEF Results
  <2>2. PICK i \in 1..(n + 1) : events'[i] = [done |-> q]
    BY <1>2, <1>8, <2>1 DEF Reported, Contains
  <2>3. QED
    BY <1>7, <2>2
<1>9. ASSUME NEW i \in DOMAIN events', events'[i] = [done |-> "copied"]
      PROVE  i = n + 1 /\ r = "copied"
  BY <1>2, <1>7, <1>9 DEF Results
<1>10. QED
  BY <1>2, <1>5, <1>6, <1>8, <1>9

(* A percentage that is emitted leaves no result on its way. *)
LEMMA EmitProgress ==
  ASSUME Types, ~Told, box' = box, NEW p \in Nat,
         events' = events \o <<[progress |-> p]>>
  PROVE  /\ events' \in Seq(Signals) /\ events' # << >> /\ ~Told' /\ LastOnly'
         /\ \A q \in Results : ~Reported(q)'
         /\ \A i \in DOMAIN events' : events'[i] # [done |-> "copied"]
         /\ events'[Len(events')] = [progress |-> p]
<1> DEFINE n == Len(events)
<1>1. [progress |-> p] \in Signals
  BY SignalKinds
<1>2. /\ events' \in Seq(Signals) /\ Len(events') = n + 1 /\ n \in Nat /\ events' # << >>
      /\ DOMAIN events' = 1..(n + 1) /\ DOMAIN events = 1..n
      /\ events'[n + 1] = [progress |-> p] /\ \A i \in 1..n : events'[i] = events[i]
  BY <1>1, Emitted DEF Types
<1>3. box' = "none" /\ \A i \in 1..n : ~IsDone(events'[i])
  BY <1>2 DEF Told, Waiting
<1>4. ~IsDone([progress |-> p])
  BY SignalKinds
<1>5. \A i \in 1..(n + 1) : ~IsDone(events'[i])
  <2> TAKE i \in 1..(n + 1)
  <2>1. i \in 1..n \/ i = n + 1
    BY <1>2
  <2>2. QED
    BY <1>2, <1>3, <1>4, <2>1
<1>6. ~Told' /\ LastOnly'
  BY <1>2, <1>3, <1>5 DEF Told, Waiting, LastOnly
<1>7. \A q \in Results : \A i \in 1..(n + 1) : events'[i] # [done |-> q]
  BY <1>5, SignalKinds
<1>8. \A q \in Results : ~Reported(q)'
  BY <1>2, <1>3, <1>7 DEF Reported, Contains, Results
<1>9. \A i \in DOMAIN events' : events'[i] # [done |-> "copied"]
  BY <1>2, <1>7 DEF Results
<1>10. QED
  BY <1>2, <1>6, <1>8, <1>9

(* The copier reports its result. *)
LEMMA FinishFInv == FInv /\ Finish => FInv'
<1> SUFFICES ASSUME FInv, Finish PROVE FInv'
  OBVIOUS
<1> USE DEF FInv, Finish, gui
<1>1. ~Told /\ box' = box /\ Result \in Results
  BY DEF Places, Result, Results
<1>2. events' = events \o <<[done |-> Result]>>
  BY DEF Emit
<1>3. /\ events' \in Seq(Signals) /\ Waiting' /\ LastOnly'
      /\ \A q \in Results : Reported(q)' => q = Result
      /\ \A i \in DOMAIN events' : events'[i] = [done |-> "copied"] =>
           i = Len(events) + 1 /\ Result = "copied"
      /\ \A i \in 1..Len(events) : events'[i] = events[i]
  BY <1>1, <1>2, EmitResult
<1>4. Types'
  BY <1>3 DEF Types, Flags
<1>5. Places'
  BY <1>1, <1>3 DEF Types, Flags, Places, Told
<1>6. Truth'
  BY <1>3 DEF Types, Flags, Truth, Result, Results
<1>7. Follows'
  <2>1. (Full /\ (copier # "idle" \/ Reported("copied")) => progress = 100)'
    BY <1>3 DEF Follows, Shows, Full
  <2>2. (box = "copied" => Shows)'
    BY <1>1 DEF Places, Told
  <2>3. ASSUME NEW i \in DOMAIN events', events'[i] = [done |-> "copied"]
        PROVE  IF i = 1 THEN Shows' ELSE events'[i - 1] = [progress |-> progress']
    <3>1. i = Len(events) + 1 /\ Len(events) \in Nat
      BY <1>3, <2>3 DEF Types
    <3>2. CASE events = << >>
      BY <3>1, <3>2 DEF Follows, Shows
    <3>3. CASE events # << >>
      <4>1. i # 1 /\ i - 1 = Len(events) /\ Len(events) \in 1..Len(events)
        BY <3>1, <3>3 DEF Types
      <4>2. events'[i - 1] = events[i - 1]
        BY <1>3, <4>1
      <4>3. QED
        BY <3>3, <4>1, <4>2 DEF Follows, Shows
    <3>4. QED
      BY <3>2, <3>3
  <2>4. QED
    BY <2>1, <2>2, <2>3 DEF Follows, Shows
<1>8. QED
  BY <1>3, <1>4, <1>5, <1>6, <1>7

(* A failure that is emitted keeps the rest, whatever the copier has       *)
(* written.                                                                *)
LEMMA FailWithFInv ==
  ASSUME Types, ~Told, box' = box, copier' = "idle", FailWith, cancelled_' => wished'
  PROVE  events' \in Seq(Signals) /\ Waiting' /\ LastOnly' /\ Truth' /\ Follows'
<1>1. "failed" \in Results /\ events' = events \o <<[done |-> "failed"]>> /\ box' = "none"
  BY DEF Results, FailWith, Emit, Told
<1>2. /\ events' \in Seq(Signals) /\ Waiting' /\ LastOnly'
      /\ \A q \in Results : Reported(q)' => q = "failed"
      /\ \A i \in DOMAIN events' : events'[i] # [done |-> "copied"]
  BY <1>1, EmitResult
<1>3. Truth' /\ Follows'
  BY <1>1, <1>2 DEF Truth, Follows, Shows, Results
<1>4. QED
  BY <1>2, <1>3

(* A failed write is reported. *)
LEMMA WriteFailsFInv == FInv /\ WriteFails => FInv'
<1> SUFFICES ASSUME FInv, WriteFails PROVE FInv'
  OBVIOUS
<1> USE DEF FInv, WriteFails, gui
<1>1. events' \in Seq(Signals) /\ Waiting' /\ LastOnly' /\ Truth' /\ Follows'
  BY FailWithFInv DEF Places, Truth
<1>2. Types'
  BY <1>1 DEF Types, Flags
<1>3. Places'
  BY <1>1 DEF Types, Flags, Places, Told
<1>4. QED
  BY <1>1, <1>2, <1>3

(* A copy begins, or fails at once. *)
LEMMA BeginFInv == FInv /\ Begin => FInv'
<1> SUFFICES ASSUME FInv, Begin PROVE FInv'
  OBVIOUS
<1> USE DEF FInv, Begin
<1>1. ~Told /\ box' = "none" /\ box' = box /\ asked = 1 /\ asked' = 0 /\ running_
  BY DEF Types, Places, Told
<1>2. source' \in Sources /\ copied' \in Nat /\ copied' <= source'.blocks
  BY CopyAssumption
<1>3. Flags' /\ asked' \in 0..1 /\ progress' \in Nat
  <2>1. Flags'
    BY DEF Types, Flags
  <2>2. asked' \in 0..1 /\ progress' \in Nat
    BY <1>1
  <2>3. QED
    BY <2>1, <2>2
<1>4. CASE copier' = "idle" /\ FailWith
  <2>1. events' \in Seq(Signals) /\ Waiting' /\ LastOnly' /\ Truth' /\ Follows'
    BY <1>1, <1>4, FailWithFInv DEF Truth
  <2>2. Types'
    BY <1>1, <1>2, <1>3, <1>4, <2>1 DEF Types
  <2>3. Places'
    BY <1>1, <1>4, <2>1 DEF Types, Flags, Places, Told
  <2>4. QED
    BY <2>1, <2>2, <2>3
<1>5. CASE copier' = "copying" /\ Emit(<<[progress |-> 0]>>)
  <2>1. /\ events' \in Seq(Signals) /\ events' # << >> /\ ~Told' /\ LastOnly'
        /\ \A q \in Results : ~Reported(q)'
        /\ \A i \in DOMAIN events' : events'[i] # [done |-> "copied"]
        /\ events'[Len(events')] = [progress |-> 0]
    BY <1>1, <1>5, EmitProgress DEF Emit
  <2>2. Types'
    BY <1>1, <1>2, <1>3, <1>5, <2>1 DEF Types
  <2>3. Places'
    BY <1>1, <1>5, <2>1 DEF Types, Flags, Places
  <2>4. Truth'
    BY <1>5, <2>1 DEF Truth, Results
  <2>5. Follows'
    BY <1>1, <1>5, <2>1 DEF Follows, Shows, Full
  <2>6. QED
    BY <2>1, <2>2, <2>3, <2>4, <2>5
<1>6. QED
  BY <1>4, <1>5

(* A block is copied: the percentage is emitted if it has changed. *)
LEMMA CopyBlockFInv == FInv /\ CopyBlock => FInv'
<1> SUFFICES ASSUME FInv, CopyBlock PROVE FInv'
  OBVIOUS
<1> USE DEF FInv, CopyBlock, gui
<1>1. /\ ~Told /\ box' = "none" /\ box' = box /\ asked = 0 /\ running_
      /\ source.size \in Nat /\ source.blocks \in Nat
      /\ \A q \in Results : ~Reported(q)
  BY CopyAssumption, ReportedIsTold DEF Types, Places, Told
<1>2. CASE source.size = 0
  <2>1. Types' /\ LastOnly'
    BY <1>2 DEF Types, Flags, LastOnly
  <2>2. Places'
    BY <1>1, <1>2 DEF Types, Flags, Places, Told, Waiting
  <2>3. Truth' /\ Follows'
    BY <1>1, <1>2 DEF Truth, Follows, Shows, Full, Reported, Results
  <2>4. QED
    BY <2>1, <2>2, <2>3
<1>3. CASE source.size # 0
  <2>1. Percent \in Nat /\ (source.size = source.blocks /\ copied + 1 = source.blocks => Percent = 100)
    <3>1. source.size > 0 /\ copied \in Nat
      BY <1>1, <1>3 DEF Types
    <3>2. (100 * (copied + 1)) \div source.size \in Nat /\ (100 * source.size) \div source.size = 100
      BY <1>1, <3>1, PercentIsNat, AllIsHundred
    <3>3. QED
      BY <3>2 DEF Percent
  <2>2. copied' = copied + 1 /\ progress' = Percent /\ copier' = "copying" /\ source' = source
    BY <1>3
  <2>3. /\ events' \in Seq(Signals) /\ ~Told' /\ LastOnly'
        /\ \A q \in Results : ~Reported(q)'
        /\ \A i \in DOMAIN events' : events'[i] # [done |-> "copied"]
        /\ IF events' = << >> THEN Shows'
           ELSE events'[Len(events')] = [progress |-> progress']
    <3>1. CASE Percent # progress
      <4>1. events' = events \o <<[progress |-> Percent]>>
        BY <1>3, <3>1 DEF Emit
      <4>2. QED
        BY <1>1, <2>1, <2>2, <4>1, EmitProgress
    <3>2. CASE Percent = progress
      <4>1. events' = events /\ progress' = progress
        BY <1>3, <3>2
      <4>2. \A i \in DOMAIN events : events[i] # [done |-> "copied"]
        BY <1>1, SignalKinds DEF Told, Waiting, Results
      <4>3. ~Told' /\ \A q \in Results : ~Reported(q)'
        BY <1>1, <4>1 DEF Told, Waiting, Reported
      <4>4. QED
        BY <4>1, <4>2, <4>3 DEF Types, LastOnly, Follows, Shows
    <3>3. QED
      BY <3>1, <3>2
  <2>4. Types'
    <3>1. copied' \in Nat /\ copied' <= source'.blocks
      BY <1>1, <2>2 DEF Types
    <3>2. QED
      BY <2>1, <2>2, <2>3, <3>1 DEF Types, Flags
  <2>5. Places'
    BY <1>1, <2>2, <2>3 DEF Types, Flags, Places
  <2>6. Truth'
    BY <2>2, <2>3 DEF Truth, Results
  <2>7. Follows'
    BY <1>1, <2>1, <2>2, <2>3 DEF Follows, Shows, Full
  <2>8. QED
    BY <2>3, <2>4, <2>5, <2>6, <2>7
<1>4. QED
  BY <1>2, <1>3

(* The window takes a signal: a result goes to the box, and there is none  *)
(* behind it; a percentage goes to the bar.                                *)
LEMMA DeliverFInv == FInv /\ Deliver => FInv'
<1> SUFFICES ASSUME FInv, Deliver PROVE FInv'
  OBVIOUS
<1> USE DEF FInv, Deliver, file
<1> DEFINE n == Len(events)
           h == Head(events)
<1>1. /\ events' \in Seq(Signals) /\ n \in Nat /\ n > 0 /\ Len(events') = n - 1
      /\ DOMAIN events' = 1..(n - 1) /\ DOMAIN events = 1..n
      /\ h = events[1] /\ h \in Signals
      /\ \A i \in 1..(n - 1) : events'[i] = events[i + 1]
  BY SignalTaken DEF Types
<1>2. box = "none"
  BY DEF Places
<1>3. LastOnly'
  BY <1>1 DEF LastOnly
<1>4. CASE IsDone(h)
  <2>1. n = 1 /\ events' = << >> /\ Waiting
    BY <1>1, <1>4 DEF LastOnly, Waiting
  <2>2. h.done \in Results /\ h = [done |-> h.done] /\ box' = h.done /\ bar' = bar
    BY <1>1, <1>4, SignalKinds DEF IsDone
  <2>3. box' \in Results /\ box' # "none" /\ events[1] = [done |-> box']
    BY <1>1, <2>2 DEF Results
  <2>4. \A q \in Results : Reported(q)' => q = box' /\ Reported(q)
    <3>1. ASSUME NEW q \in Results, Reported(q)' PROVE q = box'
      <4>1. 1..Len(events') = {}
        BY <1>1, <2>1
      <4>2. QED
        BY <3>1, <4>1 DEF Reported, Contains
    <3>2. 1 \in 1..n /\ Reported(box')
      BY <1>1, <2>3 DEF Reported, Contains
    <3>3. QED
      BY <3>1, <3>2
  <2>5. Types'
    BY <1>1, <2>2, <2>3 DEF Types, Flags
  <2>6. Places'
    BY <1>1, <2>1, <2>3 DEF Types, Flags, Places, Told
  <2>7. Truth'
    BY <2>4 DEF Truth, Results
  <2>8. Follows'
    <3>1. box' = "copied" => Shows'
      BY <1>1, <2>2, <2>3 DEF Follows, Shows
    <3>2. copier' = "idle"
      BY <2>1 DEF Places, Told
    <3>3. QED
      BY <1>1, <2>1, <2>4, <3>1, <3>2 DEF Follows, Shows, Full, Results
  <2>9. QED
    BY <1>3, <2>5, <2>6, <2>7, <2>8
<1>5. CASE ~IsDone(h)
  <2>1. h.progress \in Nat /\ h = [progress |-> h.progress] /\ bar' = Shown(h.progress) /\ box' = "none"
    BY <1>1, <1>2, <1>5, SignalKinds DEF IsDone
  <2>2. Waiting' <=> Waiting
    <3>1. Waiting' => Waiting
      BY <1>1 DEF Waiting
    <3>2. ASSUME NEW i \in 1..n, IsDone(events[i]) PROVE Waiting'
      <4>1. i # 1
        BY <1>1, <1>5, <3>2
      <4>2. i - 1 \in 1..(n - 1) /\ events'[i - 1] = events[i]
        BY <1>1, <4>1
      <4>3. QED
        BY <1>1, <3>2, <4>2 DEF Waiting
    <3>3. QED
      BY <1>1, <3>1, <3>2 DEF Waiting
  <2>3. \A q \in Results : Reported(q)' => Reported(q)
    BY <1>1, <2>1 DEF Reported, Contains, Results
  <2>4. Types'
    BY <1>1, <2>1 DEF Types, Flags, Shown
  <2>5. Places'
    BY <1>2, <2>1, <2>2 DEF Types, Flags, Places, Told
  <2>6. Truth'
    BY <2>3 DEF Truth, Results
  <2>7. Follows'
    <3>1. \A p \in Nat : h = [progress |-> p] => (p <= 100 => bar' = p)
      BY <2>1, SignalKinds DEF Shown
    <3>2. copier # "idle" => IF events' = << >> THEN Shows'
                             ELSE events'[Len(events')] = [progress |-> progress]
      <4>1. CASE n = 1
        BY <1>1, <3>1, <4>1 DEF Follows, Shows, Types
      <4>2. CASE n # 1
        BY <1>1, <4>2 DEF Follows, Shows, Types
      <4>3. QED
        BY <4>1, <4>2
    <3>3. ASSUME NEW i \in 1..(n - 1), events'[i] = [done |-> "copied"]
          PROVE  IF i = 1 THEN Shows' ELSE events'[i - 1] = [progress |-> progress]
      <4>1. events[i + 1] = [done |-> "copied"] /\ i + 1 \in 1..n /\ i + 1 # 1
        BY <1>1, <3>3
      <4>2. events[i] = [progress |-> progress]
        BY <1>1, <4>1 DEF Follows, Shows
      <4>3. QED
        BY <1>1, <3>1, <4>2 DEF Types, Shows
    <3>4. QED
      BY <1>1, <2>1, <2>3, <3>2, <3>3 DEF Follows, Shows, Full, Results
  <2>8. QED
    BY <1>3, <2>4, <2>5, <2>6, <2>7
<1>6. QED
  BY <1>4, <1>5

-----------------------------------------------------------------------------
(* The window before the first click satisfies the invariant. *)
LEMMA InitFInv == CopyInit => FInv
<1> SUFFICES ASSUME CopyInit PROVE FInv
  OBVIOUS
<1> USE CopyAssumption DEF CopyInit
<1>1. Types
  <2>1. asked \in 0..1 /\ copied \in Nat /\ copied <= source.blocks /\ runs \in 0..MaxRuns
    OBVIOUS
  <2>2. Flags
    BY DEF Flags
  <2>3. QED
    BY <2>1, <2>2 DEF Types
<1>2. ~Told /\ DOMAIN events = {}
  BY DEF Told, Waiting
<1>3. Places
  BY <1>2 DEF Places
<1>4. LastOnly
  BY <1>2 DEF LastOnly
<1>5. \A q \in Results : ~Reported(q)
  BY <1>1, <1>2, ReportedIsTold
<1>6. Truth /\ Follows
  BY <1>2, <1>5 DEF Truth, Follows, Shows, Full, Results
<1>7. QED
  BY <1>1, <1>3, <1>4, <1>6 DEF FInv

(* Every step keeps it. *)
LEMMA NextFInv == FInv /\ [CopyNext]_copyVars => FInv'
<1> SUFFICES ASSUME FInv, [CopyNext]_copyVars PROVE FInv'
  OBVIOUS
<1>1. CASE UNCHANGED copyVars
  BY <1>1 DEF copyVars, FInv, Types, Flags, Places, Told, Waiting, LastOnly, Truth, Follows, Shows,
              Full, Reported
<1>2. CASE ClickRun \/ ClickCancel \/ Close \/ Destroyed \/ Deliver \/ Dismiss
  BY <1>2, ClickRunFInv, ClickCancelFInv, CloseFInv, DestroyedFInv, DeliverFInv, DismissFInv
<1>3. CASE Worker
  BY <1>3, BeginFInv, CopyBlockFInv, WriteFailsFInv, LeaveLoopFInv, FinishFInv DEF Worker
<1>4. QED
  BY <1>1, <1>2, <1>3 DEF CopyNext

(* FInv holds in every behaviour of the window and its copier. *)
THEOREM CopierInvariance == CopySpec => []FInv
<1>1. CopyInit => FInv
  BY InitFInv
<1>2. FInv /\ [CopyNext]_copyVars => FInv'
  BY NextFInv
<1>3. QED
  BY <1>1, <1>2, PTL DEF CopySpec

(* The invariant gives the types as FileCopy states them. *)
LEMMA FInvTypes == FInv => CopyTypeOK
<1> SUFFICES ASSUME FInv PROVE CopyTypeOK
  OBVIOUS
<1>1. {running_, button, cancelled_, failed, wished} \subseteq BOOLEAN
  BY Zenon DEF FInv, Types, Flags
<1>2. copied \in 0..source.blocks
  BY CopyAssumption DEF FInv, Types
<1>3. QED
  BY <1>1, <1>2 DEF FInv, Types, CopyTypeOK, Signals

(* Between a click on Run and the dismissal of its result, copywidget.cpp  *)
(* and filecopier.cpp have exactly one copy between them, in one place;    *)
(* without a click there is none, and the window closes on none.           *)
THEOREM OneCopyCorrect == CopySpec => []OneCopy
<1>1. ASSUME FInv PROVE OneCopy
  <2> DEFINE at == {x \in {"asked", "made", "told"} :
                      \/ x = "asked" /\ asked > 0
                      \/ x = "made" /\ copier # "idle"
                      \/ x = "told" /\ \E r \in Results : Reported(r)}
  <2>1. Told <=> \E r \in Results : Reported(r)
    <3>1. (\E r \in Results : Reported(r)) => Told
      BY <1>1, ReportedIsTold DEF FInv
    <3>2. box # "none" => \E r \in Results : Reported(r)
      BY <1>1 DEF FInv, Types, Reported
    <3>3. Waiting => \E r \in Results : Reported(r)
      <4> SUFFICES ASSUME NEW i \in DOMAIN events, IsDone(events[i])
                   PROVE  \E r \in Results : Reported(r)
        BY DEF Waiting
      <4>1. events[i] \in Signals /\ i \in 1..Len(events)
        BY <1>1 DEF FInv, Types
      <4>2. events[i].done \in Results /\ events[i] = [done |-> events[i].done]
        BY <4>1, SignalKinds
      <4>3. QED
        BY <4>1, <4>2 DEF Reported, Contains
    <3>4. QED
      BY <3>1, <3>2, <3>3 DEF Told
  <2>2. /\ "asked" \in at <=> asked > 0
        /\ "made" \in at <=> copier # "idle"
        /\ "told" \in at <=> Told
        /\ at \subseteq {"asked", "made", "told"}
    BY <2>1
  <2> HIDE DEF at
  <2>3. IF running_ THEN \E x \in at : at = {x} ELSE at = {}
    BY <1>1, <2>2 DEF FInv, Places
  <2>4. CopyTypeOK
    BY <1>1, FInvTypes
  <2>5. QED
    BY <2>3, <2>4 DEF OneCopy, at
<1>2. QED
  BY <1>1, CopierInvariance, PTL

(* What the message box and the bar tell about a copy is true, whichever   *)
(* of the clicks and signals overtake each other.                          *)
THEOREM ResultTrueCorrect == CopySpec => []ResultTrue
<1>1. ASSUME FInv PROVE ResultTrue
  <2>1. box = "copied" /\ source.size = source.blocks /\ source.size > 0 => bar = 100
    BY <1>1 DEF FInv, Truth, Follows, Shows, Full, Reported
  <2>2. QED
    BY <1>1, <2>1 DEF FInv, Truth, LastOnly, IsDone, ResultTrue
<1>2. QED
  BY <1>1, CopierInvariance, PTL

-----------------------------------------------------------------------------
(* The tree: the inductive invariant. *)

In(x, f) == x \in Range(items[f])   \* x is in the list of folder f

(* Every entity is in one list, once; the lists are of folders that exist, *)
(* and of entities that exist and hang from the root.                      *)
Shape ==
  /\ \A f \in 0..MaxEntities : \A i, j \in 1..Len(items[f]) :
       items[f][i] = items[f][j] => i = j
  /\ \A f, g \in 0..MaxEntities, x \in Entity : In(x, f) /\ In(x, g) => f = g
  /\ \A f \in 0..MaxEntities, x \in Entity : In(x, f) => f \in Folder /\ x \in Live
  /\ \A S \in SUBSET (0..MaxEntities) : Root \in S /\ Closed(S) => Live \subseteq S
  /\ \A x \in Live : x <= created
  /\ \A x \in Entity \ Live : parent[x] = Null

(* The pointers, for any list that holds the entity. *)
Hanging ==
  /\ \A f \in 0..MaxEntities, x \in Live :
       In(x, f) => parent[x] = f \/ (nested /\ parent[x] = Null)
  /\ crashed => nested

(* What is typed goes to a note that exists; a note with text is shown. *)
Edited ==
  /\ typed \subseteq Live /\ \A x \in typed \ stale : text[x] \/ (x = current /\ editor)
  /\ current # Null => kind[current] = "note" /\ (text[current] => editor)

(* With one row selected, the names are right once it has gone. *)
Aimed ==
  pc = "removing" /\ goal.single =>
    \/ selected = {} /\ goal.names = Names(Live)
    \/ \E x \in Live : selected = {x} /\ goal.names = Names(Live \ Subtree(x))

NotesInv == TypeOK /\ Shape /\ Hanging /\ Edited /\ Aimed

-----------------------------------------------------------------------------
(* Subtrees. *)

LEMMA MaxType == /\ MaxEntities \in Nat /\ MaxEntities > 0 /\ Null = MaxEntities + 1
                 /\ Entity \subseteq 0..MaxEntities /\ Root \in 0..MaxEntities
                 /\ Root \notin Entity /\ Null \notin 0..MaxEntities
                 /\ 0..MaxEntities = Entity \cup {Root}
  BY EntitiesAssumption DEF Null, Entity, Root

(* A subtree is the least closed set with its root. *)
Least ==
  \A x \in 0..MaxEntities :
    /\ Subtree(x) \subseteq 0..MaxEntities /\ x \in Subtree(x) /\ Closed(Subtree(x))
    /\ \A S \in SUBSET (0..MaxEntities) : x \in S /\ Closed(S) => Subtree(x) \subseteq S

LEMMA SubtreeLeast == TypeOK => Least
<1> SUFFICES ASSUME TypeOK, NEW x \in 0..MaxEntities
             PROVE  /\ Subtree(x) \subseteq 0..MaxEntities /\ x \in Subtree(x)
                    /\ Closed(Subtree(x))
                    /\ \A S \in SUBSET (0..MaxEntities) :
                         x \in S /\ Closed(S) => Subtree(x) \subseteq S
  BY DEF Least
<1>1. /\ Subtree(x) \subseteq 0..MaxEntities /\ x \in Subtree(x)
      /\ \A S \in SUBSET (0..MaxEntities) : x \in S /\ Closed(S) => Subtree(x) \subseteq S
  BY Zenon DEF Subtree
<1>2. ASSUME NEW f \in Subtree(x), NEW y \in Range(items[f])
      PROVE  y \in Subtree(x)
  <2>1. f \in 0..MaxEntities
    BY <1>1
  <2>2. y \in 0..MaxEntities
    <3>1. items[f] \in Seq(Entity)
      BY <2>1 DEF TypeOK
    <3>2. y \in Entity
      BY <3>1 DEF Range
    <3>3. QED
      BY <3>2, MaxType
  <2>3. ASSUME NEW S \in SUBSET (0..MaxEntities), x \in S, Closed(S) PROVE y \in S
    <3>1. f \in S
      BY <1>1, <2>3
    <3>2. QED
      BY <2>3, <3>1 DEF Closed
  <2>4. QED
    BY <2>2, <2>3, Zenon DEF Subtree
<1>3. QED
  BY <1>1, <1>2 DEF Closed

(* Every entity has one owner. *)
Owned ==
  \A x \in Live : /\ Owner(x) \in Folder /\ In(x, Owner(x))
                  /\ \A f \in 0..MaxEntities : In(x, f) => f = Owner(x)

LEMMA FolderType == /\ Folder \subseteq 0..MaxEntities /\ Live \subseteq Entity
                    /\ Root \in Folder /\ Folder \ {Root} \subseteq Live
  BY MaxType DEF Folder, Live

LEMMA OneOwned == TypeOK /\ Shape => Owned
<1> SUFFICES ASSUME TypeOK, Shape, NEW x \in Live
             PROVE  /\ Owner(x) \in Folder /\ In(x, Owner(x))
                    /\ \A f \in 0..MaxEntities : In(x, f) => f = Owner(x)
  BY DEF Owned
<1>1. x \in Entity /\ x \in 0..MaxEntities /\ x # Root
  BY FolderType, MaxType
<1>2. \E f \in 0..MaxEntities : In(x, f)
  <2>1. SUFFICES ASSUME \A f \in 0..MaxEntities : ~In(x, f) PROVE FALSE
    OBVIOUS
  <2> DEFINE S == (0..MaxEntities) \ {x}
  <2>2. Closed(S)
    <3>1. ASSUME NEW f \in S, NEW y \in Range(items[f]) PROVE y \in S
      <4>1. items[f] \in Seq(Entity)
        BY DEF TypeOK
      <4>2. y \in Entity
        BY <4>1 DEF Range
      <4>3. QED
        BY <2>1, <4>2, MaxType DEF In
    <3>2. QED
      BY <3>1 DEF Closed
  <2>3. Root \in S
    BY <1>1, MaxType
  <2>4. QED
    BY <2>2, <2>3 DEF Shape
<1>3. PICK f \in 0..MaxEntities : In(x, f)
  BY <1>2
<1>4. f \in Folder
  BY <1>1, <1>3 DEF Shape
<1>5. Owner(x) \in Folder /\ In(x, Owner(x))
  BY <1>3, <1>4 DEF Owner, In
<1>6. QED
  BY <1>1, <1>5, FolderType DEF Shape

(* No entity is below itself. *)
Apart ==
  \A x \in Live : /\ Subtree(x) \subseteq Live /\ Owner(x) \notin Subtree(x)
                  /\ \A y \in Subtree(x) \ {x} : Owner(y) \in Subtree(x)

LEMMA NoCycle == TypeOK /\ Shape => Apart
<1> SUFFICES ASSUME TypeOK, Shape, NEW x \in Live
             PROVE  /\ Subtree(x) \subseteq Live /\ Owner(x) \notin Subtree(x)
                    /\ \A y \in Subtree(x) \ {x} : Owner(y) \in Subtree(x)
  BY DEF Apart
<1>1. x \in Entity /\ x \in 0..MaxEntities /\ x # Root
  BY FolderType, MaxType
<1>2. Least /\ Owned
  BY SubtreeLeast, OneOwned
<1>3. /\ Subtree(x) \subseteq 0..MaxEntities /\ x \in Subtree(x)
      /\ \A f \in Subtree(x), y \in Entity : In(y, f) => y \in Subtree(x)
      /\ \A S \in SUBSET (0..MaxEntities) : x \in S /\ Closed(S) => Subtree(x) \subseteq S
  BY <1>1, <1>2 DEF Least, Closed, In
<1>4. ASSUME NEW f \in 0..MaxEntities, NEW y \in Range(items[f])
      PROVE  y \in Entity /\ y \in Live /\ In(y, f) /\ f = Owner(y)
  <2>1. items[f] \in Seq(Entity)
    BY DEF TypeOK
  <2>2. y \in Entity /\ In(y, f)
    BY <2>1 DEF Range, In
  <2>3. QED
    BY <1>2, <2>2 DEF Shape, Owned
<1>5. Subtree(x) \subseteq Live
  <2>1. Live \in SUBSET (0..MaxEntities)
    BY FolderType, MaxType
  <2>2. Closed(Live)
    BY <1>4, <2>1 DEF Closed
  <2>3. QED
    BY <1>3, <2>1, <2>2
<1>6. ASSUME NEW y \in Subtree(x), y # x, Owner(y) \notin Subtree(x) PROVE FALSE
  <2> DEFINE S == Subtree(x) \ {y}
  <2>1. Closed(S)
    <3>1. ASSUME NEW f \in S, NEW z \in Range(items[f]) PROVE z \in S
      <4>1. z \in Entity /\ In(z, f) /\ f = Owner(z)
        BY <1>3, <1>4
      <4>2. QED
        BY <1>3, <1>6, <4>1
    <3>2. QED
      BY <3>1 DEF Closed
  <2>2. x \in S /\ S \in SUBSET (0..MaxEntities)
    BY <1>3, <1>6
  <2>3. Subtree(x) \subseteq S
    BY <1>3, <2>1, <2>2
  <2>4. QED
    BY <2>3
<1>7. ASSUME Owner(x) \in Subtree(x) PROVE FALSE
  <2> DEFINE S == (0..MaxEntities) \ Subtree(x)
  <2>1. Closed(S)
    <3>1. ASSUME NEW f \in S, NEW z \in Range(items[f]) PROVE z \in S
      <4>1. z \in Entity /\ In(z, f) /\ f = Owner(z)
        BY <1>4
      <4>2. QED
        BY <1>6, <1>7, <4>1, MaxType
    <3>2. QED
      BY <3>1 DEF Closed
  <2>2. Root \in S
    BY <1>5, FolderType, MaxType
  <2>3. x \in S
    BY <2>1, <2>2 DEF Shape
  <2>4. QED
    BY <1>3, <2>3
<1>8. QED
  BY <1>5, <1>6, <1>7

(* An entity that exists is not new, and parent() fails only after a       *)
(* folder with items in it was dropped.                                    *)
LEMMA OnlyNested ==
  ASSUME TypeOK, Shape, Hanging, NEW x \in Live, ParentFails(x)
  PROVE  nested
<1>1. Owned /\ x \in Entity
  BY OneOwned, FolderType
<1>2. PICK f : f = Owner(x) /\ f \in Folder /\ f \in 0..MaxEntities /\ In(x, f)
  BY <1>1, FolderType DEF Owned
<1>3. parent[x] = f \/ (nested /\ parent[x] = Null)
  BY <1>2 DEF Hanging
<1>4. SUFFICES ASSUME parent[x] = f, f # Root, parent[f] = Null PROVE nested
  BY <1>2, <1>3, MaxType DEF ParentFails
<1>5. f \in Live /\ f \in Entity
  BY <1>2, <1>4, FolderType
<1>6. PICK g : g \in 0..MaxEntities /\ In(f, g)
  BY <1>1, <1>5, FolderType DEF Owned
<1>7. QED
  BY <1>4, <1>5, <1>6, MaxType DEF Hanging

(* An action that leaves the tree alone. *)
LEMMA SameTree ==
  ASSUME Shape, UNCHANGED tree
  PROVE  /\ Shape' /\ (\A x : Owner(x)' = Owner(x)) /\ (\A x : Subtree(x)' = Subtree(x))
         /\ Live' = Live /\ Folder' = Folder /\ (\A xs : Names(xs)' = Names(xs))
<1>1. kind' = kind /\ items' = items /\ parent' = parent /\ created' = created /\ name' = name
  BY DEF tree
<1>2. Live' = Live /\ Folder' = Folder
  BY <1>1 DEF Live, Folder
<1>3. \A S : Closed(S)' = Closed(S)
  BY <1>1 DEF Closed
<1>4. \A x, f : In(x, f)' = In(x, f)
  BY <1>1 DEF In
<1>5. \A x : Subtree(x)' = Subtree(x)
  BY <1>1 DEF Subtree, Closed
<1>6. \A x : Owner(x)' = Owner(x)
  BY <1>1, <1>2 DEF Owner
<1>7. \A xs : Names(xs)' = Names(xs)
  BY <1>1 DEF Names
<1>8. Shape'
  BY <1>1, <1>2, <1>3, <1>4 DEF Shape
<1>9. QED
  BY <1>2, <1>5, <1>6, <1>7, <1>8

(* What the lists hold, as a relation. *)
LEMMA InType ==
  ASSUME TypeOK, NEW f \in 0..MaxEntities
  PROVE  /\ items[f] \in Seq(Entity) /\ Len(items[f]) \in Nat
         /\ DOMAIN items[f] = 1..Len(items[f])
         /\ \A x : In(x, f) <=> \E i \in 1..Len(items[f]) : items[f][i] = x
         /\ \A x : In(x, f) => x \in Entity
<1>1. items[f] \in Seq(Entity)
  BY DEF TypeOK
<1>2. QED
  BY <1>1 DEF In, Range

ClosedMeans ==
  \A S \in SUBSET (0..MaxEntities) :
    Closed(S) <=> \A f \in S, x \in Entity : In(x, f) => x \in S

LEMMA ClosedIn == TypeOK => ClosedMeans
<1> SUFFICES ASSUME TypeOK, NEW S \in SUBSET (0..MaxEntities)
             PROVE  Closed(S) <=> \A f \in S, x \in Entity : In(x, f) => x \in S
  BY DEF ClosedMeans
<1>1. \A f \in S : Range(items[f]) \subseteq Entity
  BY InType DEF In
<1>2. QED
  BY <1>1 DEF Closed, In

-----------------------------------------------------------------------------
(* Insert. *)

(* The end of the list of f takes the new entity. *)
LEMMA Inserted ==
  ASSUME TypeOK, Shape, NEW k \in {"note", "folder"}, NEW f \in Folder, New(k, f),
         created < MaxEntities
  PROVE  /\ created' = created + 1 /\ created' \in Entity /\ created' \notin Live
         /\ kind' = [kind EXCEPT ![created'] = k] /\ parent' = [parent EXCEPT ![created'] = f]
         /\ items' \in [0..MaxEntities -> Seq(Entity)]
         /\ \A g \in 0..MaxEntities : \A i, j \in 1..Len(items[g]') :
              items[g]'[i] = items[g]'[j] => i = j
         /\ \A g \in 0..MaxEntities, x \in Entity :
              In(x, g)' <=> In(x, g) \/ (g = f /\ x = created')
<1>1. /\ created' = created + 1 /\ created' \in Entity /\ f \in 0..MaxEntities
      /\ items' = [items EXCEPT ![f] = Append(items[f], created')]
      /\ kind' = [kind EXCEPT ![created'] = k] /\ parent' = [parent EXCEPT ![created'] = f]
  <2>1. created' = created + 1 /\ created' \in Entity
    BY MaxType DEF New, TypeOK, Entity
  <2>2. QED
    BY <2>1, FolderType DEF New, ParentGiven
<1>2. created' \notin Live
  BY <1>1 DEF Shape, TypeOK
<1>3. PICK q : q = items[f] /\ q \in Seq(Entity) /\ Len(q) \in Nat
  BY <1>1, InType
<1>4. PICK e : e = created' /\ e \in Entity
  BY <1>1
<1>5. \A i \in 1..Len(q) : q[i] # e
  BY <1>1, <1>2, <1>3, <1>4, InType DEF Shape
<1>6. PICK r : r = Append(q, e)
  OBVIOUS
<1>7. /\ r \in Seq(Entity) /\ Len(r) = Len(q) + 1 /\ r[Len(q) + 1] = e
      /\ \A i \in 1..Len(q) : r[i] = q[i]
  BY <1>3, <1>4, <1>6
<1>8. items' = [items EXCEPT ![f] = r] /\ items'[f] = r
      /\ \A g \in 0..MaxEntities : g # f => items'[g] = items[g]
  BY <1>1, <1>3, <1>4, <1>6 DEF TypeOK
<1>9. items' \in [0..MaxEntities -> Seq(Entity)]
  BY <1>7, <1>8 DEF TypeOK
<1>10. ASSUME NEW g \in 0..MaxEntities, NEW i \in 1..Len(items[g]'), NEW j \in 1..Len(items[g]'),
              items[g]'[i] = items[g]'[j]
       PROVE  i = j
  <2>1. CASE g = f
    <3>1. \A h, l \in 1..Len(q) : q[h] = q[l] => h = l
      BY <1>1, <1>3 DEF Shape
    <3>2. i \in 1..Len(q) + 1 /\ j \in 1..Len(q) + 1 /\ r[i] = r[j]
      BY <1>7, <1>8, <1>10, <2>1
    <3>3. CASE i \in 1..Len(q) /\ j \in 1..Len(q)
      <4>1. q[i] = q[j]
        BY <1>7, <3>2, <3>3
      <4>2. QED
        BY <3>1, <3>3, <4>1
    <3>4. CASE i \in 1..Len(q) /\ j = Len(q) + 1
      <4>1. q[i] = e
        BY <1>7, <3>2, <3>4
      <4>2. QED
        BY <1>5, <3>4, <4>1
    <3>5. CASE i = Len(q) + 1 /\ j \in 1..Len(q)
      <4>1. q[j] = e
        BY <1>7, <3>2, <3>5
      <4>2. QED
        BY <1>5, <3>5, <4>1
    <3>6. QED
      BY <1>3, <3>2, <3>3, <3>4, <3>5
  <2>2. CASE g # f
    BY <1>8, <1>10, <2>2 DEF Shape
  <2>3. QED
    BY <2>1, <2>2
<1>11. ASSUME NEW g \in 0..MaxEntities, NEW x \in Entity
       PROVE  In(x, g)' <=> In(x, g) \/ (g = f /\ x = created')
  <2>1. CASE g = f
    <3>1. In(x, f) <=> \E i \in 1..Len(q) : q[i] = x
      BY <1>1, <1>3, InType
    <3>2. In(x, f)' <=> \E i \in 1..Len(q) + 1 : r[i] = x
      BY <1>7, <1>8 DEF In, Range
    <3>3. (\E i \in 1..Len(q) + 1 : r[i] = x) <=> (\E i \in 1..Len(q) : q[i] = x) \/ x = e
      <4>1. ASSUME NEW i \in 1..Len(q) + 1, r[i] = x, x # e PROVE i \in 1..Len(q) /\ q[i] = x
        BY <1>3, <1>7, <4>1
      <4>2. ASSUME NEW i \in 1..Len(q), q[i] = x PROVE i \in 1..Len(q) + 1 /\ r[i] = x
        BY <1>3, <1>7, <4>2
      <4>3. Len(q) + 1 \in 1..Len(q) + 1
        BY <1>3
      <4>4. QED
        BY <1>7, <4>1, <4>2, <4>3
    <3>4. QED
      BY <1>4, <2>1, <3>1, <3>2, <3>3
  <2>2. CASE g # f
    BY <1>8, <2>2 DEF In
  <2>3. QED
    BY <2>1, <2>2
<1>12. QED
  BY <1>1, <1>2, <1>9, <1>10, <1>11

(* The invariants of the tree after an insertion. *)
LEMMA InsertedShape ==
  ASSUME TypeOK, Shape, NEW k \in {"note", "folder"}, NEW f \in Folder, New(k, f),
         created < MaxEntities, TypeOK'
  PROVE  Shape' /\ Live' = Live \cup {created'} /\ created' \notin Live /\ Folder \subseteq Folder'
<1>1. /\ created' = created + 1 /\ created' \in Entity /\ created' \notin Live
      /\ kind' = [kind EXCEPT ![created'] = k] /\ parent' = [parent EXCEPT ![created'] = f]
      /\ \A g \in 0..MaxEntities : \A i, j \in 1..Len(items[g]') :
           items[g]'[i] = items[g]'[j] => i = j
      /\ \A g \in 0..MaxEntities, x \in Entity :
           In(x, g)' <=> In(x, g) \/ (g = f /\ x = created')
  BY Inserted
<1>2. Live' = Live \cup {created'} /\ Folder \subseteq Folder'
  BY <1>1 DEF Live, Folder, TypeOK
<1>3. \A g, h \in 0..MaxEntities, x \in Entity : In(x, g)' /\ In(x, h)' => g = h
  BY <1>1 DEF Shape
<1>4. \A g \in 0..MaxEntities, x \in Entity : In(x, g)' => g \in Folder' /\ x \in Live'
  BY <1>1, <1>2 DEF Shape
<1>5. ASSUME NEW S \in SUBSET (0..MaxEntities), Root \in S, Closed(S)'
      PROVE  Live' \subseteq S
  <2>1. \A g \in S, x \in Entity : In(x, g)' => x \in S
    <3>1. ClosedMeans'
      BY ClosedIn, PTL
    <3>2. QED
      BY <1>5, <3>1, MaxType DEF ClosedMeans
  <2> DEFINE R == S \ {created'}
  <2>2. R \in SUBSET (0..MaxEntities) /\ Root \in R
    BY <1>1, <1>5, MaxType
  <2>3. \A g \in R, x \in Entity : In(x, g) => x \in R
    BY <1>1, <2>1 DEF Shape
  <2> HIDE DEF R
  <2>4. Closed(R)
    BY <2>2, <2>3, ClosedIn DEF ClosedMeans
  <2>5. Live \subseteq R
    BY <2>2, <2>4 DEF Shape
  <2>6. f \in S
    BY <1>5, <2>5, FolderType DEF R
  <2>7. created' \in S
    BY <1>1, <2>1, <2>6
  <2>8. QED
    BY <1>2, <2>5, <2>7 DEF R
<1>6. \A x \in Live' : x <= created'
  BY <1>1, <1>2, FolderType DEF Shape, TypeOK, Entity
<1>7. \A x \in Entity : x \notin Live' => parent[x]' = Null
  BY <1>1, <1>2, FolderType DEF Shape, TypeOK
<1>8. QED
  BY <1>1, <1>2, <1>3, <1>4, <1>5, <1>6, <1>7 DEF Shape


-----------------------------------------------------------------------------
(* Removing rows. *)

LEMMA RemoveAtFacts ==
  ASSUME NEW T, NEW q \in Seq(T), NEW i \in 1..Len(q)
  PROVE  /\ RemoveAt(q, i) \in Seq(T) /\ Len(RemoveAt(q, i)) = Len(q) - 1
         /\ \A j \in 1..Len(q) - 1 :
              RemoveAt(q, i)[j] = IF j < i THEN q[j] ELSE q[j + 1]
<1>1. PICK a, b : a = SubSeq(q, 1, i - 1) /\ b = SubSeq(q, i + 1, Len(q))
  OBVIOUS
<1>2. a \in Seq(T) /\ Len(a) = i - 1 /\ \A j \in 1..i - 1 : a[j] = q[j]
  BY <1>1
<1>3. b \in Seq(T) /\ Len(b) = Len(q) - i /\ \A j \in 1..Len(q) - i : b[j] = q[i + j]
  BY <1>1
<1>4. RemoveAt(q, i) = a \o b
  BY <1>1 DEF RemoveAt
<1>5. a \o b \in Seq(T) /\ Len(a \o b) = Len(q) - 1
  <2>1. a \in Seq(T) /\ b \in Seq(T)
    BY <1>2, <1>3
  <2>2. a \o b \in Seq(T) /\ Len(a \o b) = Len(a) + Len(b)
    BY <2>1
  <2>3. QED
    BY <1>2, <1>3, <2>2
<1>6. ASSUME NEW j \in 1..Len(q) - 1 PROVE (a \o b)[j] = IF j < i THEN q[j] ELSE q[j + 1]
  <2>1. CASE j < i
    BY <1>2, <1>3, <2>1
  <2>2. CASE ~(j < i)
    <3>1. j - (i - 1) \in 1..Len(q) - i /\ i + (j - (i - 1)) = j + 1
      BY <2>2
    <3>2. (a \o b)[j] = b[j - (i - 1)]
      BY <1>2, <1>3, <2>2
    <3>3. QED
      BY <1>3, <2>2, <3>1, <3>2
  <2>3. QED
    BY <2>1, <2>2
<1>7. QED
  BY <1>4, <1>5, <1>6

(* The row goes, and with it the lists of all that was below it.  What Qt  *)
(* selects in its place is not below it.                                   *)
LEMMA Taken ==
  ASSUME TypeOK, Shape, NEW x \in selected, RemoveRow(x)
  PROVE  /\ items' \in [0..MaxEntities -> Seq(Entity)]
         /\ \A g \in 0..MaxEntities : \A i, j \in 1..Len(items[g]') :
              items[g]'[i] = items[g]'[j] => i = j
         /\ \A g \in 0..MaxEntities, y \in Entity :
              In(y, g)' <=> In(y, g) /\ g \notin Subtree(x) /\ y # x
         /\ Shifted(Owner(x), Row(x)) \subseteq Live \ Subtree(x)
         /\ selected = {x} => Shifted(Owner(x), Row(x)) = {}
<1>1. x \in Live /\ Owned /\ Apart /\ Least /\ x \in Entity
  BY OneOwned, NoCycle, SubtreeLeast, FolderType DEF TypeOK
<1>2. PICK f : f = Owner(x) /\ f \in 0..MaxEntities /\ In(x, f) /\ f \notin Subtree(x)
  BY <1>1, FolderType DEF Owned, Apart
<1>3. PICK q : q = items[f] /\ q \in Seq(Entity) /\ Len(q) \in Nat /\ DOMAIN q = 1..Len(q)
  BY <1>2, InType
<1>4. \E i \in 1..Len(q) : q[i] = x
  BY <1>2, <1>3, InType
<1>5. PICK i : i = Row(x) /\ i \in 1..Len(q) /\ q[i] = x
  BY <1>2, <1>3, <1>4 DEF Row
<1>6. \A j, l \in 1..Len(q) : q[j] = q[l] => j = l
  BY <1>2, <1>3 DEF Shape
<1>7. PICK r : r = RemoveAt(q, i)
  OBVIOUS
<1>8. /\ r \in Seq(Entity) /\ Len(r) = Len(q) - 1
      /\ \A j \in 1..Len(q) - 1 : r[j] = IF j < i THEN q[j] ELSE q[j + 1]
  BY <1>3, <1>5, <1>7, RemoveAtFacts
<1>9. items' = [y \in 0..MaxEntities |->
                 IF y \in Subtree(x) THEN << >> ELSE IF y = f THEN r ELSE items[y]]
  BY <1>2, <1>3, <1>5, <1>7, Zenon DEF RemoveRow, Freed
<1>10. /\ items'[f] = r
       /\ \A g \in 0..MaxEntities : /\ g \in Subtree(x) => items'[g] = << >>
                                    /\ g \notin Subtree(x) /\ g # f => items'[g] = items[g]
  BY <1>2, <1>9
<1>11. items' \in [0..MaxEntities -> Seq(Entity)]
  BY <1>8, <1>9, InType
<1>12. ASSUME NEW g \in 0..MaxEntities, NEW j \in 1..Len(items[g]'), NEW l \in 1..Len(items[g]'),
              items[g]'[j] = items[g]'[l]
       PROVE  j = l
  <2>1. CASE g \in Subtree(x)
    BY <1>10, <1>12, <2>1
  <2>2. CASE g = f
    <3>1. j \in 1..Len(q) - 1 /\ l \in 1..Len(q) - 1 /\ r[j] = r[l]
      BY <1>8, <1>10, <1>12, <2>2
    <3>2. /\ j \in 1..Len(q) /\ j + 1 \in 1..Len(q) /\ l \in 1..Len(q) /\ l + 1 \in 1..Len(q)
          /\ j \in Nat /\ l \in Nat /\ i \in Nat
      BY <1>3, <1>5, <3>1
    <3>3. PICK a, b \in 1..Len(q) : /\ a = (IF j < i THEN j ELSE j + 1) /\ r[j] = q[a]
                                    /\ b = (IF l < i THEN l ELSE l + 1) /\ r[l] = q[b]
      BY <1>8, <3>1, <3>2, Zenon
    <3>4. a = b
      BY <1>6, <3>1, <3>3
    <3>5. QED
      BY <3>2, <3>3, <3>4
  <2>3. CASE g \notin Subtree(x) /\ g # f
    BY <1>10, <1>12, <2>3 DEF Shape
  <2>4. QED
    BY <2>1, <2>2, <2>3
<1>13. ASSUME NEW g \in 0..MaxEntities, NEW y \in Entity
       PROVE  In(y, g)' <=> In(y, g) /\ g \notin Subtree(x) /\ y # x
  <2>1. CASE g \in Subtree(x)
    BY <1>10, <2>1 DEF In, Range
  <2>2. CASE g = f
    <3>1. In(y, f) <=> \E j \in 1..Len(q) : q[j] = y
      BY <1>2, <1>3, InType
    <3>2. In(y, f)' <=> \E j \in 1..Len(q) - 1 : r[j] = y
      BY <1>8, <1>10 DEF In, Range
    <3>3. ASSUME NEW j \in 1..Len(q) - 1
          PROVE  r[j] # x /\ \E l \in 1..Len(q) : q[l] = r[j]
      <4>1. j \in 1..Len(q) /\ j + 1 \in 1..Len(q) /\ j \in Nat /\ i \in Nat
        BY <1>3, <1>5
      <4>2. PICK a \in 1..Len(q) : a = (IF j < i THEN j ELSE j + 1) /\ r[j] = q[a]
        BY <1>8, <4>1, Zenon
      <4>3. a # i
        BY <4>1, <4>2
      <4>4. QED
        BY <1>5, <1>6, <4>2, <4>3
    <3>4. ASSUME NEW l \in 1..Len(q), q[l] # x
          PROVE  \E j \in 1..Len(q) - 1 : r[j] = q[l]
      <4>1. l \in Nat /\ i \in Nat /\ l # i
        BY <1>3, <1>5, <3>4
      <4>2. CASE l < i
        <5>1. l \in 1..Len(q) - 1
          BY <1>3, <1>5, <4>1, <4>2
        <5>2. QED
          BY <1>8, <4>2, <5>1
      <4>3. CASE ~(l < i)
        <5>1. l - 1 \in 1..Len(q) - 1 /\ ~(l - 1 < i) /\ (l - 1) + 1 = l
          BY <1>3, <1>5, <4>1, <4>3
        <5>2. QED
          BY <1>8, <5>1
      <4>4. QED
        BY <4>2, <4>3
    <3>5. QED
      BY <1>2, <2>2, <3>1, <3>2, <3>3, <3>4
  <2>3. CASE g \notin Subtree(x) /\ g # f
    <3>1. ~In(x, g)
      BY <1>1, <1>2, <2>3 DEF Owned
    <3>2. QED
      BY <1>10, <2>3, <3>1 DEF In
  <2>4. QED
    BY <1>2, <2>1, <2>2, <2>3
<1>14. ASSUME NEW y \in Shifted(Owner(x), Row(x))
       PROVE  y \in Live \ Subtree(x) /\ \E z \in selected : z # x
  <2>1. PICK j \in 1..Len(q) : j > i /\ j + 2 <= Len(q) /\ q[j] \in selected /\ y = q[j + 2]
    BY <1>2, <1>3, <1>5 DEF Shifted
  <2>2. j + 2 \in 1..Len(q) /\ j + 2 # i /\ j # i
    BY <1>3, <1>5, <2>1
  <2>3. y # x /\ q[j] # x
    BY <1>5, <1>6, <2>1, <2>2
  <2>4. In(y, f) /\ y \in Entity
    BY <1>2, <1>3, <2>1, <2>2, InType
  <2>5. y \in Live /\ Owner(y) = f
    BY <1>1, <1>2, <2>4 DEF Shape, Owned
  <2>6. y \notin Subtree(x)
    BY <1>1, <1>2, <2>3, <2>5 DEF Apart
  <2>7. QED
    BY <2>1, <2>3, <2>5, <2>6
<1>15. QED
  BY <1>11, <1>12, <1>13, <1>14

(* The invariants of the tree after the removal of a row. *)
LEMMA TakenShape ==
  ASSUME TypeOK, Shape, NEW x \in selected, RemoveRow(x), TypeOK'
  PROVE  Shape' /\ Live' = Live \ Subtree(x)
<1>1. /\ \A g \in 0..MaxEntities : \A i, j \in 1..Len(items[g]') :
           items[g]'[i] = items[g]'[j] => i = j
      /\ \A g \in 0..MaxEntities, y \in Entity :
           In(y, g)' <=> In(y, g) /\ g \notin Subtree(x) /\ y # x
  BY Taken
<1>2. /\ x \in Live /\ Owned /\ Apart /\ Least /\ x \in Entity
      /\ Subtree(x) \subseteq Live /\ x \in Subtree(x)
      /\ \A f \in Subtree(x), y \in Entity : In(y, f) => y \in Subtree(x)
  <2>1. x \in Live /\ Owned /\ Apart /\ Least /\ x \in Entity /\ x \in 0..MaxEntities
    BY OneOwned, NoCycle, SubtreeLeast, FolderType, MaxType DEF TypeOK
  <2>2. QED
    BY <2>1 DEF Apart, Least, Closed, In
<1>3. /\ kind' = [y \in Entity |-> IF y \in Subtree(x) THEN "none" ELSE kind[y]]
      /\ parent' = [y \in Entity |-> IF y \in Subtree(x) THEN Null ELSE parent[y]]
      /\ created' = created
  BY Zenon DEF RemoveRow, Freed
<1>4. Live' = Live \ Subtree(x) /\ Folder' = Folder \ Subtree(x)
  BY <1>2, <1>3, FolderType, MaxType DEF Live, Folder
<1>5. \A g, h \in 0..MaxEntities, y \in Entity : In(y, g)' /\ In(y, h)' => g = h
  BY <1>1 DEF Shape
<1>6. ASSUME NEW g \in 0..MaxEntities, NEW y \in Entity, In(y, g)'
      PROVE  g \in Folder' /\ y \in Live'
  <2>1. In(y, g) /\ g \notin Subtree(x) /\ y # x /\ g \in Folder /\ y \in Live
    BY <1>1, <1>6 DEF Shape
  <2>2. y \notin Subtree(x)
    BY <1>2, <2>1 DEF Owned, Apart
  <2>3. QED
    BY <1>4, <2>1, <2>2
<1>7. ASSUME NEW S \in SUBSET (0..MaxEntities), Root \in S, Closed(S)'
      PROVE  Live' \subseteq S
  <2>1. \A g \in S, y \in Entity : In(y, g)' => y \in S
    <3>1. ClosedMeans'
      BY ClosedIn, PTL
    <3>2. QED
      BY <1>7, <3>1, MaxType DEF ClosedMeans
  <2> DEFINE R == S \cup Subtree(x)
  <2>2. R \in SUBSET (0..MaxEntities) /\ Root \in R
    BY <1>2, <1>7, FolderType, MaxType
  <2>3. \A g \in R, y \in Entity : In(y, g) => y \in R
    BY <1>1, <1>2, <2>1, <2>2
  <2> HIDE DEF R
  <2>4. Closed(R)
    BY <2>2, <2>3, ClosedIn DEF ClosedMeans
  <2>5. Live \subseteq R
    BY <2>2, <2>4 DEF Shape
  <2>6. QED
    BY <1>4, <2>5 DEF R
<1>8. \A y \in Live' : y <= created'
  BY <1>3, <1>4 DEF Shape
<1>9. \A y \in Entity : y \notin Live' => parent[y]' = Null
  BY <1>3, <1>4 DEF Shape
<1>10. QED
  BY <1>1, <1>4, <1>5, <1>6, <1>7, <1>8, <1>9 DEF Shape
-----------------------------------------------------------------------------
(* A non-empty set of numbers in an interval has a least one. *)
LEMMA LeastExists ==
  ASSUME NEW m \in Nat, NEW n \in Nat, NEW T \in SUBSET (m..n), T # {}
  PROVE  \E i \in T : \A j \in T : i <= j
<1> DEFINE Before(k) == {j \in T : j <= k}
           U == {Before(k) : k \in T}
<1>1. IsFiniteSet(T)
  <2>1. IsFiniteSet(m..n)
    BY FS_Interval
  <2>2. QED
    BY <2>1, FS_Subset
<1>2. U # {} /\ U \subseteq FiniteSubsetsOf(T)
  <2>1. ASSUME NEW k \in T PROVE Before(k) \in SUBSET T /\ IsFiniteSet(Before(k))
    <3>1. Before(k) \in SUBSET T
      OBVIOUS
    <3>2. QED
      BY <1>1, <3>1, FS_Subset
  <2>2. QED
    BY <2>1 DEF FiniteSubsetsOf
<1>3. PICK V \in U : \A W \in U : ~(<<W, V>> \in StrictSubsetOrdering(T))
  BY <1>2, WFMin, FS_StrictSubsetOrderingWellFounded
<1>4. PICK k \in T : V = Before(k)
  OBVIOUS
<1>5. SUFFICES ASSUME NEW j \in T, ~(k <= j) PROVE FALSE
  BY <1>4
<1>6. Before(j) \subseteq Before(k) /\ k \in Before(k) /\ k \notin Before(j)
  <2>1. j <= k /\ \A i \in T : i <= j => i <= k
    BY <1>5
  <2>2. Before(j) \subseteq Before(k)
    BY <2>1
  <2>3. k \in Before(k) /\ k \notin Before(j)
    BY <1>5
  <2>4. QED
    BY <2>2, <2>3
<1>7. Before(j) \in U /\ Before(j) \subseteq T
  BY Zenon
<1> HIDE DEF Before
<1>8. <<Before(j), Before(k)>> \in StrictSubsetOrdering(T)
  BY <1>6, <1>7 DEF StrictSubsetOrdering, Before
<1> QED
  BY <1>3, <1>4, <1>7, <1>8

(* A set that holds 0, and with each number up to n the next one, holds    *)
(* all of them.                                                            *)
LEMMA Upwards ==
  ASSUME NEW n \in Nat, NEW S, 0 \in S, \A k \in 0..n : k \in S /\ k < n => k + 1 \in S
  PROVE  0..n \subseteq S
<1> DEFINE T == {k \in 0..n : k \notin S}
<1>1. SUFFICES ASSUME T # {} PROVE FALSE
  OBVIOUS
<1>2. PICK i \in T : \A j \in T : i <= j
  <2>1. T \in SUBSET (0..n)
    OBVIOUS
  <2> HIDE DEF T
  <2>2. QED
    BY <1>1, <2>1, LeastExists
<1>3. i - 1 \in 0..n /\ i - 1 < n /\ i - 1 + 1 = i /\ i - 1 \notin T
  BY <1>2
<1>4. i - 1 \in S
  BY <1>3
<1>5. QED
  BY <1>3, <1>4

(* f holds what is among the beginnings of q. *)
Picks(f, q, S, n) ==
  f = [k \in 0..n |-> IF k = 0 THEN << >>
                      ELSE f[k - 1] \o (IF q[k] \in S THEN <<q[k]>> ELSE << >>)]

LEMMA PicksExist ==
  ASSUME NEW q, NEW A, NEW n \in Nat
  PROVE  \E f : Picks(f, q, A, n)
<1> DEFINE S == {l \in 0..n : \E f : Picks(f, q, A, l)}
<1>1. 0 \in S
  <2> DEFINE f == [k \in 0..0 |-> << >>]
  <2>1. Picks(f, q, A, 0)
    BY DEF Picks
  <2> HIDE DEF f
  <2>2. QED
    BY <2>1
<1>2. ASSUME NEW l \in 0..n, l \in S, l < n PROVE l + 1 \in S
  <2>1. PICK f : Picks(f, q, A, l)
    BY <1>2
  <2> DEFINE More(k) == IF q[k] \in A THEN <<q[k]>> ELSE << >>
             g == [k \in 0..l + 1 |-> IF k = 0 THEN << >> ELSE f[k - 1] \o More(k)]
  <2>2. ASSUME NEW k \in 0..l PROVE g[k] = f[k]
    <3>1. f[k] = IF k = 0 THEN << >> ELSE f[k - 1] \o More(k)
      BY <2>1, Zenon DEF Picks
    <3> HIDE DEF More
    <3>2. QED
      BY <3>1
  <2>3. ASSUME NEW k \in 0..l + 1, k # 0 PROVE f[k - 1] = g[k - 1]
    <3>1. k - 1 \in 0..l
      BY <2>3
    <3> HIDE DEF g
    <3>2. QED
      BY <2>2, <3>1, Zenon
  <2>4. Picks(g, q, A, l + 1)
    BY <2>3, Zenon DEF Picks
  <2>5. l + 1 \in 0..n
    BY <1>2
  <2> HIDE DEF g
  <2>6. QED
    BY <2>4, <2>5
<1> HIDE DEF S
<1>3. 0..n \subseteq S
  BY <1>1, <1>2, Upwards, Zenon
<1>4. n \in S
  BY <1>3
<1>5. QED
  BY <1>4 DEF S

(* p has each of the first n elements of q that are in S once. *)
PicksOf(p, T, q, S, n) ==
  /\ p \in Seq(T) /\ IsInjective(p)
  /\ \A v : v \in Range(p) <=> v \in S /\ \E j \in 1..n : q[j] = v

(* Putting a new element at the end. *)
LEMMA OneMore ==
  ASSUME NEW T, NEW p \in Seq(T), NEW v \in T, IsInjective(p), v \notin Range(p)
  PROVE  /\ p \o <<v>> \in Seq(T) /\ IsInjective(p \o <<v>>)
         /\ Range(p \o <<v>>) = Range(p) \cup {v}
<1>1. PICK r : r = p \o <<v>>
  OBVIOUS
<1>2. /\ r \in Seq(T) /\ Len(r) = Len(p) + 1 /\ r[Len(p) + 1] = v /\ Len(p) \in Nat
      /\ \A i \in 1..Len(p) : r[i] = p[i]
  BY <1>1
<1>3. /\ DOMAIN r = 1..Len(p) + 1 /\ DOMAIN p = 1..Len(p)
      /\ 1..Len(p) + 1 = 1..Len(p) \cup {Len(p) + 1}
  BY <1>2
<1>4. Range(r) = Range(p) \cup {v}
  BY <1>2, <1>3 DEF Range
<1>5. ASSUME NEW i \in DOMAIN r, NEW j \in DOMAIN r, r[i] = r[j] PROVE i = j
  <2>1. \A h, l \in 1..Len(p) : p[h] = p[l] => h = l
    BY <1>3 DEF IsInjective
  <2>2. \A h \in 1..Len(p) : p[h] # v
    BY <1>3 DEF Range
  <2>3. QED
    BY <1>2, <1>3, <1>5, <2>1, <2>2
<1>6. QED
  BY <1>1, <1>2, <1>4, <1>5 DEF IsInjective

LEMMA AmongFacts ==
  ASSUME NEW T, NEW q \in Seq(T), NEW S, IsInjective(q)
  PROVE  PicksOf(Among(q, S), T, q, S, Len(q))
<1>1. PICK f : f = (CHOOSE g : Picks(g, q, S, Len(q))) /\ Picks(f, q, S, Len(q))
  <2>1. Len(q) \in Nat
    OBVIOUS
  <2>2. \E g : Picks(g, q, S, Len(q))
    BY <2>1, PicksExist
  <2>3. QED
    BY <2>2, Zenon
<1>2. Among(q, S) = f[Len(q)]
  BY <1>1, Zenon DEF Among, Picks
<1> DEFINE More(k) == IF q[k] \in S THEN <<q[k]>> ELSE << >>
           N == {k \in 0..Len(q) : PicksOf(f[k], T, q, S, k)}
<1>3. ASSUME NEW k \in 0..Len(q)
      PROVE  f[k] = IF k = 0 THEN << >> ELSE f[k - 1] \o More(k)
  BY <1>1, Zenon DEF Picks
<1>4. 0 \in N
  <2>1. f[0] = << >> /\ 0 \in 0..Len(q)
    <3>1. 0 \in 0..Len(q)
      OBVIOUS
    <3>2. QED
      BY <1>3, <3>1, Zenon
  <2>2. PicksOf(<< >>, T, q, S, 0)
    BY DEF PicksOf, IsInjective, Range
  <2>3. QED
    BY <2>1, <2>2
<1>5. ASSUME NEW k \in 0..Len(q), k \in N, k < Len(q) PROVE k + 1 \in N
  <2>1. PICK l \in 1..Len(q) : l = k + 1 /\ l - 1 = k /\ l # 0 /\ l \in 0..Len(q)
    BY <1>5
  <2>2. f[l] = f[k] \o More(l)
    BY <1>3, <2>1
  <2>3. PICK p : p = f[k] /\ PicksOf(p, T, q, S, k)
    BY <1>5
  <2>4. /\ p \in Seq(T) /\ IsInjective(p)
        /\ \A v : v \in Range(p) <=> v \in S /\ \E j \in 1..k : q[j] = v
    BY <2>3 DEF PicksOf
  <2>5. 1..l = 1..k \cup {l} /\ l \notin 1..k /\ q[l] \in T
    BY <1>5, <2>1
  <2>6. CASE q[l] \in S
    <3>1. f[l] = p \o <<q[l]>>
      BY <2>2, <2>3, <2>6
    <3>2. q[l] \notin Range(p)
      <4>1. \A j \in 1..k : q[j] # q[l]
        <5>1. \A i, j \in 1..Len(q) : q[i] = q[j] => i = j
          BY DEF IsInjective
        <5>2. \A j \in 1..k : j \in 1..Len(q) /\ j # l
          BY <1>5, <2>1
        <5>3. QED
          BY <5>1, <5>2
      <4>2. QED
        BY <2>4, <4>1
    <3>3. /\ f[l] \in Seq(T) /\ IsInjective(f[l]) /\ Range(f[l]) = Range(p) \cup {q[l]}
      <4>1. PICK v \in T : v = q[l]
        BY <2>5
      <4>2. /\ p \o <<v>> \in Seq(T) /\ IsInjective(p \o <<v>>)
            /\ Range(p \o <<v>>) = Range(p) \cup {v}
        BY <2>4, <3>2, <4>1, OneMore
      <4>3. QED
        BY <3>1, <4>1, <4>2, Zenon
    <3>4. \A v : v \in Range(f[l]) <=> v \in S /\ \E j \in 1..l : q[j] = v
      BY <2>4, <2>5, <2>6, <3>3, Zenon
    <3>5. QED
      BY <2>1, <3>3, <3>4 DEF PicksOf
  <2>7. CASE q[l] \notin S
    <3>1. f[l] = p
      BY <2>2, <2>3, <2>4, <2>7
    <3>2. \A v : v \in Range(p) <=> v \in S /\ \E j \in 1..l : q[j] = v
      BY <2>4, <2>5, <2>7, Zenon
    <3>3. QED
      BY <2>1, <2>4, <3>1, <3>2 DEF PicksOf
  <2>8. QED
    BY <2>6, <2>7
<1> HIDE DEF N
<1>6. 0..Len(q) \subseteq N
  <2>1. Len(q) \in Nat
    OBVIOUS
  <2>2. QED
    BY <1>4, <1>5, <2>1, Upwards, Zenon
<1>7. Len(q) \in N
  BY <1>6
<1>8. QED
  BY <1>2, <1>7 DEF N

(* Two sequences, one behind the other. *)
LEMMA ConcatOnce ==
  ASSUME NEW T, NEW a \in Seq(T), NEW b \in Seq(T), IsInjective(a), IsInjective(b),
         Range(a) \cap Range(b) = {}
  PROVE  a \o b \in Seq(T) /\ IsInjective(a \o b) /\ Range(a \o b) = Range(a) \cup Range(b)
<1>1. PICK r : r = a \o b
  OBVIOUS
<1>2. /\ r \in Seq(T) /\ Len(r) = Len(a) + Len(b) /\ Len(a) \in Nat /\ Len(b) \in Nat
      /\ DOMAIN r = 1..Len(a) + Len(b) /\ DOMAIN a = 1..Len(a) /\ DOMAIN b = 1..Len(b)
      /\ \A j \in 1..Len(a) + Len(b) : r[j] = IF j <= Len(a) THEN a[j] ELSE b[j - Len(a)]
  BY <1>1
<1>3. ASSUME NEW j \in 1..Len(a) + Len(b)
      PROVE  \/ j <= Len(a) /\ j \in 1..Len(a) /\ r[j] = a[j]
             \/ ~(j <= Len(a)) /\ j - Len(a) \in 1..Len(b) /\ r[j] = b[j - Len(a)]
  BY <1>2
<1>4. /\ \A j \in 1..Len(a) : j \in 1..Len(a) + Len(b) /\ r[j] = a[j]
      /\ \A j \in 1..Len(b) : j + Len(a) \in 1..Len(a) + Len(b) /\ r[j + Len(a)] = b[j]
  <2>1. ASSUME NEW j \in 1..Len(a) PROVE j \in 1..Len(a) + Len(b) /\ r[j] = a[j]
    BY <1>2
  <2>2. ASSUME NEW j \in 1..Len(b)
        PROVE  j + Len(a) \in 1..Len(a) + Len(b) /\ r[j + Len(a)] = b[j]
    <3>1. j + Len(a) \in 1..Len(a) + Len(b) /\ ~(j + Len(a) <= Len(a)) /\ j + Len(a) - Len(a) = j
      BY <1>2
    <3>2. QED
      BY <1>2, <3>1
  <2>3. QED
    BY <2>1, <2>2
<1>5. Range(r) = Range(a) \cup Range(b)
  <2>1. \A v \in Range(r) : v \in Range(a) \cup Range(b)
    BY <1>2, <1>3 DEF Range
  <2>2. \A v \in Range(a) \cup Range(b) : v \in Range(r)
    <3>1. \A j \in 1..Len(a) : a[j] \in Range(r)
      BY <1>2, <1>4 DEF Range
    <3>2. \A j \in 1..Len(b) : b[j] \in Range(r)
      BY <1>2, <1>4, Zenon DEF Range
    <3>3. QED
      BY <1>2, <3>1, <3>2 DEF Range
  <2>3. QED
    BY <2>1, <2>2
<1>6. ASSUME NEW i \in DOMAIN r, NEW j \in DOMAIN r, r[i] = r[j] PROVE i = j
  <2>1. i \in 1..Len(a) + Len(b) /\ j \in 1..Len(a) + Len(b) /\ i \in Nat /\ j \in Nat
    BY <1>2
  <2>2. \A h \in 1..Len(a), l \in 1..Len(b) : a[h] # b[l]
    BY <1>2 DEF Range
  <2>3. \A h, l \in 1..Len(a) : a[h] = a[l] => h = l
    BY <1>2 DEF IsInjective
  <2>4. \A h, l \in 1..Len(b) : b[h] = b[l] => h = l
    BY <1>2 DEF IsInjective
  <2>5. CASE i <= Len(a) /\ j <= Len(a)
    BY <1>3, <1>6, <2>1, <2>3, <2>5
  <2>6. CASE ~(i <= Len(a)) /\ ~(j <= Len(a))
    <3>1. i - Len(a) = j - Len(a)
      BY <1>3, <1>6, <2>1, <2>4, <2>6
    <3>2. QED
      BY <1>2, <2>1, <3>1
  <2>7. QED
    BY <1>3, <1>6, <2>1, <2>2, <2>5, <2>6
<1>7. QED
  BY <1>1, <1>2, <1>5, <1>6 DEF IsInjective

(* A sequence that is put into another. *)
LEMMA SpliceOnce ==
  ASSUME NEW T, NEW q \in Seq(T), NEW r \in Seq(T), IsInjective(q), IsInjective(r),
         Range(q) \cap Range(r) = {}, NEW row \in 1..Len(q) + 1
  PROVE  LET s == SubSeq(q, 1, row - 1) \o r \o SubSeq(q, row, Len(q))
         IN  s \in Seq(T) /\ IsInjective(s) /\ Range(s) = Range(q) \cup Range(r)
<1>1. PICK a, b : a = SubSeq(q, 1, row - 1) /\ b = SubSeq(q, row, Len(q))
  OBVIOUS
<1>2. Len(q) \in Nat /\ row \in Nat /\ 1 <= row /\ row <= Len(q) + 1 /\ DOMAIN q = 1..Len(q)
  OBVIOUS
<1>3. a \in Seq(T) /\ Len(a) = row - 1 /\ \A j \in 1..row - 1 : a[j] = q[j]
  BY <1>1
<1>4. /\ b \in Seq(T) /\ Len(b) = Len(q) + 1 - row
      /\ \A j \in 1..Len(q) + 1 - row : b[j] = q[row + j - 1]
  BY <1>1
<1>5. DOMAIN a = 1..row - 1 /\ DOMAIN b = 1..Len(q) + 1 - row
  BY <1>3, <1>4
<1>6. \A i, j \in 1..Len(q) : q[i] = q[j] => i = j
  BY <1>2 DEF IsInjective
<1>7. ASSUME NEW j \in 1..row - 1 PROVE j \in 1..Len(q) /\ a[j] = q[j]
  BY <1>2, <1>3
<1>8. ASSUME NEW j \in 1..Len(q) + 1 - row
      PROVE  row + j - 1 \in 1..Len(q) /\ b[j] = q[row + j - 1] /\ j \in Nat
  BY <1>2, <1>4
<1>9. IsInjective(a)
  BY <1>5, <1>6, <1>7 DEF IsInjective
<1>10. IsInjective(b)
  <2>1. ASSUME NEW i \in 1..Len(q) + 1 - row, NEW j \in 1..Len(q) + 1 - row, b[i] = b[j]
        PROVE  i = j
    <3>1. row + i - 1 = row + j - 1
      BY <1>6, <1>8, <2>1
    <3>2. QED
      BY <1>2, <1>8, <3>1
  <2>2. QED
    BY <1>5, <2>1 DEF IsInjective
<1>11. Range(a) \cap Range(b) = {}
  <2>1. ASSUME NEW i \in 1..row - 1, NEW j \in 1..Len(q) + 1 - row, a[i] = b[j] PROVE FALSE
    <3>1. i = row + j - 1
      BY <1>6, <1>7, <1>8, <2>1
    <3>2. QED
      BY <1>2, <1>8, <3>1
  <2>2. QED
    BY <1>5, <2>1 DEF Range
<1>12. Range(a) \cup Range(b) = Range(q)
  <2>1. ASSUME NEW i \in 1..Len(q) PROVE q[i] \in Range(a) \cup Range(b)
    <3>1. CASE i < row
      <4>1. i \in 1..row - 1
        BY <1>2, <3>1
      <4>2. QED
        BY <1>5, <1>7, <4>1 DEF Range
    <3>2. CASE ~(i < row)
      <4>1. i + 1 - row \in 1..Len(q) + 1 - row /\ row + (i + 1 - row) - 1 = i
        BY <1>2, <3>2
      <4>2. b[i + 1 - row] = q[i]
        BY <1>8, <4>1
      <4>3. QED
        BY <1>5, <4>1, <4>2 DEF Range
    <3>3. QED
      BY <3>1, <3>2
  <2>2. QED
    BY <1>2, <1>5, <1>7, <1>8, <2>1 DEF Range
<1>13. a \o r \in Seq(T) /\ IsInjective(a \o r) /\ Range(a \o r) = Range(a) \cup Range(r)
  BY <1>3, <1>9, <1>12, ConcatOnce
<1>14. PICK c : c = a \o r
  OBVIOUS
<1>15. c \o b \in Seq(T) /\ IsInjective(c \o b) /\ Range(c \o b) = Range(c) \cup Range(b)
  <2>1. Range(c) \cap Range(b) = {}
    BY <1>11, <1>12, <1>13, <1>14
  <2>2. c \in Seq(T) /\ b \in Seq(T) /\ IsInjective(c) /\ IsInjective(b)
    BY <1>4, <1>10, <1>13, <1>14, Zenon
  <2>3. QED
    BY <2>1, <2>2, ConcatOnce
<1>16. QED
  BY <1>1, <1>12, <1>13, <1>14, <1>15

-----------------------------------------------------------------------------
(* Drag and drop. *)

(* The entities that are copied are those selected and all below them; the *)
(* selected ones are not below each other.                                 *)
LEMMA CopiedFacts ==
  ASSUME TypeOK, Shape
  PROVE  /\ selected \subseteq Copied /\ Copied \subseteq Live /\ Copied \subseteq Entity
         /\ \A f \in Copied, y \in Entity : In(y, f) => y \in Copied
         /\ \A y \in Copied \ selected : Owner(y) \in Copied
         /\ (\A x, z \in selected : Owner(x) = Owner(z)) =>
              \A x \in selected : Owner(x) \notin Copied
<1>1. /\ Least /\ Owned /\ Apart /\ selected \subseteq Live /\ Live \subseteq Entity
      /\ Live \subseteq 0..MaxEntities
  BY SubtreeLeast, OneOwned, NoCycle, FolderType, MaxType DEF TypeOK
<1>2. /\ \A x \in selected : x \in Subtree(x) /\ Subtree(x) \subseteq Live
      /\ \A x \in selected : \A f \in Subtree(x), y \in Entity :
           In(y, f) => y \in Subtree(x)
  <2>1. ASSUME NEW x \in selected, NEW f \in Subtree(x), NEW y \in Entity, In(y, f)
        PROVE  y \in Subtree(x)
    BY <1>1, <2>1 DEF Least, Closed, In
  <2>2. ASSUME NEW x \in selected PROVE x \in Subtree(x) /\ Subtree(x) \subseteq Live
    BY <1>1 DEF Least, Apart
  <2>3. QED
    BY <2>1, <2>2
<1>3. \A y \in Copied : \E x \in selected : y \in Subtree(x)
  BY DEF Copied
<1>4. selected \subseteq Copied /\ Copied \subseteq Live
  BY <1>2 DEF Copied
<1>5. ASSUME NEW f \in Copied, NEW y \in Entity, In(y, f) PROVE y \in Copied
  BY <1>2, <1>5 DEF Copied
<1>6. ASSUME NEW y \in Copied \ selected PROVE Owner(y) \in Copied
  <2>1. PICK x \in selected : y \in Subtree(x)
    BY <1>3
  <2>2. Owner(y) \in Subtree(x)
    BY <1>1, <2>1 DEF Apart
  <2>3. QED
    BY <2>2 DEF Copied
<1>7. ASSUME \A y, z \in selected : Owner(y) = Owner(z),
             NEW x \in selected, Owner(x) \in Copied
      PROVE  FALSE
  <2>1. PICK z \in selected : Owner(x) \in Subtree(z)
    BY <1>3, <1>7
  <2>2. Owner(z) \in Subtree(z)
    BY <1>7, <2>1
  <2>3. QED
    BY <1>1, <2>2 DEF Apart
<1>8. QED
  BY <1>1, <1>4, <1>5, <1>6, <1>7

(* g gives each copy a number of its own. *)
Fresh(g) ==
  /\ g \in [Copied -> created + 1..created + Cardinality(Copied)]
  /\ \A x, y \in Copied : x # y => g[x] # g[y]

LEMMA FreshExists ==
  ASSUME TypeOK, Shape
  PROVE  \E g : Fresh(g)
<1>1. IsFiniteSet(Copied)
  <2>1. IsFiniteSet(Entity)
    BY MaxType, FS_Interval DEF Entity
  <2>2. QED
    BY <2>1, CopiedFacts, FS_Subset
<1>2. PICK n : n = Cardinality(Copied) /\ n \in Nat /\ ExistsBijection(1..n, Copied)
  BY <1>1, FS_CardinalityType
<1>3. PICK b \in Bijection(1..n, Copied) : TRUE
  BY <1>2 DEF ExistsBijection
<1>4. /\ b \in [1..n -> Copied] /\ \A x \in Copied : \E i \in 1..n : b[i] = x
  BY <1>3 DEF Bijection, Injection, Surjection
<1>5. created \in Nat
  BY MaxType DEF TypeOK
<1> DEFINE At(x) == CHOOSE i \in 1..n : b[i] = x
           g == [x \in Copied |-> created + At(x)]
<1>6. \A x \in Copied : At(x) \in 1..n /\ b[At(x)] = x
  BY <1>4
<1> HIDE DEF At
<1>7. g \in [Copied -> created + 1..created + n]
  BY <1>2, <1>5, <1>6
<1>8. \A x, y \in Copied : x # y => g[x] # g[y]
  <2>1. ASSUME NEW x \in Copied, NEW y \in Copied, g[x] = g[y] PROVE x = y
    <3>1. created + At(x) = created + At(y) /\ At(x) \in Nat /\ At(y) \in Nat
      BY <1>6, <2>1
    <3>2. At(x) = At(y)
      BY <1>5, <3>1
    <3>3. QED
      BY <1>6, <3>2
  <2>2. QED
    BY <2>1
<1> HIDE DEF g
<1>9. QED
  BY <1>2, <1>7, <1>8 DEF Fresh

(* Drop, with g for the numbers of the copies. *)
CopiesOf(g, q) == LET there == Among(q, Copied) IN [i \in DOMAIN there |-> g[there[i]]]
Source == Owner(CHOOSE x \in selected : TRUE)
Originals(g) == [y \in Range(g) |-> CHOOSE x \in Copied : g[x] = y]

DroppedTree(f, row, g) ==
  /\ created' = created + Cardinality(Copied)
  /\ kind' = [y \in Entity |-> IF y \in Range(g) THEN kind[Originals(g)[y]] ELSE kind[y]]
  /\ items' = [y \in 0..MaxEntities |->
       IF y \in Range(g) THEN CopiesOf(g, items[Originals(g)[y]])
       ELSE IF y = f
       THEN SubSeq(items[f], 1, row - 1) \o CopiesOf(g, Among(items[Source], selected))
            \o SubSeq(items[f], row, Len(items[f]))
       ELSE items[y]]
  /\ parent' = [y \in Entity |->
       IF y \in Range(g) /\ Originals(g)[y] \in selected THEN f ELSE parent[y]]
  /\ name' = [y \in Entity |-> IF y \in Range(g) THEN name[Originals(g)[y]] ELSE name[y]]

Dropped(f, row, move, g) ==
  /\ Fresh(g) /\ DroppedTree(f, row, g)
  /\ Idle /\ selected # {} /\ created + Cardinality(Copied) <= MaxEntities
  /\ \A x \in selected : Owner(x) = Source
  /\ move => f \notin Copied
  /\ move => Cardinality(selected) = 1
  /\ crashed' = \/ \E x \in selected : ParentFails(x)
                \/ \E a \in Folder \ {Root} : move /\ f \in Subtree(a) /\ ParentFails(a)
  /\ text' = [y \in Entity |-> IF y \in Range(g) THEN text[Originals(g)[y]] ELSE text[y]]
  /\ typed' = typed \cup {g[x] : x \in Copied \cap typed}
  /\ stale' = stale \cup {g[x] : x \in Copied \cap (stale \cup Unsaved)}
  /\ nested' = (nested \/ Copied # selected)
  /\ pc' = IF move THEN "removing" ELSE "idle"
  /\ goal' = IF move THEN [single |-> TRUE, names |-> Names(Live)] ELSE goal
  /\ UNCHANGED <<selected, current, editor>>

LEMMA DropIs ==
  ASSUME TypeOK, Shape, NEW f, NEW row, NEW move, Drop(f, row, move)
  PROVE  \E g : Dropped(f, row, move, g)
<1> DEFINE Ids == [Copied -> created + 1..created + Cardinality(Copied)]
           Apart1(g) == \A x, y \in Copied : x # y => g[x] # g[y]
<1>1. PICK g : g = (CHOOSE h \in Ids : Apart1(h)) /\ Fresh(g)
  <2>1. \E h \in Ids : Apart1(h)
    BY FreshExists DEF Fresh
  <2>2. QED
    BY <2>1 DEF Fresh
<1>2. Dropped(f, row, move, g)
  <2> DEFINE C == CHOOSE h \in Ids : Apart1(h)
  <2>1. Fresh(C) => Dropped(f, row, move, C)
    BY Zenon DEF Drop, Dropped, DroppedTree, CopiesOf, Source, Originals
  <2> HIDE DEF C
  <2>2. QED
    BY <1>1, <2>1, Zenon DEF C
<1>3. QED
  BY <1>2

(* The numbers of the copies are new. *)
LEMMA FreshFacts ==
  ASSUME TypeOK, Shape, NEW g, Fresh(g), created + Cardinality(Copied) <= MaxEntities
  PROVE  /\ Range(g) \subseteq Entity /\ Range(g) \cap Live = {}
         /\ \A y \in Range(g) : created < y /\ y <= created + Cardinality(Copied)
         /\ \A x \in Copied : g[x] \in Range(g) /\ Originals(g)[g[x]] = x
         /\ \A y \in Range(g) : \E x \in Copied : y = g[x]
         /\ \A x, y \in Copied : g[x] = g[y] => x = y
         /\ created \in Nat /\ Cardinality(Copied) \in Nat
<1>1. created \in Nat /\ Cardinality(Copied) \in Nat
  <2>1. IsFiniteSet(Entity)
    BY MaxType, FS_Interval DEF Entity
  <2>2. IsFiniteSet(Copied)
    BY <2>1, CopiedFacts, FS_Subset
  <2>3. QED
    BY <2>2, FS_CardinalityType, MaxType DEF TypeOK
<1>2. /\ DOMAIN g = Copied /\ \A x \in Copied : g[x] \in created + 1..created + Cardinality(Copied)
      /\ \A x, y \in Copied : g[x] = g[y] => x = y
  BY DEF Fresh
<1>3. \A y \in Range(g) : \E x \in Copied : y = g[x]
  BY <1>2 DEF Range
<1>4. \A y \in Range(g) : created < y /\ y <= created + Cardinality(Copied) /\ y \in Nat
  BY <1>1, <1>2, <1>3
<1>5. Range(g) \subseteq Entity
  BY <1>1, <1>4, MaxType DEF Entity
<1>6. Range(g) \cap Live = {}
  BY <1>1, <1>4, FolderType DEF Shape, Entity
<1>7. ASSUME NEW x \in Copied PROVE g[x] \in Range(g) /\ Originals(g)[g[x]] = x
  <2>1. g[x] \in Range(g)
    BY <1>2 DEF Range
  <2>2. Originals(g)[g[x]] = CHOOSE z \in Copied : g[z] = g[x]
    BY <2>1, Zenon DEF Originals
  <2>3. QED
    BY <1>2, <2>1, <2>2
<1>8. QED
  BY <1>1, <1>2, <1>3, <1>4, <1>5, <1>6, <1>7

(* The copies of a list. *)
LEMMA CopiesFacts ==
  ASSUME TypeOK, Shape, NEW g, Fresh(g), created + Cardinality(Copied) <= MaxEntities,
         NEW q \in Seq(Entity), IsInjective(q)
  PROVE  /\ CopiesOf(g, q) \in Seq(Entity) /\ IsInjective(CopiesOf(g, q))
         /\ \A v : v \in Range(CopiesOf(g, q)) <=> \E x \in Copied \cap Range(q) : v = g[x]
<1>1. PICK p : p = Among(q, Copied)
  OBVIOUS
<1>2. /\ p \in Seq(Entity) /\ IsInjective(p)
      /\ \A v : v \in Range(p) <=> v \in Copied /\ \E j \in 1..Len(q) : q[j] = v
  BY <1>1, AmongFacts DEF PicksOf
<1>3. Range(p) = Copied \cap Range(q)
  <2>1. DOMAIN q = 1..Len(q)
    OBVIOUS
  <2>2. \A v : v \in Range(q) <=> \E j \in 1..Len(q) : q[j] = v
    BY <2>1 DEF Range
  <2>3. QED
    BY <1>2, <2>2
<1>4. PICK r : r = CopiesOf(g, q) /\ r = [i \in DOMAIN p |-> g[p[i]]]
  BY <1>1 DEF CopiesOf
<1>5. DOMAIN p = 1..Len(p) /\ Len(p) \in Nat /\ \A i \in 1..Len(p) : p[i] \in Range(p)
  BY <1>2 DEF Range
<1>6. \A i \in 1..Len(p) : p[i] \in Copied /\ g[p[i]] \in Entity
  BY <1>3, <1>5, FreshFacts
<1>7. r \in Seq(Entity) /\ Len(r) = Len(p)
  BY <1>4, <1>5, <1>6
<1>8. DOMAIN r = 1..Len(p) /\ \A i \in 1..Len(p) : r[i] = g[p[i]]
  BY <1>4, <1>5
<1>9. IsInjective(r)
  <2>1. \A i, j \in 1..Len(p) : p[i] = p[j] => i = j
    BY <1>2, <1>5 DEF IsInjective
  <2>2. \A i, j \in 1..Len(p) : r[i] = r[j] => i = j
    BY <1>6, <1>8, <2>1, FreshFacts
  <2>3. QED
    BY <1>8, <2>2 DEF IsInjective
<1>10. \A v : v \in Range(r) <=> \E x \in Range(p) : v = g[x]
  <2>1. \A v : v \in Range(r) <=> \E i \in 1..Len(p) : v = r[i]
    BY <1>8, Zenon DEF Range
  <2>2. \A x : x \in Range(p) <=> \E i \in 1..Len(p) : x = p[i]
    BY <1>5, Zenon DEF Range
  <2>3. ASSUME NEW v, v \in Range(r) PROVE \E x \in Range(p) : v = g[x]
    <3>1. PICK i \in 1..Len(p) : v = r[i]
      BY <2>1, <2>3
    <3>2. QED
      BY <1>5, <1>8, <3>1
  <2>4. ASSUME NEW v, NEW x \in Range(p), v = g[x] PROVE v \in Range(r)
    <3>1. PICK i \in 1..Len(p) : x = p[i]
      BY <2>2, <2>4
    <3>2. v = r[i]
      BY <1>8, <2>4, <3>1
    <3>3. QED
      BY <2>1, <3>2
  <2>5. QED
    BY <2>3, <2>4
<1>11. QED
  BY <1>3, <1>4, <1>7, <1>9, <1>10

(* What the lists hold after a drop. *)
LEMMA DroppedLists ==
  ASSUME TypeOK, Shape, NEW f \in Folder, NEW row \in 1..Len(items[f]) + 1, NEW move, NEW g,
         Dropped(f, row, move, g)
  PROVE  /\ items' \in [0..MaxEntities -> Seq(Entity)]
         /\ \A h \in 0..MaxEntities : \A i, j \in 1..Len(items[h]') :
              items[h]'[i] = items[h]'[j] => i = j
         /\ \A h \in 0..MaxEntities, y \in Entity :
              In(y, h)' <=> \/ In(y, h)
                            \/ h = f /\ \E x \in selected : y = g[x]
                            \/ \E u, x \in Copied : h = g[u] /\ y = g[x] /\ In(x, u)
<1>1. /\ Fresh(g) /\ created + Cardinality(Copied) <= MaxEntities /\ selected # {}
      /\ \A x \in selected : Owner(x) = Source
  BY DEF Dropped
<1>2. /\ Owned /\ selected \subseteq Copied /\ Copied \subseteq Live /\ Copied \subseteq Entity
      /\ f \in 0..MaxEntities /\ f \notin Range(g) /\ Entity \subseteq 0..MaxEntities
  BY <1>1, OneOwned, CopiedFacts, FolderType, FreshFacts, MaxType
<1>3. ASSUME NEW h \in 0..MaxEntities
      PROVE  /\ items[h] \in Seq(Entity) /\ IsInjective(items[h])
             /\ DOMAIN items[h] = 1..Len(items[h])
    BY InType DEF Shape, IsInjective
<1>4. Source \in 0..MaxEntities /\ \A x \in selected : In(x, Source)
  <2>1. PICK x \in selected : TRUE
    BY <1>1
  <2>2. Source \in Folder
    BY <1>1, <1>2, <2>1 DEF Owned
  <2>3. \A z \in selected : In(z, Source)
    BY <1>1, <1>2 DEF Owned
  <2>4. QED
    BY <2>2, <2>3, FolderType
<1>5. PICK p : p = Among(items[Source], selected) /\ p \in Seq(Entity) /\ IsInjective(p)
               /\ Range(p) = selected
  <2>1. PicksOf(Among(items[Source], selected), Entity, items[Source], selected,
                Len(items[Source]))
    BY <1>3, <1>4, AmongFacts
  <2>2. \A x \in selected : \E j \in 1..Len(items[Source]) : items[Source][j] = x
    BY <1>4, InType
  <2>3. PICK p : p = Among(items[Source], selected)
    OBVIOUS
  <2>4. /\ p \in Seq(Entity) /\ IsInjective(p)
        /\ \A v : v \in Range(p) <=>
                   v \in selected /\ \E j \in 1..Len(items[Source]) : items[Source][j] = v
    BY <2>1, <2>3 DEF PicksOf
  <2>5. Range(p) = selected
    BY <2>2, <2>4
  <2>6. QED
    BY <2>3, <2>4, <2>5
<1>6. PICK r : r = CopiesOf(g, p) /\ r \in Seq(Entity) /\ IsInjective(r)
               /\ \A v : v \in Range(r) <=> \E x \in selected : v = g[x]
  <2>1. Copied \cap Range(p) = selected
    BY <1>2, <1>5
  <2>2. QED
    BY <1>1, <1>5, <2>1, CopiesFacts
<1>7. Range(items[f]) \cap Range(r) = {}
  <2>1. \A v \in Range(r) : v \in Range(g)
    BY <1>1, <1>2, <1>6, FreshFacts
  <2>2. \A v \in Range(items[f]) : v \in Live
    BY <1>2, InType DEF Shape, In
  <2>3. QED
    BY <1>1, <2>1, <2>2, FreshFacts
<1>8. PICK s : /\ s = SubSeq(items[f], 1, row - 1) \o r \o SubSeq(items[f], row, Len(items[f]))
               /\ s \in Seq(Entity) /\ IsInjective(s) /\ Range(s) = Range(items[f]) \cup Range(r)
  <2>1. PICK q : /\ q = items[f] /\ q \in Seq(Entity) /\ IsInjective(q)
                 /\ row \in 1..Len(q) + 1 /\ Range(q) \cap Range(r) = {}
    BY <1>2, <1>3, <1>7
  <2>2. PICK s : s = SubSeq(q, 1, row - 1) \o r \o SubSeq(q, row, Len(q))
    OBVIOUS
  <2>3. s \in Seq(Entity) /\ IsInjective(s) /\ Range(s) = Range(q) \cup Range(r)
    BY <1>6, <2>1, <2>2, SpliceOnce
  <2>4. QED
    BY <2>1, <2>2, <2>3
<1>9. items' = [y \in 0..MaxEntities |->
                 IF y \in Range(g) THEN CopiesOf(g, items[Originals(g)[y]])
                 ELSE IF y = f THEN s ELSE items[y]]
  BY <1>5, <1>6, <1>8, Zenon DEF Dropped, DroppedTree
<1>10. /\ items'[f] = s
       /\ \A h \in 0..MaxEntities : h \notin Range(g) /\ h # f => items'[h] = items[h]
  BY <1>2, <1>9
<1>11. ASSUME NEW u \in Copied
       PROVE  /\ items'[g[u]] = CopiesOf(g, items[u])
              /\ items'[g[u]] \in Seq(Entity) /\ IsInjective(items'[g[u]])
              /\ \A v : v \in Range(items'[g[u]]) <=> \E x \in Copied : In(x, u) /\ v = g[x]
  <2>1. u \in 0..MaxEntities /\ g[u] \in Range(g) /\ g[u] \in 0..MaxEntities
        /\ Originals(g)[g[u]] = u
    BY <1>1, <1>2, FreshFacts
  <2>2. items'[g[u]] = CopiesOf(g, items[u])
    BY <1>9, <2>1
  <2>3. /\ CopiesOf(g, items[u]) \in Seq(Entity) /\ IsInjective(CopiesOf(g, items[u]))
        /\ \A v : v \in Range(CopiesOf(g, items[u])) <=>
                    \E x \in Copied \cap Range(items[u]) : v = g[x]
    BY <1>1, <1>3, <2>1, CopiesFacts
  <2>4. QED
    BY <2>2, <2>3 DEF In
<1>12. ASSUME NEW h \in 0..MaxEntities
       PROVE  items'[h] \in Seq(Entity) /\ IsInjective(items'[h])
  <2>1. CASE h \in Range(g)
    <3>1. PICK u \in Copied : h = g[u]
      BY <1>1, <2>1, FreshFacts
    <3>2. QED
      BY <1>11, <3>1
  <2>2. QED
    BY <1>3, <1>8, <1>10, <2>1
<1>13. items' \in [0..MaxEntities -> Seq(Entity)]
  BY <1>9, <1>12
<1>14. ASSUME NEW h \in 0..MaxEntities
       PROVE  \A i, j \in 1..Len(items[h]') : items[h]'[i] = items[h]'[j] => i = j
  <2>1. PICK t : t = items'[h] /\ t \in Seq(Entity) /\ IsInjective(t)
    BY <1>12
  <2>2. QED
    BY <2>1 DEF IsInjective
<1>15. ASSUME NEW h \in 0..MaxEntities, NEW y \in Entity
       PROVE  In(y, h)' <=> \/ In(y, h)
                            \/ h = f /\ \E x \in selected : y = g[x]
                            \/ \E u, x \in Copied : h = g[u] /\ y = g[x] /\ In(x, u)
  <2>1. In(y, h)' <=> y \in Range(items'[h])
    BY DEF In
  <2>2. In(y, h) => h \in Folder
    BY DEF Shape
  <2>3. h \in Range(g) => ~In(y, h)
    BY <1>1, <2>2, FreshFacts, FolderType, MaxType
  <2>4. h \notin Range(g) => ~\E u \in Copied : h = g[u]
    BY <1>1, FreshFacts
  <2>5. CASE h \in Range(g)
    <3>1. PICK u \in Copied : h = g[u]
      BY <1>1, <2>5, FreshFacts
    <3>2. \A w \in Copied : h = g[w] => w = u
      BY <1>1, <3>1, FreshFacts
    <3>3. In(y, h)' <=> \E x \in Copied : In(x, u) /\ y = g[x]
      <4>1. In(y, h)' <=> y \in Range(items'[g[u]])
        BY <2>1, <3>1
      <4>2. y \in Range(items'[g[u]]) <=> \E x \in Copied : In(x, u) /\ y = g[x]
        <5>1. \A v : v \in Range(items'[g[u]]) <=> \E x \in Copied : In(x, u) /\ v = g[x]
          BY <1>11, Zenon
        <5>2. QED
          BY <5>1, Zenon
      <4>3. QED
        BY <4>1, <4>2
    <3>4. h # f
      BY <1>2, <2>5
    <3>5. (\E v, x \in Copied : h = g[v] /\ y = g[x] /\ In(x, v))
            <=> \E x \in Copied : In(x, u) /\ y = g[x]
      BY <3>1, <3>2
    <3>6. QED
      BY <2>3, <2>5, <3>3, <3>4, <3>5
  <2>6. CASE h = f
    BY <1>2, <1>6, <1>8, <1>10, <2>1, <2>4, <2>6 DEF In
  <2>7. CASE h \notin Range(g) /\ h # f
    BY <1>10, <2>1, <2>4, <2>7 DEF In
  <2>8. QED
    BY <2>5, <2>6, <2>7
<1>16. QED
  BY <1>13, <1>14, <1>15

(* The copies are what their originals are. *)
LEMMA DroppedKinds ==
  ASSUME TypeOK, Shape, NEW f \in Folder, NEW row, NEW move, NEW g, Dropped(f, row, move, g)
  PROVE  /\ Live' = Live \cup Range(g) /\ Folder \subseteq Folder'
         /\ \A x \in Copied : /\ kind[g[x]]' = kind[x] /\ name[g[x]]' = name[x]
                              /\ text[g[x]]' = text[x]
                              /\ parent[g[x]]' = IF x \in selected THEN f ELSE Null
                              /\ x \in Folder => g[x] \in Folder'
         /\ \A y \in Entity \ Range(g) : /\ kind[y]' = kind[y] /\ name[y]' = name[y]
                                         /\ text[y]' = text[y] /\ parent[y]' = parent[y]
<1>1. Fresh(g) /\ created + Cardinality(Copied) <= MaxEntities
  BY DEF Dropped
<1>2. /\ Range(g) \subseteq Entity /\ Range(g) \cap Live = {}
      /\ \A x \in Copied : g[x] \in Range(g) /\ g[x] \in Entity /\ Originals(g)[g[x]] = x
      /\ \A y \in Range(g) : \E x \in Copied : y = g[x]
      /\ Copied \subseteq Live /\ Copied \subseteq Entity
  BY <1>1, FreshFacts, CopiedFacts
<1>3. /\ kind' = [y \in Entity |-> IF y \in Range(g) THEN kind[Originals(g)[y]] ELSE kind[y]]
      /\ parent' = [y \in Entity |->
           IF y \in Range(g) /\ Originals(g)[y] \in selected THEN f ELSE parent[y]]
      /\ name' = [y \in Entity |-> IF y \in Range(g) THEN name[Originals(g)[y]] ELSE name[y]]
      /\ text' = [y \in Entity |-> IF y \in Range(g) THEN text[Originals(g)[y]] ELSE text[y]]
  BY DEF Dropped, DroppedTree
<1>4. ASSUME NEW y \in Entity \ Range(g)
      PROVE  /\ kind[y]' = kind[y] /\ name[y]' = name[y]
             /\ text[y]' = text[y] /\ parent[y]' = parent[y]
  BY <1>3, Zenon
<1>5. ASSUME NEW x \in Copied
      PROVE  /\ kind[g[x]]' = kind[x] /\ name[g[x]]' = name[x] /\ text[g[x]]' = text[x]
             /\ parent[g[x]]' = IF x \in selected THEN f ELSE Null
  <2>1. /\ g[x] \in Range(g) /\ g[x] \in Entity /\ Originals(g)[g[x]] = x /\ g[x] \notin Live
    BY <1>2
  <2>2. kind[g[x]]' = kind[x] /\ name[g[x]]' = name[x] /\ text[g[x]]' = text[x]
    BY <1>3, <2>1, Zenon
  <2>3. parent[g[x]]' = IF x \in selected THEN f ELSE parent[g[x]]
    BY <1>3, <2>1, Zenon
  <2>4. parent[g[x]] = Null
    BY <2>1 DEF Shape
  <2>5. QED
    BY <2>2, <2>3, <2>4
<1>6. Live' = Live \cup Range(g)
  <2>1. \A y \in Entity \ Range(g) : y \in Live' <=> y \in Live
    BY <1>4 DEF Live
  <2>2. \A x \in Copied : x \in Live /\ g[x] \in Live'
    BY <1>2, <1>5 DEF Live
  <2>3. Live' \subseteq Entity /\ Live \subseteq Entity
    BY DEF Live
  <2>4. QED
    BY <1>2, <2>1, <2>2, <2>3
<1>7. ASSUME NEW h \in Folder PROVE h \in Folder'
  <2>1. CASE h = Root
    BY <2>1 DEF Folder
  <2>2. CASE h # Root
    <3>1. h \in Live /\ kind[h] = "folder" /\ h \in Entity \ Range(g)
      BY <1>2, <2>2, FolderType DEF Folder
    <3>2. kind[h]' = "folder" /\ h \in Live'
      BY <1>4, <1>6, <3>1
    <3>3. QED
      BY <3>2 DEF Folder
  <2>3. QED
    BY <2>1, <2>2
<1>8. ASSUME NEW x \in Copied, x \in Folder PROVE g[x] \in Folder'
  <2>1. kind[x] = "folder"
    BY <1>2, <1>8, MaxType DEF Folder
  <2>2. kind[g[x]]' = "folder" /\ g[x] \in Live'
    BY <1>2, <1>5, <1>6, <2>1
  <2>3. QED
    BY <2>2 DEF Folder
<1>9. QED
  BY <1>4, <1>5, <1>6, <1>7, <1>8

(* The invariants of the tree after a drop. *)
LEMMA DroppedShape ==
  ASSUME TypeOK, Shape, Hanging, NEW f \in Folder, NEW row \in 1..Len(items[f]) + 1,
         NEW move, NEW g, Dropped(f, row, move, g), TypeOK'
  PROVE  Shape' /\ Hanging'
<1>1. /\ Fresh(g) /\ created + Cardinality(Copied) <= MaxEntities
      /\ created' = created + Cardinality(Copied)
      /\ \A x, z \in selected : Owner(x) = Owner(z)
  BY DEF Dropped, DroppedTree
<1>2. /\ Range(g) \subseteq Entity /\ Range(g) \cap Live = {}
      /\ \A y \in Range(g) : created < y /\ y <= created + Cardinality(Copied)
      /\ \A x \in Copied : g[x] \in Range(g) /\ g[x] \in Entity
      /\ \A y \in Range(g) : \E x \in Copied : y = g[x]
      /\ \A x, y \in Copied : g[x] = g[y] => x = y
      /\ created \in Nat /\ Cardinality(Copied) \in Nat
  BY <1>1, FreshFacts
<1>3. /\ selected \subseteq Copied /\ Copied \subseteq Live /\ Copied \subseteq Entity
      /\ \A u \in Copied, y \in Entity : In(y, u) => y \in Copied
      /\ \A y \in Copied \ selected : Owner(y) \in Copied
      /\ \A x \in selected : Owner(x) \notin Copied
  BY <1>1, CopiedFacts
<1>4. /\ Live' = Live \cup Range(g) /\ Folder \subseteq Folder'
      /\ \A x \in Copied : /\ parent[g[x]]' = IF x \in selected THEN f ELSE Null
                           /\ x \in Folder => g[x] \in Folder'
      /\ \A y \in Entity \ Range(g) : parent[y]' = parent[y]
  BY DroppedKinds
<1>5. /\ \A h \in 0..MaxEntities : \A i, j \in 1..Len(items[h]') :
           items[h]'[i] = items[h]'[j] => i = j
      /\ \A h \in 0..MaxEntities, y \in Entity :
           In(y, h)' <=> \/ In(y, h)
                         \/ h = f /\ \E x \in selected : y = g[x]
                         \/ \E u, x \in Copied : h = g[u] /\ y = g[x] /\ In(x, u)
  BY DroppedLists
<1>6. Owned /\ f \in 0..MaxEntities /\ f \notin Range(g) /\ Live \subseteq Entity
  BY <1>2, OneOwned, FolderType, MaxType

(* Where an entity was, or its original. *)
<1>7. ASSUME NEW h \in 0..MaxEntities, NEW y \in Entity \ Range(g)
      PROVE  In(y, h)' <=> In(y, h)
  BY <1>2, <1>3, <1>5
<1>8. ASSUME NEW h \in 0..MaxEntities, NEW x \in Copied
      PROVE  In(g[x], h)' <=> \/ h = f /\ x \in selected
                              \/ \E u \in Copied : h = g[u] /\ In(x, u)
  <2>1. ~In(g[x], h)
    BY <1>2 DEF Shape
  <2>2. In(g[x], h)' <=> \/ h = f /\ \E z \in selected : g[x] = g[z]
                         \/ \E u, z \in Copied : h = g[u] /\ g[x] = g[z] /\ In(z, u)
    BY <1>2, <1>5, <2>1
  <2>3. \A z \in Copied : g[x] = g[z] <=> x = z
    BY <1>2
  <2>4. QED
    BY <1>3, <2>2, <2>3
<1>9. ASSUME NEW x \in Copied, NEW u \in Copied, In(x, u)
      PROVE  x \notin selected /\ u = Owner(x) /\ u \in Folder
  <2>1. u \in 0..MaxEntities /\ x \in Live /\ x \in Entity
    BY <1>3, MaxType
  <2>2. u = Owner(x) /\ u \in Folder
    BY <1>6, <1>9, <2>1 DEF Owned
  <2>3. QED
    BY <1>3, <2>2
<1>10. ASSUME NEW h \in 0..MaxEntities, NEW l \in 0..MaxEntities, NEW y \in Entity,
              In(y, h)', In(y, l)'
       PROVE  h = l
  <2>1. CASE y \in Range(g)
    <3>1. PICK x \in Copied : y = g[x]
      BY <1>2, <2>1
    <3>2. QED
      BY <1>8, <1>9, <1>10, <3>1
  <2>2. CASE y \notin Range(g)
    BY <1>7, <1>10, <2>2 DEF Shape
  <2>3. QED
    BY <2>1, <2>2
<1>11. ASSUME NEW h \in 0..MaxEntities, NEW y \in Entity, In(y, h)'
       PROVE  h \in Folder' /\ y \in Live'
  <2>1. CASE y \in Range(g)
    <3>1. PICK x \in Copied : y = g[x]
      BY <1>2, <2>1
    <3>2. CASE h = f /\ x \in selected
      BY <1>4, <2>1, <3>2
    <3>3. CASE \E u \in Copied : h = g[u] /\ In(x, u)
      BY <1>4, <1>9, <2>1, <3>3
    <3>4. QED
      BY <1>8, <1>11, <3>1, <3>2, <3>3
  <2>2. CASE y \notin Range(g)
    BY <1>4, <1>7, <1>11, <2>2 DEF Shape
  <2>3. QED
    BY <2>1, <2>2
<1>12. ASSUME NEW S \in SUBSET (0..MaxEntities), Root \in S, Closed(S)'
       PROVE  Live' \subseteq S
  <2>1. \A h \in S, y \in Entity : In(y, h)' => y \in S
    <3>1. ClosedMeans'
      BY ClosedIn, PTL
    <3>2. QED
      BY <1>12, <3>1, MaxType DEF ClosedMeans
  <2> DEFINE R == S \ Range(g)
  <2>2. R \in SUBSET (0..MaxEntities) /\ Root \in R
    BY <1>2, <1>12, MaxType
  <2>3. ASSUME NEW h \in R, NEW y \in Entity, In(y, h) PROVE y \in R
    <3>1. y \in Live /\ y \notin Range(g) /\ h \in 0..MaxEntities
      BY <1>2, <2>2, <2>3 DEF Shape
    <3>2. In(y, h)'
      BY <1>7, <2>3, <3>1
    <3>3. QED
      BY <2>1, <3>1, <3>2
  <2> HIDE DEF R
  <2>4. Closed(R)
    BY <2>2, <2>3, ClosedIn DEF ClosedMeans
  <2>5. Live \subseteq R
    BY <2>2, <2>4 DEF Shape
  <2>6. f \in S
    BY <1>12, <2>5, FolderType DEF R
  <2>7. \A x \in selected : g[x] \in S
    BY <1>2, <1>3, <1>6, <1>8, <2>1, <2>6
  (* Below each selected entity, the copy of a copied folder is in S, and *)
  (* so are the copies of its items.                                      *)
  <2>8. ASSUME NEW x \in Copied PROVE g[x] \in S
    <3>1. PICK z \in selected : x \in Subtree(z)
      BY DEF Copied
    <3> DEFINE Q == {u \in Copied : g[u] \in S}
    <3>2. Q \in SUBSET (0..MaxEntities) /\ z \in Q
      BY <1>3, <2>7, MaxType
    <3>3. ASSUME NEW h \in Q, NEW y \in Entity, In(y, h) PROVE y \in Q
      <4>1. y \in Copied /\ h \in Copied /\ g[h] \in S
        BY <1>3, <3>3
      <4>2. In(g[y], g[h])'
        BY <1>2, <1>8, <3>3, <4>1, MaxType
      <4>3. QED
        BY <1>2, <2>1, <4>1, <4>2
    <3> HIDE DEF Q
    <3>4. Closed(Q)
      BY <3>2, <3>3, ClosedIn DEF ClosedMeans
    <3>5. Subtree(z) \subseteq Q
      BY <3>2, <3>4, SubtreeLeast DEF Least
    <3>6. QED
      BY <3>1, <3>5 DEF Q
  <2>9. Live \subseteq S /\ Range(g) \subseteq S
    BY <1>2, <2>5, <2>8 DEF R
  <2>10. QED
    BY <1>4, <2>9, Zenon
<1>13. ASSUME NEW y \in Live' PROVE y <= created'
  <2>1. CASE y \in Range(g)
    BY <1>1, <1>2, <2>1
  <2>2. CASE y \in Live
    <3>1. y <= created /\ y \in Nat
      BY <1>6, <2>2 DEF Shape, Entity
    <3>2. QED
      BY <1>1, <1>2, <3>1
  <2>3. QED
    BY <1>4, <2>1, <2>2
<1>14. ASSUME NEW y \in Entity, y \notin Live' PROVE parent[y]' = Null
  BY <1>4, <1>14 DEF Shape
<1>15. Shape'
  BY <1>5, <1>10, <1>11, <1>12, <1>13, <1>14 DEF Shape
<1>16. ASSUME NEW h \in 0..MaxEntities, NEW y \in Live', In(y, h)'
       PROVE  parent[y]' = h \/ (nested' /\ parent[y]' = Null)
  <2>1. nested' = (nested \/ Copied # selected)
    BY DEF Dropped
  <2>2. CASE y \in Range(g)
    <3>1. PICK x \in Copied : y = g[x]
      BY <1>2, <2>2
    <3>2. CASE h = f /\ x \in selected
      BY <1>4, <3>1, <3>2
    <3>3. CASE \E u \in Copied : h = g[u] /\ In(x, u)
      <4>1. x \notin selected
        BY <1>9, <3>3
      <4>2. parent[y]' = Null /\ nested'
        BY <1>4, <2>1, <3>1, <4>1
      <4>3. QED
        BY <4>2
    <3>4. QED
      BY <1>2, <1>8, <1>16, <3>1, <3>2, <3>3
  <2>3. CASE y \notin Range(g)
    <3>1. y \in Live /\ y \in Entity /\ In(y, h)
      BY <1>4, <1>6, <1>7, <1>16, <2>3
    <3>2. parent[y]' = parent[y]
      BY <1>4, <2>3, <3>1
    <3>3. parent[y] = h \/ (nested /\ parent[y] = Null)
      BY <3>1 DEF Hanging
    <3>4. QED
      BY <2>1, <3>2, <3>3
  <2>4. QED
    BY <2>2, <2>3
<1>17. crashed' => nested'
  <2>1. /\ crashed' => \/ \E x \in selected : ParentFails(x)
                       \/ \E a \in Folder \ {Root} : ParentFails(a)
        /\ nested' = (nested \/ Copied # selected)
    BY DEF Dropped
  <2>2. crashed' => nested
    BY <1>3, <2>1, OnlyNested, FolderType
  <2>3. QED
    BY <2>1, <2>2
<1>18. QED
  BY <1>15, <1>16, <1>17 DEF Hanging

-----------------------------------------------------------------------------
(* The editor. *)

LEMMA SoleNoteFacts ==
  ASSUME NEW sel \in SUBSET Live
  PROVE  \/ SoleNote(sel) = Null
         \/ SoleNote(sel) \in sel /\ kind[SoleNote(sel)] = "note"
<1>1. IsFiniteSet(sel)
  <2>1. IsFiniteSet(Entity)
    BY MaxType, FS_Interval DEF Entity
  <2>2. sel \in SUBSET Entity
    BY FolderType
  <2>3. QED
    BY <2>1, <2>2, FS_Subset
<1>2. SUFFICES ASSUME Cardinality(sel) = 1, \A x \in sel : kind[x] = "note"
               PROVE  SoleNote(sel) \in sel /\ kind[SoleNote(sel)] = "note"
  BY Zenon DEF SoleNote
<1>3. \E x : sel = {x}
  BY <1>1, <1>2, FS_Singleton
<1>4. SoleNote(sel) \in sel
  BY <1>2, <1>3 DEF SoleNote
<1>5. QED
  BY <1>2, <1>4

LEMMA ShowNoteTypes ==
  ASSUME TypeOK, NEW n, n \in Entity \/ n = Null, ShowNote(n)
  PROVE  /\ text' \in [Entity -> BOOLEAN] /\ current' \in Entity \cup {Null} /\ editor' \in BOOLEAN
         /\ \A x \in Entity : text'[x] <=> IF x = current THEN editor ELSE text[x]
<1>1. /\ text \in [Entity -> BOOLEAN] /\ editor \in BOOLEAN /\ current \in Entity \cup {Null}
      /\ text' = IF current = Null THEN text ELSE [text EXCEPT ![current] = editor]
  BY DEF TypeOK, ShowNote
<1>2. Null \notin Entity
  BY MaxType
<1>3. text' \in [Entity -> BOOLEAN]
  BY <1>1
<1>4. ASSUME NEW x \in Entity PROVE text'[x] = IF x = current THEN editor ELSE text[x]
  BY <1>1, <1>2
<1>5. current' \in Entity \cup {Null} /\ editor' \in BOOLEAN
  BY Zenon DEF ShowNote
<1>6. QED
  BY <1>3, <1>4, <1>5, Zenon

(* What was typed is saved when the selection changes, if the note that is *)
(* shown then is there.                                                    *)
LEMMA ShownEdited ==
  ASSUME TypeOK, Edited, NEW n, ShowNote(n),
         n = Null \/ (n \in Live' /\ kind'[n] = "note"),
         typed' \ stale' \subseteq typed \ stale, typed' \subseteq Live'
  PROVE  Edited'
<1>1. n \in Entity \/ n = Null
  BY DEF Live
<1>2. \A x \in Entity : text'[x] <=> IF x = current THEN editor ELSE text[x]
  BY <1>1, ShowNoteTypes
<1>3. current' = n /\ (editor' <=> n # Null /\ text'[n])
  BY Zenon DEF ShowNote
<1>4. ASSUME NEW x \in typed' \ stale' PROVE text'[x]
  <2>1. x \in typed \ stale /\ x \in Entity
    BY DEF TypeOK
  <2>2. text[x] \/ (x = current /\ editor)
    BY <2>1 DEF Edited
  <2>3. current # Null => (text[current] => editor)
    BY DEF Edited
  <2>4. x # Null
    BY <2>1, MaxType
  <2>5. QED
    BY <1>2, <2>1, <2>2, <2>3, <2>4, Zenon
<1>5. current' # Null => kind'[current'] = "note" /\ (text'[current'] => editor')
  BY <1>3, Zenon
<1>6. QED
  BY <1>4, <1>5 DEF Edited

-----------------------------------------------------------------------------
(* The names. *)

LEMMA NamesType ==
  ASSUME NEW xs \in SUBSET Entity
  PROVE  Names(xs) \in [Entity -> Nat]
<1>1. ASSUME NEW n \in Entity PROVE Cardinality({x \in xs : name[x] = n}) \in Nat
  <2>1. IsFiniteSet(Entity)
    BY MaxType, FS_Interval DEF Entity
  <2>2. {x \in xs : name[x] = n} \in SUBSET Entity
    OBVIOUS
  <2>3. IsFiniteSet({x \in xs : name[x] = n})
    BY <2>1, <2>2, FS_Subset
  <2>4. QED
    BY <2>3, FS_CardinalityType
<1>2. QED
  BY <1>1 DEF Names

(* Two sets with the same names, one of them after a step. *)
LEMMA NamesEqual ==
  ASSUME NEW xs \in SUBSET Entity, NEW ys \in SUBSET Entity, NEW h \in [xs -> ys],
         \A x, y \in xs : h[x] = h[y] => x = y, \A y \in ys : \E x \in xs : h[x] = y,
         \A x \in xs : name'[h[x]] = name[x]
  PROVE  Names(ys)' = Names(xs)
<1>1. ASSUME NEW n \in Entity
      PROVE  Cardinality({y \in ys : name'[y] = n}) = Cardinality({x \in xs : name[x] = n})
  <2> DEFINE A == {x \in xs : name[x] = n}
             B == {y \in ys : name'[y] = n}
             b == [x \in A |-> h[x]]
  <2>1. b \in [A -> B] /\ \A x \in A : b[x] = h[x]
    OBVIOUS
  <2>2. \A x, y \in A : b[x] = b[y] => x = y
    BY <2>1
  <2>3. \A y \in B : \E x \in A : b[x] = y
    BY <2>1
  <2>4. IsFiniteSet(A)
    <3>1. A \in SUBSET Entity
      OBVIOUS
    <3>2. IsFiniteSet(Entity)
      BY MaxType, FS_Interval DEF Entity
    <3>3. QED
      BY <3>1, <3>2, FS_Subset
  <2> HIDE DEF A, B, b
  <2>5. b \in Bijection(A, B)
    <3>1. IsInjective(b)
      BY <2>1, <2>2 DEF IsInjective
    <3>2. QED
      BY <2>1, <2>3, <3>1 DEF Bijection, Injection, Surjection
  <2>6. ExistsBijection(A, B)
    BY <2>5 DEF ExistsBijection
  <2>7. Cardinality(B) = Cardinality(A)
    BY <2>4, <2>6, FS_Bijection
  <2>8. QED
    BY <2>7 DEF A, B
<1>2. QED
  BY <1>1 DEF Names

-----------------------------------------------------------------------------
(* The steps. *)

LEMMA NotesStart == Init => NotesInv
<1> SUFFICES ASSUME Init PROVE NotesInv
  OBVIOUS
<1>1. Live = {} /\ Folder = {Root}
  BY DEF Init, Live, Folder
<1>2. \A n \in Entity : NoGoal.names[n] = 0
  BY DEF NoGoal
<1>3. TypeOK
  <2>1. << >> \in Seq(Entity)
    OBVIOUS
  <2>2. goal.single \in BOOLEAN /\ goal.names \in [Entity -> Nat]
    BY DEF Init, NoGoal
  <2>3. /\ text \in [Entity -> BOOLEAN] /\ editor \in BOOLEAN /\ nested \in BOOLEAN
        /\ crashed \in BOOLEAN
    BY Zenon DEF Init
  <2>4. kind \in [Entity -> {"none", "note", "folder"}]
    BY DEF Init
  <2>5. items \in [0..MaxEntities -> Seq(Entity)]
    BY <2>1, Zenon DEF Init
  <2>6. parent \in [Entity -> 0..Null] /\ name \in [Entity -> Entity]
    BY MaxType DEF Init
  <2>7. created \in 0..MaxEntities /\ selected \subseteq Live /\ typed \subseteq Entity /\ stale \subseteq Entity
        /\ current \in Entity \cup {Null} /\ pc \in {"idle", "removing"}
    BY MaxType DEF Init
  <2>8. QED
    BY <2>2, <2>3, <2>4, <2>5, <2>6, <2>7 DEF TypeOK
<1>4. \A f \in 0..MaxEntities : items[f] = << >>
  BY DEF Init
<1>5. \A f \in 0..MaxEntities, x \in Entity : ~In(x, f)
  BY <1>4 DEF In, Range
<1>6. Shape
  BY <1>1, <1>4, <1>5 DEF Shape, Init
<1>7. Hanging /\ Edited /\ Aimed
  BY <1>1 DEF Init, Hanging, Edited, Aimed
<1>8. QED
  BY <1>3, <1>6, <1>7 DEF NotesInv

LEMMA SelectSafe ==
  ASSUME NotesInv, NEW sel \in SUBSET Live, Select(sel)
  PROVE  NotesInv'
<1>1. TypeOK /\ Shape /\ Hanging /\ Edited /\ Aimed
  BY DEF NotesInv
<1>2. UNCHANGED tree
  BY DEF Select
<1>3. /\ Shape' /\ (\A x : Owner(x)' = Owner(x)) /\ (\A x : Subtree(x)' = Subtree(x))
      /\ Live' = Live /\ Folder' = Folder /\ (\A xs : Names(xs)' = Names(xs))
  BY <1>1, <1>2, SameTree
<1>4. /\ kind' = kind /\ items' = items /\ parent' = parent /\ created' = created
      /\ name' = name /\ pc' = pc /\ typed' = typed /\ stale' = stale /\ goal' = goal
      /\ nested' = nested /\ selected' = sel /\ pc = "idle"
      /\ crashed' = \E x \in sel : ParentFails(x)
  BY DEF Select, tree, Idle
<1>5. PICK n : n = SoleNote(sel) /\ ShowNote(n)
  BY DEF Select
<1>6. n = Null \/ (n \in Live' /\ n \in Entity /\ kind'[n] = "note")
  BY <1>3, <1>4, <1>5, SoleNoteFacts, FolderType
<1>7. TypeOK'
  <2>1. text' \in [Entity -> BOOLEAN] /\ current' \in Entity \cup {Null} /\ editor' \in BOOLEAN
    BY <1>1, <1>5, <1>6, ShowNoteTypes
  <2>2. crashed' \in BOOLEAN
    BY <1>4, Zenon
  <2>3. QED
    BY <1>1, <1>3, <1>4, <2>1, <2>2 DEF TypeOK
<1>8. Hanging'
  <2>1. crashed' => nested
    BY <1>1, <1>4, OnlyNested
  <2>2. \A x, f : In(x, f)' <=> In(x, f)
    BY <1>4 DEF In
  <2>3. QED
    BY <1>1, <1>3, <1>4, <2>1, <2>2 DEF Hanging
<1>9. Edited'
  <2>1. typed' \ stale' \subseteq typed \ stale /\ typed' \subseteq Live'
    BY <1>1, <1>3, <1>4 DEF Edited
  <2>2. QED
    BY <1>1, <1>5, <1>6, <2>1, ShownEdited
<1>10. Aimed'
  BY <1>4 DEF Aimed
<1>11. QED
  BY <1>3, <1>7, <1>8, <1>9, <1>10 DEF NotesInv

LEMMA TypeSafe ==
  ASSUME NotesInv, Type
  PROVE  NotesInv'
<1>1. TypeOK /\ Shape /\ Hanging /\ Edited /\ Aimed
  BY DEF NotesInv
<1>2. UNCHANGED tree
  BY DEF Type
<1>3. /\ Shape' /\ (\A x : Owner(x)' = Owner(x)) /\ (\A x : Subtree(x)' = Subtree(x))
      /\ Live' = Live /\ Folder' = Folder /\ (\A xs : Names(xs)' = Names(xs))
  BY <1>1, <1>2, SameTree
<1>4. /\ kind' = kind /\ items' = items /\ parent' = parent /\ created' = created
      /\ name' = name /\ pc' = pc /\ typed' = typed \cup {current} /\ goal' = goal
      /\ nested' = nested /\ selected' = selected /\ pc = "idle" /\ crashed' = crashed
      /\ stale' = stale \ {current} /\ current' = current /\ current # Null
      /\ text' = [text EXCEPT ![current] = FALSE]
  BY DEF Type, tree, Idle
<1>5. editor' = TRUE
  BY DEF Type
<1>6. current \in Entity /\ kind[current] = "note" /\ current \in Live
  BY <1>1, <1>4 DEF TypeOK, Edited, Live
<1>7. TypeOK'
  <2>1. editor' \in BOOLEAN
    BY <1>5, Zenon
  <2>2. text' \in [Entity -> BOOLEAN]
    BY <1>1, <1>4, Zenon DEF TypeOK
  <2>3. QED
    BY <1>1, <1>3, <1>4, <1>6, <2>1, <2>2 DEF TypeOK
<1>8. Hanging'
  <2>1. \A x, f : In(x, f)' <=> In(x, f)
    BY <1>4 DEF In
  <2>2. QED
    BY <1>1, <1>3, <1>4, <2>1 DEF Hanging
<1>9. Edited'
  <2>1. typed' \subseteq Live'
    BY <1>1, <1>3, <1>4, <1>6 DEF Edited
  <2>2. ASSUME NEW x \in typed' \ stale', x # current PROVE text'[x]
    <3>1. x \in typed \ stale /\ x \in Entity
      BY <1>1, <1>4, <2>2 DEF TypeOK
    <3>2. text[x]
      BY <1>1, <2>2, <3>1 DEF Edited
    <3>3. text'[x] = text[x]
      BY <1>1, <1>4, <2>2, <3>1 DEF TypeOK
    <3>4. QED
      BY <3>2, <3>3
  <2>3. \A x \in typed' \ stale' : text'[x] \/ (x = current' /\ editor')
    BY <1>4, <1>5, <2>2, Zenon
  <2>4. current' # Null => kind'[current'] = "note" /\ (text'[current'] => editor')
    BY <1>4, <1>5, <1>6
  <2>5. QED
    BY <2>1, <2>3, <2>4 DEF Edited
<1>10. Aimed'
  BY <1>4 DEF Aimed
<1>11. QED
  BY <1>3, <1>7, <1>8, <1>9, <1>10 DEF NotesInv

LEMMA InsertSafe ==
  ASSUME NotesInv, NEW k \in {"note", "folder"}, Insert(k)
  PROVE  NotesInv'
<1>1. TypeOK /\ Shape /\ Hanging /\ Edited /\ Aimed
  BY DEF NotesInv
<1>2. PICK f : f \in Folder /\ New(k, f)
  <2>1. PICK f : f = (IF selected = {} THEN Root ELSE CHOOSE g \in Folder : selected = {g})
                 /\ New(k, f)
    BY DEF Insert
  <2>2. f \in Folder
    BY <2>1, FolderType DEF Insert
  <2>3. QED
    BY <2>1, <2>2
<1>3. /\ created < MaxEntities /\ selected' = {created'} /\ pc = "idle" /\ pc' = pc
      /\ name' = name /\ typed' = typed /\ stale' = stale /\ goal' = goal /\ nested' = nested
      /\ crashed' = crashed
  BY DEF Insert, Idle
<1>4. PICK n : n = (IF k = "note" THEN created' ELSE Null) /\ ShowNote(n)
  BY DEF Insert
<1>5. /\ created' = created + 1 /\ created' \in Entity /\ created' \notin Live
      /\ kind' = [kind EXCEPT ![created'] = k] /\ parent' = [parent EXCEPT ![created'] = f]
      /\ items' \in [0..MaxEntities -> Seq(Entity)]
      /\ \A g \in 0..MaxEntities, x \in Entity :
           In(x, g)' <=> In(x, g) \/ (g = f /\ x = created')
  BY <1>1, <1>2, <1>3, Inserted
<1>6. /\ kind'[created'] = k /\ parent'[created'] = f
      /\ \A x \in Entity : x # created' => kind'[x] = kind[x] /\ parent'[x] = parent[x]
  BY <1>1, <1>5 DEF TypeOK
<1>7. created' \in Live' /\ Live \subseteq Live' /\ Live' \subseteq Live \cup {created'}
  BY <1>5, <1>6 DEF Live
<1>8. n = Null \/ (n \in Live' /\ n \in Entity /\ kind'[n] = "note")
  BY <1>4, <1>5, <1>6, <1>7
<1>9. TypeOK'
  <2>1. text' \in [Entity -> BOOLEAN] /\ current' \in Entity \cup {Null} /\ editor' \in BOOLEAN
    BY <1>1, <1>4, <1>8, ShowNoteTypes
  <2>2. f \in 0..Null
    BY <1>2, FolderType, MaxType
  <2>3. /\ kind' \in [Entity -> {"none", "note", "folder"}]
        /\ parent' \in [Entity -> 0..Null]
        /\ created' \in 0..MaxEntities
    BY <1>1, <1>5, <2>2, MaxType DEF TypeOK
  <2>4. QED
    BY <1>1, <1>3, <1>5, <1>7, <2>1, <2>3 DEF TypeOK
<1>10. Shape'
  BY <1>1, <1>2, <1>3, <1>9, InsertedShape
<1>11. Hanging'
  <2>1. ASSUME NEW g \in 0..MaxEntities, NEW x \in Live', In(x, g)'
        PROVE  parent[x]' = g \/ (nested' /\ parent[x]' = Null)
    <3>1. x \in Entity
      BY DEF Live
    <3>2. CASE x = created'
      <4>1. ~In(x, g)
        BY <1>1, <1>5, <3>1, <3>2 DEF Shape
      <4>2. QED
        BY <1>5, <1>6, <2>1, <3>1, <3>2, <4>1
    <3>3. CASE x # created'
      <4>1. x \in Live /\ In(x, g) /\ parent'[x] = parent[x]
        BY <1>5, <1>6, <1>7, <2>1, <3>1, <3>3
      <4>2. QED
        BY <1>1, <1>3, <4>1 DEF Hanging
    <3>4. QED
      BY <3>2, <3>3
  <2>2. crashed' => nested'
    BY <1>1, <1>3 DEF Hanging
  <2>3. QED
    BY <2>1, <2>2 DEF Hanging
<1>12. Edited'
  <2>1. typed' \ stale' \subseteq typed \ stale /\ typed' \subseteq Live'
    BY <1>1, <1>3, <1>7 DEF Edited
  <2>2. QED
    BY <1>1, <1>4, <1>8, <2>1, ShownEdited
<1>13. Aimed'
  BY <1>3 DEF Aimed
<1>14. QED
  BY <1>9, <1>10, <1>11, <1>12, <1>13 DEF NotesInv
LEMMA RemoveSafe ==
  ASSUME NotesInv, NEW x \in selected, RemoveRow(x)
  PROVE  NotesInv'
<1>1. TypeOK /\ Shape /\ Hanging /\ Edited /\ Aimed
  BY DEF NotesInv
<1>2. /\ x \in Live /\ Least /\ Owned /\ Apart /\ selected \subseteq Live
      /\ Subtree(x) \subseteq Live /\ x \in Subtree(x)
  <2>1. x \in Live /\ Least /\ Owned /\ Apart /\ x \in 0..MaxEntities /\ selected \subseteq Live
    BY <1>1, OneOwned, NoCycle, SubtreeLeast, FolderType, MaxType DEF TypeOK
  <2>2. QED
    BY <2>1 DEF Least, Apart
<1>3. PICK n : n = SoleNote(selected \ Subtree(x)) /\ ShowNote(n)
  BY DEF RemoveRow, Freed
<1>4. /\ kind' = [y \in Entity |-> IF y \in Subtree(x) THEN "none" ELSE kind[y]]
      /\ parent' = [y \in Entity |-> IF y \in Subtree(x) THEN Null ELSE parent[y]]
      /\ name' = [y \in Entity |-> IF y \in Subtree(x) THEN y ELSE name[y]]
      /\ typed' = typed \ Subtree(x) /\ stale' = stale \ Subtree(x)
  BY Zenon DEF RemoveRow, Freed
<1>5. /\ created' = created /\ pc' = pc /\ pc = "removing" /\ goal' = goal /\ nested' = nested
      /\ crashed' = \E y \in selected : ParentFails(y)
  BY DEF RemoveRow
<1>6. PICK behind : selected' = ((selected \ Subtree(x)) \ behind) \cup Shifted(Owner(x), Row(x))
  BY Zenon DEF RemoveRow, Freed
<1>7. /\ items' \in [0..MaxEntities -> Seq(Entity)]
      /\ \A g \in 0..MaxEntities, y \in Entity :
           In(y, g)' <=> In(y, g) /\ g \notin Subtree(x) /\ y # x
      /\ Shifted(Owner(x), Row(x)) \subseteq Live \ Subtree(x)
      /\ selected = {x} => Shifted(Owner(x), Row(x)) = {}
  BY <1>1, Taken
<1>8. Live' = Live \ Subtree(x)
  BY <1>4 DEF Live
<1>9. n = Null \/ (n \in Live' /\ n \in Entity /\ kind'[n] = "note")
  <2>1. selected \ Subtree(x) \in SUBSET Live
    BY <1>2
  <2>2. n = Null \/ (n \in selected \ Subtree(x) /\ kind[n] = "note")
    BY <1>3, <2>1, SoleNoteFacts
  <2>3. ASSUME n \in selected \ Subtree(x), kind[n] = "note"
        PROVE  n \in Live' /\ n \in Entity /\ kind'[n] = "note"
    <3>1. n \in Live /\ n \in Entity /\ n \notin Subtree(x)
      BY <1>2, <2>3, FolderType
    <3>2. kind'[n] = kind[n]
      BY <1>4, <3>1
    <3>3. QED
      BY <1>8, <2>3, <3>1, <3>2
  <2>4. QED
    BY <2>2, <2>3
<1>10. TypeOK'
  <2>1. text' \in [Entity -> BOOLEAN] /\ current' \in Entity \cup {Null} /\ editor' \in BOOLEAN
    BY <1>1, <1>3, <1>9, ShowNoteTypes
  <2>2. crashed' \in BOOLEAN
    BY <1>5, Zenon
  <2>3. selected' \subseteq Live'
    BY <1>2, <1>6, <1>7, <1>8
  <2>4. /\ kind' \in [Entity -> {"none", "note", "folder"}]
        /\ parent' \in [Entity -> 0..Null] /\ name' \in [Entity -> Entity]
        /\ typed' \subseteq Entity /\ stale' \subseteq Entity
    <3>1. kind' \in [Entity -> {"none", "note", "folder"}]
      BY <1>1, <1>4 DEF TypeOK
    <3>2. parent' \in [Entity -> 0..Null]
      <4>1. parent \in [Entity -> 0..Null] /\ Null \in 0..Null
        BY <1>1, MaxType DEF TypeOK
      <4>2. QED
        BY <1>4, <4>1
    <3>3. name' \in [Entity -> Entity]
      BY <1>1, <1>4 DEF TypeOK
    <3>4. typed' \subseteq Entity /\ stale' \subseteq Entity
      BY <1>1, <1>4 DEF TypeOK
    <3>5. QED
      BY <3>1, <3>2, <3>3, <3>4
  <2>5. QED
    BY <1>1, <1>5, <1>7, <2>1, <2>2, <2>3, <2>4 DEF TypeOK
<1>11. Shape'
  BY <1>1, <1>10, TakenShape
<1>12. Hanging'
  <2>1. ASSUME NEW g \in 0..MaxEntities, NEW y \in Live', In(y, g)'
        PROVE  parent[y]' = g \/ (nested' /\ parent[y]' = Null)
    <3>1. y \in Entity /\ y \in Live /\ y \notin Subtree(x) /\ In(y, g)
      BY <1>7, <1>8, <2>1, FolderType
    <3>2. parent'[y] = parent[y]
      BY <1>4, <3>1
    <3>3. QED
      BY <1>1, <1>5, <3>1, <3>2 DEF Hanging
  <2>2. crashed' => nested'
    BY <1>1, <1>2, <1>5, OnlyNested
  <2>3. QED
    BY <2>1, <2>2 DEF Hanging
<1>13. Edited'
  <2>1. typed' \ stale' \subseteq typed \ stale /\ typed' \subseteq Live'
    BY <1>1, <1>4, <1>8 DEF Edited
  <2>2. QED
    BY <1>1, <1>3, <1>9, <2>1, ShownEdited
<1>14. Aimed'
  <2>1. SUFFICES ASSUME goal.single
                 PROVE  selected' = {} /\ goal.names = Names(Live)'
    BY <1>5 DEF Aimed
  <2>2. selected = {x} /\ goal.names = Names(Live \ Subtree(x))
    BY <1>1, <1>5, <2>1 DEF Aimed
  <2>3. selected' = {}
    BY <1>2, <1>6, <1>7, <2>2
  <2>4. Names(Live)' = Names(Live \ Subtree(x))
    <3>1. PICK xs : xs = Live \ Subtree(x) /\ xs \in SUBSET Entity /\ Live' = xs
      BY <1>8, FolderType
    <3> DEFINE h == [y \in xs |-> y]
    <3>2. /\ h \in [xs -> xs] /\ \A y, z \in xs : h[y] = h[z] => y = z
          /\ \A y \in xs : \E z \in xs : h[z] = y
      OBVIOUS
    <3>3. \A y \in xs : name'[h[y]] = name[y]
      BY <1>4, <3>1
    <3> HIDE DEF h
    <3>4. Names(xs)' = Names(xs)
      BY <3>1, <3>2, <3>3, NamesEqual
    <3>5. Names(Live)' = Names(xs)'
      BY <3>1 DEF Names
    <3>6. QED
      BY <3>1, <3>4, <3>5
  <2>5. QED
    BY <2>2, <2>3, <2>4
<1>15. QED
  BY <1>10, <1>11, <1>12, <1>13, <1>14 DEF NotesInv

(* The steps that leave the tree, the selection and the editor alone. *)
LEMMA StillSafe ==
  ASSUME NotesInv, UNCHANGED <<tree, text, selected, current, editor, typed, stale, nested, crashed>>,
         pc' \in {"idle", "removing"}, goal'.single \in BOOLEAN,
         goal'.names \in [Entity -> Nat], Aimed'
  PROVE  NotesInv'
<1>1. TypeOK /\ Shape /\ Hanging /\ Edited
  BY DEF NotesInv
<1>2. Shape' /\ Live' = Live
  BY <1>1, SameTree
<1>3. /\ kind' = kind /\ items' = items /\ parent' = parent /\ created' = created
      /\ name' = name /\ typed' = typed /\ stale' = stale /\ nested' = nested /\ selected' = selected
      /\ crashed' = crashed /\ text' = text /\ current' = current /\ editor' = editor
  BY DEF tree
<1>4. TypeOK'
  BY <1>1, <1>2, <1>3 DEF TypeOK
<1>5. Hanging'
  <2>1. \A x, f : In(x, f)' <=> In(x, f)
    BY <1>3 DEF In
  <2>2. QED
    BY <1>1, <1>2, <1>3, <2>1 DEF Hanging
<1>6. Edited'
  BY <1>1, <1>2, <1>3 DEF Edited
<1>7. QED
  BY <1>2, <1>4, <1>5, <1>6 DEF NotesInv

LEMMA DeleteSafe ==
  ASSUME NotesInv, Delete
  PROVE  NotesInv'
<1>1. TypeOK /\ Shape
  BY DEF NotesInv
<1>2. PICK xs : xs = Live \ UNION {Subtree(x) : x \in selected}
  OBVIOUS
<1>3. /\ goal' = [single |-> Cardinality(selected) = 1, names |-> Names(xs)]
      /\ pc' = "removing" /\ selected # {}
      /\ UNCHANGED <<tree, text, selected, current, editor, typed, stale, nested, crashed>>
  BY <1>2 DEF Delete
<1>4. xs \in SUBSET Entity /\ selected \subseteq Entity /\ selected \subseteq Live
  BY <1>1, <1>2, FolderType DEF TypeOK
<1>5. goal'.single \in BOOLEAN /\ goal'.names \in [Entity -> Nat]
  <2>1. goal'.single = (Cardinality(selected) = 1) /\ goal'.names = Names(xs)
    BY <1>3
  <2>2. QED
    BY <1>4, <2>1, NamesType, Zenon
<1>6. Aimed'
  <2>1. SUFFICES ASSUME Cardinality(selected) = 1
                 PROVE  \E x \in Live : selected = {x} /\ Names(xs) = Names(Live \ Subtree(x))
    <3>1. /\ Live' = Live /\ (\A x : Subtree(x)' = Subtree(x)) /\ selected' = selected
          /\ \A ys : Names(ys)' = Names(ys)
      BY <1>1, <1>3, SameTree
    <3>2. goal'.single <=> Cardinality(selected) = 1
      BY <1>3
    <3>3. goal'.names = Names(xs)
      BY <1>3
    <3>4. ASSUME NEW x \in Live, selected = {x}, Names(xs) = Names(Live \ Subtree(x))
          PROVE  x \in Live' /\ selected' = {x} /\ goal'.names = Names(Live \ Subtree(x))'
      <4>1. PICK ys : ys = Live \ Subtree(x) /\ ys = Live' \ Subtree(x)'
        BY <3>1
      <4>2. Names(Live \ Subtree(x))' = Names(ys)'
        BY <4>1 DEF Names
      <4>3. QED
        BY <3>1, <3>3, <3>4, <4>1, <4>2
    <3>5. QED
      BY <2>1, <3>2, <3>4 DEF Aimed
  <2>2. IsFiniteSet(selected)
    <3>1. IsFiniteSet(Entity)
      BY MaxType, FS_Interval DEF Entity
    <3>2. QED
      BY <1>4, <3>1, FS_Subset
  <2>3. PICK x : selected = {x}
    BY <2>1, <2>2, FS_Singleton
  <2>4. xs = Live \ Subtree(x)
    BY <1>2, <2>3
  <2>5. QED
    BY <1>4, <2>3, <2>4
<1>7. QED
  BY <1>3, <1>5, <1>6, StillSafe

LEMMA RemovedSafe ==
  ASSUME NotesInv, Removed
  PROVE  NotesInv'
<1>1. /\ pc' = "idle" /\ goal' = NoGoal
      /\ UNCHANGED <<tree, text, selected, current, editor, typed, stale, nested, crashed>>
  BY DEF Removed
<1>2. goal'.single \in BOOLEAN /\ goal'.names \in [Entity -> Nat]
  BY <1>1 DEF NoGoal
<1>3. Aimed'
  BY <1>1 DEF Aimed
<1>4. QED
  BY <1>1, <1>2, <1>3, StillSafe

LEMMA DropSafe ==
  ASSUME NotesInv, NEW f \in Folder, NEW row \in 1..Len(items[f]) + 1, NEW move \in BOOLEAN,
         Drop(f, row, move)
  PROVE  NotesInv'
<1>1. TypeOK /\ Shape /\ Hanging /\ Edited /\ Aimed
  BY DEF NotesInv
<1>2. PICK g : Dropped(f, row, move, g)
  BY <1>1, DropIs
<1>3. /\ Fresh(g) /\ created + Cardinality(Copied) <= MaxEntities
      /\ created' = created + Cardinality(Copied)
      /\ selected # {} /\ pc = "idle"
      /\ typed' = typed \cup {g[x] : x \in Copied \cap typed}
      /\ stale' = stale \cup {g[x] : x \in Copied \cap (stale \cup Unsaved)}
      /\ pc' = (IF move THEN "removing" ELSE "idle")
      /\ goal' = IF move THEN [single |-> TRUE, names |-> Names(Live)] ELSE goal
      /\ move => Cardinality(selected) = 1
      /\ selected' = selected /\ current' = current /\ editor' = editor
      /\ move => f \notin Copied
  BY <1>2 DEF Dropped, DroppedTree, Idle
<1>4. /\ Range(g) \subseteq Entity /\ Range(g) \cap Live = {}
      /\ \A x \in Copied : g[x] \in Range(g) /\ g[x] \in Entity /\ Originals(g)[g[x]] = x
      /\ \A y \in Range(g) : \E x \in Copied : y = g[x]
      /\ \A x, y \in Copied : g[x] = g[y] => x = y
      /\ created \in Nat /\ Cardinality(Copied) \in Nat
  BY <1>1, <1>3, FreshFacts
<1>5. /\ Live' = Live \cup Range(g)
      /\ \A x \in Copied : /\ kind[g[x]]' = kind[x] /\ name[g[x]]' = name[x]
                           /\ text[g[x]]' = text[x]
      /\ \A y \in Entity \ Range(g) : /\ kind[y]' = kind[y] /\ name[y]' = name[y]
                                      /\ text[y]' = text[y]
  BY <1>1, <1>2, DroppedKinds
<1>6. /\ items' \in [0..MaxEntities -> Seq(Entity)]
      /\ \A h \in 0..MaxEntities, y \in Entity :
           In(y, h)' <=> \/ In(y, h)
                         \/ h = f /\ \E x \in selected : y = g[x]
                         \/ \E u, x \in Copied : h = g[u] /\ y = g[x] /\ In(x, u)
  BY <1>1, <1>2, DroppedLists
<1>7. /\ selected \subseteq Copied /\ Copied \subseteq Live /\ Copied \subseteq Entity
      /\ Live \subseteq Entity
  BY <1>1, CopiedFacts, FolderType
<1>8. goal'.single \in BOOLEAN /\ goal'.names \in [Entity -> Nat]
  <2>1. CASE move
    <3>1. goal'.single = TRUE /\ goal'.names = Names(Live)
      BY <1>3, <2>1
    <3>2. QED
      BY <1>7, <3>1, NamesType, Zenon
  <2>2. CASE ~move
    BY <1>1, <1>3, <2>2 DEF TypeOK
  <2>3. QED
    BY <2>1, <2>2
<1>9. TypeOK'
  <2>1. Range(g) \subseteq Entity /\ \A y \in Range(g) : Originals(g)[y] \in Entity
    BY <1>4, <1>7
  <2>2. kind' \in [Entity -> {"none", "note", "folder"}]
    BY <1>1, <1>2, <2>1 DEF Dropped, DroppedTree, TypeOK
  <2>3. name' \in [Entity -> Entity]
    BY <1>1, <1>2, <2>1 DEF Dropped, DroppedTree, TypeOK
  <2>4. parent' \in [Entity -> 0..Null]
    <3>1. f \in 0..Null
      BY FolderType, MaxType
    <3>2. QED
      BY <1>1, <1>2, <3>1 DEF Dropped, DroppedTree, TypeOK
  <2>5. text' \in [Entity -> BOOLEAN]
    BY <1>1, <1>2, <2>1 DEF Dropped, TypeOK
  <2>6. nested' \in BOOLEAN /\ crashed' \in BOOLEAN
    BY <1>2, Zenon DEF Dropped
  <2>7. created' \in 0..MaxEntities
    BY <1>3, <1>4, MaxType
  <2>8. typed' \subseteq Entity /\ stale' \subseteq Entity
    BY <1>1, <1>3, <1>4 DEF TypeOK
  <2>9. selected' \subseteq Live'
    BY <1>3, <1>5, <1>7
  <2>10. QED
    BY <1>1, <1>3, <1>6, <1>8, <2>2, <2>3, <2>4, <2>5, <2>6, <2>7, <2>8, <2>9 DEF TypeOK
<1>10. Shape' /\ Hanging'
  BY <1>1, <1>2, <1>9, DroppedShape
<1>11. Edited'
  <2>1. typed' \subseteq Live'
    BY <1>1, <1>3, <1>4, <1>5 DEF Edited
  <2>2. ASSUME NEW x \in typed' \ stale' PROVE text'[x] \/ (x = current' /\ editor')
    <3>1. CASE x \in typed
      <4>1. x \in Live /\ x \in Entity \ Range(g) /\ x \notin stale
        BY <1>1, <1>3, <1>4, <1>7, <2>2, <3>1 DEF Edited
      <4>2. text[x] \/ (x = current /\ editor)
        BY <1>1, <3>1, <4>1 DEF Edited
      <4>3. QED
        BY <1>3, <1>5, <4>1, <4>2
    <3>2. CASE x \notin typed
      <4>1. PICK z \in Copied \cap typed : x = g[z]
        BY <1>3, <2>2, <3>2
      <4>2. z \notin stale /\ z \notin Unsaved
        BY <1>3, <2>2, <4>1
      <4>3. text[z]
        BY <1>1, <4>1, <4>2 DEF Edited, Unsaved
      <4>4. QED
        BY <1>4, <1>5, <4>1, <4>3
    <3>3. QED
      BY <3>1, <3>2
  <2>3. ASSUME current' # Null
        PROVE  kind'[current'] = "note" /\ (text'[current'] => editor')
    <3>1. current \in Entity /\ kind[current] = "note" /\ (text[current] => editor)
      BY <1>1, <1>3, <2>3 DEF Edited, TypeOK
    <3>2. current \in Entity \ Range(g)
      BY <1>4, <3>1 DEF Live
    <3>3. QED
      BY <1>3, <1>5, <3>1, <3>2
  <2>4. QED
    BY <2>1, <2>2, <2>3 DEF Edited
<1>12. Aimed'
  <2>1. SUFFICES ASSUME move, Cardinality(selected) = 1
                 PROVE  \E x \in Live : selected = {x} /\ Names(Live \ Subtree(x))' = Names(Live)
    <3>1. pc' = "removing" => move
      BY <1>3
    <3>2. move => Cardinality(selected) = 1 /\ goal'.names = Names(Live)
      BY <1>3
    <3>3. QED
      BY <1>3, <1>5, <2>1, <3>1, <3>2 DEF Aimed
  <2>2. PICK x : selected = {x} /\ x \in Live
    <3>1. IsFiniteSet(Entity)
      BY MaxType, FS_Interval DEF Entity
    <3>2. IsFiniteSet(selected)
      BY <1>7, <3>1, FS_Subset
    <3>3. \E y : selected = {y}
      BY <2>1, <3>2, FS_Singleton
    <3>4. QED
      BY <1>7, <3>3
  <2>3. Copied = Subtree(x) /\ x \in 0..MaxEntities
    BY <1>7, <2>2, MaxType DEF Copied
  (* The dropped copy is not below x. *)
  <2>4. Subtree(x)' = Subtree(x)
    <3>1. Least /\ Least'
      <4>1. Least'
        BY <1>9, SubtreeLeast, PTL
      <4>2. QED
        BY <1>1, <4>1, SubtreeLeast
    <3>2. /\ Subtree(x) \in SUBSET (0..MaxEntities) /\ x \in Subtree(x)
          /\ \A S \in SUBSET (0..MaxEntities) : x \in S /\ Closed(S) => Subtree(x) \subseteq S
      BY <2>3, <3>1 DEF Least
    <3>3. /\ Subtree(x)' \in SUBSET (0..MaxEntities) /\ x \in Subtree(x)' /\ Closed(Subtree(x))'
          /\ \A S \in SUBSET (0..MaxEntities) : x \in S /\ Closed(S)' => Subtree(x)' \subseteq S
      BY <2>3, <3>1 DEF Least
    <3>4. ClosedMeans /\ ClosedMeans'
      <4>1. ClosedMeans'
        BY <1>9, ClosedIn, PTL
      <4>2. QED
        BY <1>1, <4>1, ClosedIn
    <3>5. \A h \in Copied, y \in Entity : In(y, h)' => y \in Copied
      <4>1. ASSUME NEW h \in Copied, NEW y \in Entity, In(y, h)' PROVE y \in Copied
        <5>1. h \in 0..MaxEntities /\ h \notin Range(g)
          BY <1>4, <1>7, MaxType
        <5>2. h # f
          BY <1>3, <2>1
        <5>3. In(y, h)
          BY <1>4, <1>6, <4>1, <5>1, <5>2
        <5>4. QED
          BY <1>1, <5>3, CopiedFacts
      <4>2. QED
        BY <4>1
    <3>6. PICK C : C = Subtree(x)
      OBVIOUS
    <3>7. Subtree(x)' \subseteq C
      <4>1. C \in SUBSET (0..MaxEntities) /\ x \in C
        BY <3>2, <3>6
      <4>2. Closed(C)'
        BY <2>3, <3>4, <3>5, <3>6, <4>1 DEF ClosedMeans
      <4>3. QED
        BY <3>3, <4>1, <4>2
    <3>8. PICK S : S = Subtree(x)' /\ Closed(S)'
      BY <3>3 DEF Closed
    <3>9. \A h \in S, y \in Entity : In(y, h) => y \in S
      <4>1. \A h \in S, y \in Entity : In(y, h)' => y \in S
        BY <3>3, <3>4, <3>8 DEF ClosedMeans
      <4>2. QED
        BY <1>6, <3>3, <3>8, <4>1
    <3>10. Closed(S)
      BY <3>3, <3>4, <3>8, <3>9 DEF ClosedMeans
    <3>11. Subtree(x) \subseteq S
      BY <3>2, <3>3, <3>8, <3>10
    <3>12. QED
      BY <3>6, <3>7, <3>8, <3>11
  <2>5. Live' \ Subtree(x)' = (Live \ Copied) \cup Range(g)
    BY <1>4, <1>5, <1>7, <2>3, <2>4
  <2>6. Names(Live \ Subtree(x))' = Names(Live)
    <3>0. PICK ys : ys = (Live \ Copied) \cup Range(g) /\ ys = Live' \ Subtree(x)'
      BY <2>5
    <3> DEFINE h == [y \in Live |-> IF y \in Copied THEN g[y] ELSE y]
    <3>1. Live \in SUBSET Entity /\ ys \in SUBSET Entity
      BY <1>4, <1>7, <3>0
    <3>2. h \in [Live -> ys]
      BY <1>4, <3>0
    <3>3. \A y, z \in Live : h[y] = h[z] => y = z
      BY <1>4
    <3>4. \A y \in ys : \E z \in Live : h[z] = y
      BY <1>4, <1>7, <3>0
    <3>5. \A y \in Live : name'[h[y]] = name[y]
      BY <1>4, <1>5, <1>7
    <3> HIDE DEF h
    <3>6. Names(ys)' = Names(Live)
      BY <3>1, <3>2, <3>3, <3>4, <3>5, NamesEqual
    <3>7. Names(Live \ Subtree(x))' = Names(ys)'
      BY <3>0 DEF Names
    <3>8. QED
      BY <3>6, <3>7
  <2>7. QED
    BY <2>2, <2>6
<1>13. QED
  BY <1>9, <1>10, <1>11, <1>12 DEF NotesInv

-----------------------------------------------------------------------------
(* The theorems about the notes. *)

(* Whatever the user does in the window of treeview, the tree of notes, the *)
(* selection and the editor stay as NotesInv says.                          *)
THEOREM NotesInvariance == Spec => []NotesInv
<1>1. NotesInv /\ [Next]_vars => NotesInv'
  <2> SUFFICES ASSUME NotesInv, [Next]_vars PROVE NotesInv'
    OBVIOUS
  <2>1. CASE \E sel \in SUBSET Live : Cardinality(sel) <= MaxSelected /\ Select(sel)
    BY <2>1, SelectSafe
  <2>2. CASE Type
    BY <2>2, TypeSafe
  <2>3. CASE Delete
    BY <2>3, DeleteSafe
  <2>4. CASE Removed
    BY <2>4, RemovedSafe
  <2>5. CASE \E k \in {"note", "folder"} : Insert(k)
    BY <2>5, InsertSafe
  <2>6. CASE \E x \in selected : RemoveRow(x)
    BY <2>6, RemoveSafe
  <2>7. CASE \E f \in Folder, move \in BOOLEAN :
               \E row \in 1..Len(items[f]) + 1 : Drop(f, row, move)
    BY <2>7, DropSafe
  <2>8. CASE UNCHANGED vars
    <3>1. /\ UNCHANGED <<tree, text, selected, current, editor, typed, stale, nested, crashed>>
          /\ pc' = pc /\ goal' = goal
      BY <2>8 DEF vars, tree
    <3>2. TypeOK /\ Shape /\ Aimed
      BY DEF NotesInv
    <3>3. /\ Live' = Live /\ (\A x : Subtree(x)' = Subtree(x)) /\ selected' = selected
          /\ \A xs : Names(xs)' = Names(xs)
      BY <3>1, <3>2, SameTree
    <3>4. Aimed'
      <4>1. SUFFICES ASSUME pc = "removing", goal.single,
                            NEW x \in Live, selected = {x}, goal.names = Names(Live \ Subtree(x))
                     PROVE  x \in Live' /\ selected' = {x}
                            /\ goal'.names = Names(Live \ Subtree(x))'
        BY <3>1, <3>2, <3>3 DEF Aimed
      <4>2. PICK xs : xs = Live \ Subtree(x) /\ xs = Live' \ Subtree(x)'
        BY <3>3
      <4>3. Names(Live \ Subtree(x))' = Names(xs)'
        BY <4>2 DEF Names
      <4>4. QED
        BY <3>1, <3>3, <4>1, <4>2, <4>3
    <3>5. QED
      BY <3>1, <3>2, <3>4, StillSafe DEF TypeOK
  <2>9. QED
    BY <2>1, <2>2, <2>3, <2>4, <2>5, <2>6, <2>7, <2>8 DEF Next
<1>2. QED
  BY <1>1, NotesStart, PTL DEF Spec

(* Every note and folder is in exactly one list, once, and hangs from the  *)
(* root: insertRows(), removeRows() and dropMimeData() together share and  *)
(* lose nothing that unique_ptr owns.                                      *)
THEOREM OneOwnerCorrect == Spec => []OneOwner
<1>1. NotesInv => OneOwner
  <2> SUFFICES ASSUME NotesInv PROVE OneOwner
    OBVIOUS
  <2>1. TypeOK /\ Shape
    BY DEF NotesInv
  <2>2. Live = Subtree(Root) \ {Root}
    <3>1. /\ Root \in 0..MaxEntities /\ Least /\ ClosedMeans
          /\ Live \cup {Root} \in SUBSET (0..MaxEntities) /\ Root \notin Live
      BY <2>1, SubtreeLeast, ClosedIn, FolderType, MaxType
    <3>2. /\ Subtree(Root) \in SUBSET (0..MaxEntities) /\ Root \in Subtree(Root)
          /\ Closed(Subtree(Root))
          /\ \A S \in SUBSET (0..MaxEntities) : Root \in S /\ Closed(S) => Subtree(Root) \subseteq S
      BY <3>1 DEF Least
    <3>3. Live \subseteq Subtree(Root)
      BY <2>1, <3>2 DEF Shape
    <3>4. Closed(Live \cup {Root})
      BY <2>1, <3>1 DEF ClosedMeans, Shape
    <3>5. Subtree(Root) \subseteq Live \cup {Root}
      BY <3>1, <3>2, <3>4
    <3>6. QED
      BY <3>1, <3>3, <3>5
  <2>3. ASSUME NEW x \in Live
        PROVE  Cardinality({f \in 0..MaxEntities : x \in Range(items[f])}) = 1
    <3>1. {f \in 0..MaxEntities : x \in Range(items[f])} = {Owner(x)}
      BY <2>1, OneOwned, FolderType DEF Owned, In
    <3>2. QED
      BY <3>1, FS_Singleton
  <2>4. ASSUME NEW f \in Folder PROVE Cardinality(Range(items[f])) = Len(items[f])
    <3>1. PICK q : /\ q = items[f] /\ q \in Seq(Entity) /\ Len(q) \in Nat /\ DOMAIN q = 1..Len(q)
                   /\ IsInjective(q)
      BY <2>1, InType, FolderType DEF Shape, IsInjective
    <3>2. q \in Bijection(1..Len(q), Range(q))
      BY <3>1 DEF Bijection, Injection, Surjection, Range
    <3>3. IsFiniteSet(1..Len(q)) /\ Cardinality(1..Len(q)) = Len(q)
      BY <3>1, FS_Interval
    <3>4. ExistsBijection(1..Len(q), Range(q))
      BY <3>2 DEF ExistsBijection
    <3>5. Cardinality(Range(q)) = Len(q)
      BY <3>3, <3>4, FS_Bijection
    <3>6. QED
      BY <3>1, <3>5
  <2>5. QED
    BY <2>1, <2>2, <2>3, <2>4 DEF OneOwner
<1>2. QED
  BY <1>1, NotesInvariance, PTL

(* parent() finds the folder an entity is in, unless a folder was dropped  *)
(* with items in it, which come without a parent.                          *)
THEOREM ParentPointersCorrect == Spec => []ParentPointers
<1>1. NotesInv => ParentPointers
  <2> SUFFICES ASSUME NotesInv PROVE ParentPointers
    OBVIOUS
  <2>1. TypeOK /\ Shape /\ Hanging /\ Owned
    BY OneOwned DEF NotesInv
  <2>2. QED
    BY <2>1, FolderType DEF Owned, Hanging, ParentPointers
<1>2. QED
  BY <1>1, NotesInvariance, PTL

(* With one row selected, on_deleteButton_clicked() and a drag leave what  *)
(* they should: nothing is lost or there twice.                            *)
THEOREM SingleExactCorrect == Spec => []SingleExact
<1>1. NotesInv => SingleExact
  BY DEF NotesInv, Aimed, SingleExact
<1>2. QED
  BY <1>1, NotesInvariance, PTL

(* What was typed is in the note or in the editor, and in the copies of    *)
(* the note but for those that a drag makes of the note in the editor      *)
(* before its text was saved; and the editor never saves to a note that    *)
(* has been destroyed.                                                     *)
THEOREM EditsKeptCorrect == Spec => []EditsKept
<1>1. NotesInv => EditsKept
  BY DEF NotesInv, Edited, EditsKept
<1>2. QED
  BY <1>1, NotesInvariance, PTL
=============================================================================
