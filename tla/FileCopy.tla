------------------------------ MODULE FileCopy ------------------------------
(***************************************************************************)
(* gui-progress: a window (copywidget.cpp) that has a file copied by an    *)
(* object in a thread of its own (filecopier.cpp).  The window asks for a  *)
(* copy by a queued call and sets the copier's flag directly; the copier   *)
(* reports by signals, which wait in the window's event loop in their      *)
(* order.                                                                  *)
(***************************************************************************)
EXTENDS Naturals, Sequences, SequencesExt

CONSTANTS
  Sources,   \* bound: the files to copy, by size() and the blocks that are read
  MaxRuns    \* bound: clicks on Run

ASSUME CopyAssumption ==
  Sources \subseteq [size : Nat, blocks : Nat] /\ Sources # {} /\ MaxRuns \in Nat

VARIABLES
  window,      \* "open", "closed" (in its destructor) or "gone"
  running_,
  button,      \* the Run/Cancel button is enabled
  box,         \* the result in the message box, "none" if it is not shown
  bar,         \* the value of the progress bar
  events,      \* signals on their way to the window
  asked,       \* copyFile() calls on their way to the copier
  copier,      \* "idle", "copying" or "ending" (the loop has been left)
  cancelled_,
  source,      \* the file that is copied
  copied,      \* blocks written
  progress,    \* the percentage emitted last
  failed,      \* the loop was left by a failed read
  runs,        \* clicks on Run so far
  wished       \* history: Cancel was clicked in this run

copyVars == <<window, running_, button, box, bar, events, asked, copier, cancelled_, source,
          copied, progress, failed, runs, wished>>
gui == <<window, running_, button, box, bar, asked, cancelled_, runs, wished>>
file == <<copier, source, copied, progress, failed>>

Results == {"copied", "cancelled", "failed"}
Percent == (100 * (copied + 1)) \div source.size

CopyTypeOK ==
  /\ window \in {"open", "closed", "gone"} /\ {running_, button, cancelled_, failed, wished} \subseteq BOOLEAN
  /\ box \in Results \cup {"none"} /\ bar \in Nat
  /\ events \in Seq([progress : Nat] \cup [done : Results])
  /\ asked \in 0..1 /\ copier \in {"idle", "copying", "ending", "crashed"}
  /\ source \in Sources /\ copied \in 0..source.blocks /\ progress \in Nat /\ runs \in 0..MaxRuns

CopyInit ==
  /\ window = "open" /\ running_ = FALSE /\ button = TRUE /\ box = "none" /\ bar = 0
  /\ events = << >> /\ asked = 0 /\ copier = "idle" /\ cancelled_ = FALSE
  /\ source \in Sources /\ copied = 0 /\ progress = 0 /\ failed = FALSE
  /\ runs = 0 /\ wished = FALSE

-----------------------------------------------------------------------------
(* The window.  Its message box keeps the user from everything else. *)

Usable == window = "open" /\ box = "none" /\ copier # "crashed"

FlagKept == cancelled_   \* mutant: not reset
FlagReset == FALSE       \* setCancelled(false)

ClickRun ==
  /\ Usable /\ button /\ ~running_ /\ runs < MaxRuns
  /\ cancelled_' = FlagReset /\ asked' = asked + 1 /\ running_' = TRUE
  /\ runs' = runs + 1 /\ wished' = FALSE
  /\ UNCHANGED <<window, button, box, bar, events>> /\ UNCHANGED file

StoppedAtOnce == FALSE   \* mutant: the copy is taken to be over
StillRunning == running_

(* Cancel; closeEvent() clicks it too when a copy runs, and does not close. *)
ClickCancel ==
  /\ Usable /\ button /\ running_
  /\ button' = FALSE /\ cancelled_' = TRUE /\ wished' = TRUE
  /\ running_' = StillRunning
  /\ UNCHANGED <<window, box, bar, events, asked, runs>> /\ UNCHANGED file

(* closeEvent() when no copy runs. *)
Close ==
  /\ Usable /\ ~running_
  /\ window' = "closed"
  /\ UNCHANGED <<running_, button, box, bar, events, asked, cancelled_, runs, wished>>
  /\ UNCHANGED file

(* The destructor has waited for the thread. *)
Destroyed ==
  /\ window = "closed" /\ copier = "idle"
  /\ window' = "gone"
  /\ UNCHANGED <<running_, button, box, bar, events, asked, cancelled_, runs, wished>>
  /\ UNCHANGED file

(* QProgressBar ignores what is outside of its range. *)
Shown(percent) == IF percent <= 100 THEN percent ELSE bar

(* The event loop, also the message box's own, takes the next signal. *)
Deliver ==
  /\ window = "open" /\ events # << >> /\ copier # "crashed"
  /\ events' = Tail(events)
  /\ IF "done" \in DOMAIN Head(events)
     THEN box' = Head(events).done /\ UNCHANGED bar
     ELSE bar' = Shown(Head(events).progress) /\ UNCHANGED box
  /\ UNCHANGED <<window, running_, button, asked, cancelled_, runs, wished>>
  /\ UNCHANGED file

(* The rest of done(), after the user has dismissed the box. *)
Dismiss ==
  /\ box # "none"
  /\ box' = "none" /\ button' = TRUE /\ running_' = FALSE
  /\ UNCHANGED <<window, bar, events, asked, cancelled_, runs, wished>>
  /\ UNCHANGED file

-----------------------------------------------------------------------------
(* copyFile(), in the copier's thread *)

Emit(es) == events' = events \o es
FailSilently == UNCHANGED events   \* mutant: no done()
FailWith == Emit(<<[done |-> "failed"]>>)

Begin ==
  /\ copier = "idle" /\ asked > 0 /\ window # "gone"
  /\ asked' = asked - 1 /\ source' \in Sources
  /\ copied' = 0 /\ progress' = 0 /\ failed' = FALSE
  /\ \/ copier' = "idle" /\ FailWith     \* a file is not opened
     \/ copier' = "copying" /\ Emit(<<[progress |-> 0]>>)
  /\ UNCHANGED <<window, running_, button, box, bar, cancelled_, runs, wished>>

(* A block is read, found not to be cancelled and written.  A file that    *)
(* tells no size divides by zero.  What QFile still holds back is written  *)
(* when copyFile() returns, and a failure then is not noticed.             *)
CopyBlock ==
  /\ copier = "copying" /\ copied < source.blocks /\ ~cancelled_
  /\ IF source.size = 0 THEN copier' = "crashed" /\ UNCHANGED <<copied, progress, events>>
     ELSE /\ copied' = copied + 1 /\ UNCHANGED copier
          /\ IF Percent # progress THEN progress' = Percent /\ Emit(<<[progress |-> Percent]>>)
             ELSE UNCHANGED <<progress, events>>
  /\ UNCHANGED <<source, failed>> /\ UNCHANGED gui

WriteFails ==
  /\ copier = "copying" /\ copied < source.blocks /\ ~cancelled_
  /\ copier' = "idle" /\ FailWith
  /\ UNCHANGED <<source, copied, progress, failed>> /\ UNCHANGED gui

(* The loop is left: at the end, by a failed read, or cancelled. *)
LeaveLoop ==
  /\ copier = "copying" /\ copier' = "ending"
  /\ \/ copied = source.blocks /\ failed' = FALSE
     \/ failed' = TRUE
     \/ copied < source.blocks /\ cancelled_ /\ failed' = FALSE
  /\ UNCHANGED <<source, copied, progress, events>> /\ UNCHANGED gui

Result == IF cancelled_ THEN "cancelled" ELSE IF failed THEN "failed" ELSE "copied"

Finish ==
  /\ copier = "ending" /\ copier' = "idle"
  /\ Emit(<<[done |-> Result]>>)
  /\ UNCHANGED <<source, copied, progress, failed>> /\ UNCHANGED gui

Worker == Begin \/ CopyBlock \/ WriteFails \/ LeaveLoop \/ Finish
CopyNext == ClickRun \/ ClickCancel \/ Close \/ Destroyed \/ Deliver \/ Dismiss \/ Worker

CopySpec == CopyInit /\ [][CopyNext]_copyVars

(* Both threads run their event loops; the user need not do anything. *)
FairSpec == CopySpec /\ WF_copyVars(Worker) /\ WF_copyVars(Deliver) /\ WF_copyVars(Destroyed)

-----------------------------------------------------------------------------
(* Properties *)

Reported(r) == box = r \/ Contains(events, [done |-> r])

(* A copy that the window takes to be running is in exactly one place: on  *)
(* its way to the copier, being made, or reported and not dismissed; and   *)
(* there is none when the window closes.                                   *)
OneCopy ==
  LET at == {x \in {"asked", "made", "told"} :
               \/ x = "asked" /\ asked > 0
               \/ x = "made" /\ copier # "idle"
               \/ x = "told" /\ \E r \in Results : Reported(r)}
  IN /\ CopyTypeOK
     /\ IF running_ THEN \E x \in at : at = {x} ELSE at = {}

(* What the user is told is true: of success when every block is written,  *)
(* even if a cancel came too late; of a cancel only after one in this run. *)
(* With success the bar has come to its end, if there was anything to copy *)
(* and the size was right; no older signal comes after a result.           *)
ResultTrue ==
  /\ Reported("copied") => copied = source.blocks
  /\ Reported("cancelled") => wished
  /\ box = "copied" /\ source.size = source.blocks /\ source.size > 0 => bar = 100
  /\ \A i \in DOMAIN events : "done" \in DOMAIN events[i] => i = Len(events)

(* Every copy comes to a result that is shown, unless it divided by zero. *)
CopyIsReported == running_ ~> box # "none" \/ copier = "crashed"
=============================================================================
