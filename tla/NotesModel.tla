----------------------------- MODULE NotesModel -----------------------------
(***************************************************************************)
(* The tree of notes of treeview: NotesModel (notesmodel.cpp) over the     *)
(* entities of notes.hpp, and the window that selects, inserts, edits,     *)
(* drags and deletes them (mainwindow.cpp).                                *)
(*                                                                         *)
(* Entities are numbered in the order of their creation; 0 is the root     *)
(* folder.  A row is a position in the list of its folder, from 1.  The    *)
(* selection is Qt's: persistent indexes, which Qt moves when rows are     *)
(* inserted or removed in front of them.  moveRows(), which the program    *)
(* never calls, is left out, and so is a drag that moves several rows at   *)
(* once, after which Qt removes the ranges of a copy of the selection.     *)
(***************************************************************************)
EXTENDS Naturals, Sequences, FiniteSets, SequencesExt

CONSTANTS
  MaxEntities,  \* bound: entities ever created
  MaxSelected   \* bound: rows the user selects at a time

ASSUME EntitiesAssumption == MaxEntities \in Nat \ {0} /\ MaxSelected \in Nat

VARIABLES
  kind,      \* of each entity: "none" (not there), "note" or "folder"
  items,     \* items_ of each folder
  parent,    \* parent_ of each entity
  text,      \* whether text_ is what was typed last
  created,   \* entities created so far
  selected,  \* the selected entities
  current,   \* currentNote
  editor,    \* whether the text editor holds typed text
  pc,        \* "idle", or "removing" inside a delete or after a drop
  name,      \* history: the entity that each entity is a copy of
  typed,     \* history: notes that text was typed into, and their copies
  stale,     \* history: copies made without the text typed last
  goal,      \* history: the names that the last delete or drag should leave
  nested,    \* history: a folder with items in it was dropped
  crashed    \* parent() has followed a null pointer

tree == <<kind, items, parent, created, name>>
vars == <<kind, items, parent, text, created, selected, current, editor, pc,
          name, typed, stale, goal, nested, crashed>>

Root == 0
Null == MaxEntities + 1   \* a null pointer; never an entity
Entity == 1..MaxEntities
Live == {x \in Entity : kind[x] # "none"}
Folder == {Root} \cup {x \in Live : kind[x] = "folder"}

TypeOK ==
  /\ kind \in [Entity -> {"none", "note", "folder"}]
  /\ items \in [0..MaxEntities -> Seq(Entity)]
  /\ parent \in [Entity -> 0..Null] /\ name \in [Entity -> Entity]
  /\ text \in [Entity -> BOOLEAN] /\ typed \subseteq Entity /\ stale \subseteq Entity
  /\ created \in 0..MaxEntities
  /\ selected \subseteq Live /\ current \in Entity \cup {Null}
  /\ editor \in BOOLEAN /\ nested \in BOOLEAN /\ crashed \in BOOLEAN
  /\ pc \in {"idle", "removing"}
  /\ goal.single \in BOOLEAN /\ goal.names \in [Entity -> Nat]

(* x and everything below it, the least closed set with x in it: what no *)
(* closed set parts from x.                                              *)
Closed(S) == \A f \in S : Range(items[f]) \subseteq S
Subtree(x) ==
  {y \in 0..MaxEntities : ~\E S \in SUBSET (0..MaxEntities) : x \in S /\ y \notin S /\ Closed(S)}
Owner(x) == CHOOSE f \in Folder : x \in Range(items[f])
Row(x) == CHOOSE i \in DOMAIN items[Owner(x)] : items[Owner(x)][i] = x
Names(xs) == [n \in Entity |-> Cardinality({x \in xs : name[x] = n})]

NoGoal == [single |-> FALSE, names |-> [n \in Entity |-> 0]]

Init ==
  /\ kind = [x \in Entity |-> "none"]
  /\ items = [f \in 0..MaxEntities |-> << >>]
  /\ parent = [x \in Entity |-> Null]
  /\ text = [x \in Entity |-> FALSE]
  /\ created = 0 /\ selected = {} /\ current = Null /\ editor = FALSE
  /\ pc = "idle" /\ name = [x \in Entity |-> x] /\ typed = {} /\ stale = {}
  /\ goal = NoGoal
  /\ nested = FALSE /\ crashed = FALSE

(* parent(): it reads the parent pointer of x and, below the first level,  *)
(* that of its parent.                                                     *)
ParentFails(x) ==
  \/ parent[x] = Null
  \/ parent[x] # Root /\ parent[parent[x]] = Null

Idle == pc = "idle" /\ ~crashed

(* The note that the editor is to show: the selected one, if it is alone. *)
SoleNote(sel) ==
  IF Cardinality(sel) = 1 /\ \A x \in sel : kind[x] = "note"
  THEN CHOOSE x \in sel : TRUE ELSE Null

ShowUnsaved(n) ==   \* mutant: the text is not saved
  /\ current' = n /\ text' = text
  /\ editor' = (n # Null /\ text[n])

(* The slot on selectionChanged: the text in the editor is saved, and the  *)
(* editor shows note n.                                                    *)
ShowNote(n) ==
  /\ text' = IF current = Null THEN text ELSE [text EXCEPT ![current] = editor]
  /\ current' = n
  /\ editor' = (n # Null /\ text'[n])

Select(sel) ==
  /\ Idle /\ sel # selected
  /\ crashed' = \E x \in sel : ParentFails(x)
  /\ selected' = sel /\ ShowNote(SoleNote(sel))
  /\ UNCHANGED <<tree, pc, typed, stale, goal, nested>>

(* The editor has what was typed last, and text_ no longer. *)
Type ==
  /\ Idle /\ current # Null
  /\ editor' = TRUE /\ text' = [text EXCEPT ![current] = FALSE]
  /\ typed' = typed \cup {current} /\ stale' = stale \ {current}
  /\ UNCHANGED <<tree, selected, current, pc, goal, nested, crashed>>

ParentRoot(f) == Root   \* mutant: the parent is always the root
ParentGiven(f) == f     \* the parent that Note and NotesFolder are made with

(* insertRows() of one row, or insertFolder(), at the end of folder f. *)
New(k, f) ==
  /\ created' = created + 1
  /\ kind' = [kind EXCEPT ![created'] = k]
  /\ items' = [items EXCEPT ![f] = Append(@, created')]
  /\ parent' = [parent EXCEPT ![created'] = ParentGiven(f)]

(* MainWindow::insert(): the buttons are enabled with nothing or with one  *)
(* folder selected, and the new row becomes the selection.                 *)
Insert(k) ==
  /\ Idle /\ created < MaxEntities
  /\ selected = {} \/ \E f \in Folder : selected = {f}
  /\ New(k, IF selected = {} THEN Root ELSE CHOOSE f \in Folder : selected = {f})
  /\ selected' = {created'}
  /\ ShowNote(IF k = "note" THEN created' ELSE Null)
  /\ UNCHANGED <<pc, name, typed, stale, goal, nested, crashed>>

-----------------------------------------------------------------------------
(* Removing rows. *)

(* What Qt makes of the selected rows of f behind the removed one:         *)
(* removeRows() ends with endInsertRows(), which moves them one row down   *)
(* the list that is now one row shorter.                                   *)
Shifted(f, row) ==
  {items[f][i + 2] : i \in {j \in DOMAIN items[f] :
     j > row /\ j + 2 <= Len(items[f]) /\ items[f][j] \in selected}}

FreedAlone(x) == {x}     \* mutant: the items of a folder are kept
Freed(x) == Subtree(x)   \* the destructors of a folder and of its items_

(* removeRow() for one selected row: the selection model drops the rows    *)
(* that will go and reports it, then the rows go, then Qt moves the        *)
(* persistent indexes behind them without a report.  endInsertRows() does  *)
(* not invalidate those of the rows that went; the selection has given its *)
(* own up by then.                                                         *)
RemoveRow(x) ==
  LET f == Owner(x)
      gone == Freed(x)
      behind == {y \in selected : Owner(y) = f /\ Row(y) > Row(x)}
  IN /\ pc = "removing" /\ ~crashed
     /\ crashed' = \E y \in selected : ParentFails(y)
     /\ ShowNote(SoleNote(selected \ gone))
     /\ selected' = ((selected \ gone) \ behind) \cup Shifted(f, Row(x))
     /\ kind' = [y \in Entity |-> IF y \in gone THEN "none" ELSE kind[y]]
     /\ items' = [y \in 0..MaxEntities |->
                   IF y \in gone THEN << >>
                   ELSE IF y = f THEN RemoveAt(items[f], Row(x)) ELSE items[y]]
     /\ parent' = [y \in Entity |-> IF y \in gone THEN Null ELSE parent[y]]
     /\ name' = [y \in Entity |-> IF y \in gone THEN y ELSE name[y]]
     /\ typed' = typed \ gone /\ stale' = stale \ gone
     /\ UNCHANGED <<created, pc, goal, nested>>

(* on_deleteButton_clicked(): one row at a time until none is selected. *)
Delete ==
  /\ Idle /\ selected # {}
  /\ pc' = "removing"
  /\ goal' = [single |-> Cardinality(selected) = 1,
              names |-> Names(Live \ UNION {Subtree(x) : x \in selected})]
  /\ UNCHANGED <<tree, text, selected, current, editor, typed, stale, nested, crashed>>

Removed ==
  /\ pc = "removing" /\ selected = {}
  /\ pc' = "idle" /\ goal' = NoGoal
  /\ UNCHANGED <<tree, text, selected, current, editor, typed, stale, nested, crashed>>

-----------------------------------------------------------------------------
(* Drag and drop. *)

(* The entities of q that are in S, in the order of q. *)
Among(q, S) ==
  LET among[n \in 0..Len(q)] ==
        IF n = 0 THEN << >>
        ELSE among[n - 1] \o (IF q[n] \in S THEN <<q[n]>> ELSE << >>)
  IN among[Len(q)]

CopiedAlone == selected   \* mutant: the items of a copied folder are left behind

(* The entities that mimeData() writes, with operator<<. *)
Copied == UNION {Subtree(x) : x \in selected}

(* What was typed last is in the editor and nowhere else. *)
Unsaved == {x \in {current} : editor /\ ~text[x]}

(* mimeData() and dropMimeData(): the selected rows, which are in one      *)
(* folder, are written out and read back into folder f, in front of row    *)
(* "row".  Only the top rows get a parent.  After a move the view removes  *)
(* the selected row.                                                       *)
Drop(f, row, move) ==
  LET n == Cardinality(Copied)
      new == CHOOSE g \in [Copied -> created + 1..created + n] :
               \A x, y \in Copied : x # y => g[x] # g[y]
      src == Owner(CHOOSE x \in selected : TRUE)
      Copies(q) == LET there == Among(q, Copied) IN [i \in DOMAIN there |-> new[there[i]]]
      old == [y \in Range(new) |-> CHOOSE x \in Copied : new[x] = y]
  IN /\ Idle /\ selected # {} /\ created + n <= MaxEntities
     /\ \A x \in selected : Owner(x) = src
     /\ move => f \notin Copied   \* the view refuses to drop rows on themselves
     /\ move => Cardinality(selected) = 1
     /\ crashed' = \/ \E x \in selected : ParentFails(x)
                   \/ \E a \in Folder \ {Root} : move /\ f \in Subtree(a) /\ ParentFails(a)
     /\ created' = created + n
     /\ kind' = [y \in Entity |-> IF y \in Range(new) THEN kind[old[y]] ELSE kind[y]]
     /\ items' = [y \in 0..MaxEntities |->
          IF y \in Range(new) THEN Copies(items[old[y]])
          ELSE IF y = f
          THEN SubSeq(items[f], 1, row - 1) \o Copies(Among(items[src], selected))
               \o SubSeq(items[f], row, Len(items[f]))
          ELSE items[y]]
     /\ parent' = [y \in Entity |->
          IF y \in Range(new) /\ old[y] \in selected THEN f ELSE parent[y]]
     /\ text' = [y \in Entity |-> IF y \in Range(new) THEN text[old[y]] ELSE text[y]]
     /\ name' = [y \in Entity |-> IF y \in Range(new) THEN name[old[y]] ELSE name[y]]
     /\ typed' = typed \cup {new[x] : x \in Copied \cap typed}
     /\ stale' = stale \cup {new[x] : x \in Copied \cap (stale \cup Unsaved)}
     /\ nested' = (nested \/ Copied # selected)
     /\ pc' = IF move THEN "removing" ELSE "idle"
     /\ goal' = IF move THEN [single |-> TRUE, names |-> Names(Live)]
                ELSE goal
     /\ UNCHANGED <<selected, current, editor>>

Next ==
  \/ \E sel \in SUBSET Live : Cardinality(sel) <= MaxSelected /\ Select(sel)
  \/ Type \/ Delete \/ Removed
  \/ \E k \in {"note", "folder"} : Insert(k)
  \/ \E x \in selected : RemoveRow(x)
  \/ \E f \in Folder, move \in BOOLEAN : \E row \in 1..Len(items[f]) + 1 : Drop(f, row, move)

Spec == Init /\ [][Next]_vars

-----------------------------------------------------------------------------
(* Every entity is in exactly one list, once, and hangs from the root: the *)
(* copy and the removal of a drag together neither share, lose nor free    *)
(* twice what unique_ptr owns.                                             *)
OneOwner ==
  /\ TypeOK
  /\ Live = Subtree(Root) \ {Root}
  /\ \A x \in Live :
       Cardinality({f \in 0..MaxEntities : x \in Range(items[f])}) = 1
  /\ \A f \in Folder : Cardinality(Range(items[f])) = Len(items[f])

(* parent_, from which parent() computes the rows of the ancestors, is the *)
(* folder whose items_ holds the entity.  Only what came inside a dropped  *)
(* folder has none, and nothing else can make parent() follow a null       *)
(* pointer.                                                                *)
ParentPointers ==
  /\ \A x \in Live : parent[x] = Owner(x) \/ (nested /\ parent[x] = Null)
  /\ crashed => nested

(* With one row selected, deleting or dragging it leaves exactly what it   *)
(* should: a move neither loses nor duplicates a note or a folder's items. *)
SingleExact ==
  pc = "removing" /\ selected = {} /\ goal.single => Names(Live) = goal.names

(* What was typed into a note is in it or still in the editor, and so it   *)
(* is with the copies of the note, with one exception: a drag of the note  *)
(* that is being edited copies text_, and the copy goes without what is    *)
(* only in the editor.  And the note that the editor saves to when the     *)
(* selection changes has not been destroyed, although rows are removed     *)
(* inside that very change.                                                *)
EditsKept ==
  /\ \A x \in typed \ stale : text[x] \/ (x = current /\ editor)
  /\ current = Null \/ kind[current] = "note"
=============================================================================
