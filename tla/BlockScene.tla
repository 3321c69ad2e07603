----------------------------- MODULE BlockScene -----------------------------
(***************************************************************************)
(* The editor of block-scene: blocks with input and output ports,          *)
(* connections that are dragged from an output to an input, the selection, *)
(* the Delete key, and the panel that shows the properties of the selected *)
(* block (block.cpp, port.cpp, connection.cpp, blockscene.cpp,             *)
(* blockpropertiesmodel.cpp, mainwindow.cpp).                              *)
(*                                                                         *)
(* A port is <<block, type, number>>.  An output port has its connection   *)
(* for as long as the connection exists, so a connection is named after    *)
(* its output port.  A pointer to a port that has been deleted is          *)
(* Dangling; using it sets "crashed", after which nothing happens.         *)
(* Geometry and painting are left out.                                     *)
(***************************************************************************)
EXTENDS Naturals, Sequences, FiniteSets, SequencesExt

CONSTANTS
  MaxBlocks,    \* bound: blocks ever dropped into the scene
  Defaults,     \* inputs, and outputs, of a new block
  MaxPorts,     \* maxPorts
  MaxSelected   \* bound: items selected at a time

ASSUME SceneAssumption ==
  /\ MaxBlocks \in Nat /\ MaxSelected \in Nat
  /\ Defaults \in Nat /\ MaxPorts \in Nat /\ Defaults <= MaxPorts

VARIABLES
  blocks,    \* blocks dropped so far
  ins, outs, \* inputs_ and outputs_ of each block that exists: how many
  scene,     \* connections: input_ of each, and connection_ of each input port
  drag,      \* the output port with creatingConnection_
  selected,  \* selectedItems()
  shown,     \* block_ of the properties model
  pass,      \* of the Delete key: "no", "connections" or "rest"
  si,        \* the copy of the selection that the pass works through
  clean      \* history: no connection has been dropped on an occupied input,
             \* and Delete was never pressed while one was held over an input

vars == <<blocks, ins, outs, scene, drag, selected, shown, pass, si, clean>>

None == <<0, "none", 0>>
NoEnd == <<0, "mouse", 0>>          \* input_ is null: the end follows the mouse
Dangling == <<0, "dangling", 0>>
NoBlock == 0
Block == 1..MaxBlocks
Port(type) == {<<b, type, i>> : b \in Block, i \in 1..MaxPorts}
Live(b, type) == {<<b, type, i>> : i \in 1..(IF type = "in" THEN ins[b] ELSE outs[b])}
Inputs == UNION {Live(b, "in") : b \in DOMAIN ins}
Outputs == UNION {Live(b, "out") : b \in DOMAIN outs}
Connections == {o \in Port("out") : scene.input[o] # None}
Item(b) == <<b, "block", 0>>
AnyItem == {Item(b) : b \in Block} \cup Port("out")
Items == {Item(b) : b \in DOMAIN ins} \cup Connections

TypeOK ==
  /\ blocks \in 0..MaxBlocks
  /\ DOMAIN ins = DOMAIN outs /\ DOMAIN ins \subseteq 1..blocks
  /\ Range(ins) \cup Range(outs) \subseteq 0..MaxPorts
  /\ scene.input \in [Port("out") -> Inputs \cup {None, NoEnd, Dangling}]
  /\ scene.link \in [Port("in") -> Port("out") \cup {None}]
  /\ scene.crashed \in BOOLEAN /\ clean \in BOOLEAN
  /\ drag \in Outputs \cup {None} /\ shown \in 0..MaxBlocks
  /\ selected \subseteq AnyItem /\ si \subseteq AnyItem
  /\ pass \in {"no", "connections", "rest"}

Init ==
  /\ blocks = 0 /\ ins = << >> /\ outs = << >>
  /\ scene = [input |-> [o \in Port("out") |-> None],
              link |-> [i \in Port("in") |-> None], crashed |-> FALSE]
  /\ drag = None /\ selected = {} /\ shown = NoBlock
  /\ pass = "no" /\ si = {} /\ clean = TRUE

Idle == pass = "no" /\ ~scene.crashed
IsBlock(x) == x[2] = "block"

ShownKept(sel) ==   \* mutant: nothing is done when nothing is selected
  IF Cardinality(sel) = 1 /\ \A x \in sel : IsBlock(x)
  THEN (CHOOSE x \in sel : TRUE)[1] ELSE IF sel = {} THEN shown ELSE NoBlock

(* The slot on selectionChanged: a block that is selected alone is shown. *)
Shown(sel) ==
  IF Cardinality(sel) = 1 /\ \A x \in sel : IsBlock(x)
  THEN (CHOOSE x \in sel : TRUE)[1] ELSE NoBlock

-----------------------------------------------------------------------------
(* Destructors, as functions on "scene". *)

LinkKept(s, o) == s.link   \* mutant: the input is not told
LinkCleared(s, o) ==       \* disconnect() of the input
  IF s.input[o] \in DOMAIN s.link THEN [s.link EXCEPT ![s.input[o]] = None] ELSE s.link

(* ~Connection() *)
KillConnection(s, o) ==
  [input |-> [s.input EXCEPT ![o] = None],
   link |-> LinkCleared(s, o),
   crashed |-> s.crashed \/ s.input[o] \in {None, Dangling}]

(* ~Port(): it deletes connection_; what else ends at the port dangles. *)
KillPort(s, p) ==
  LET c == IF p[2] = "in" THEN s.link[p] ELSE IF s.input[p] # None THEN p ELSE None
      t == IF c # None THEN KillConnection(s, c) ELSE s
  IN [t EXCEPT !.input = [o \in DOMAIN @ |-> IF @[o] = p THEN Dangling ELSE @[o]],
               !.link = [i \in DOMAIN @ |-> IF i = p THEN None ELSE @[i]]]

(* Block::setIOs() deletes the ports m + 1 to n, one by one. *)
Killed(s, b, type, m, n) ==
  LET after[k \in m..n] ==
        IF k = m THEN s ELSE KillPort(after[k - 1], <<b, type, k>>)
  IN after
KillPorts(s, b, type, m, n) == Killed(s, b, type, m, n)[n]

(* The ports of a deleted block go inputs first. *)
KillBlock(s, b) ==
  KillPorts(KillPorts(s, b, "in", 0, ins[b]), b, "out", 0, outs[b])

Gone(s) == {o \in Connections : s.input[o] = None}

-----------------------------------------------------------------------------
(* The user. *)

(* dropEvent(): a new block. *)
WithNew(ports) ==
  [b \in DOMAIN ports \cup {blocks + 1} |-> IF b \in DOMAIN ports THEN ports[b] ELSE Defaults]
Drop ==
  /\ Idle /\ blocks < MaxBlocks
  /\ blocks' = blocks + 1
  /\ ins' = WithNew(ins) /\ outs' = WithNew(outs)
  /\ UNCHANGED <<scene, drag, selected, shown, pass, si, clean>>

(* Port::mousePressEvent() on an output without a connection. *)
Press(o) ==
  /\ Idle /\ drag = None /\ scene.input[o] = None
  /\ scene' = [scene EXCEPT !.input[o] = NoEnd]
  /\ drag' = o
  /\ UNCHANGED <<blocks, ins, outs, selected, shown, pass, si, clean>>

(* Port::mouseMoveEvent(): over an input or elsewhere. *)
Move(end) ==
  /\ Idle /\ drag # None
  /\ scene' = [scene EXCEPT !.input[drag] = end]
  /\ UNCHANGED <<blocks, ins, outs, drag, selected, shown, pass, si, clean>>

(* Port::mouseReleaseEvent() *)
Release ==
  LET end == scene.input[drag]
  IN /\ Idle /\ drag # None
     /\ scene' = CASE end = NoEnd -> KillConnection(scene, drag)
                   [] end = Dangling -> [scene EXCEPT !.crashed = TRUE]
                   [] OTHER -> [scene EXCEPT !.link[end] = drag]
     /\ clean' = (clean /\ (end \in Inputs => scene.link[end] = None))
     /\ drag' = None
     /\ UNCHANGED <<blocks, ins, outs, selected, shown, pass, si>>

(* A click or a rubber band; the mouse is not free during a drag. *)
Select(sel) ==
  /\ Idle /\ drag = None /\ sel # selected
  /\ selected' = sel /\ shown' = Shown(sel)
  /\ UNCHANGED <<blocks, ins, outs, scene, drag, pass, si, clean>>

(* Block::itemChange() when block b was moved: updatePos() of the          *)
(* connections of its ports reads both ends.                               *)
Touched(b) == {o \in Connections : o[1] = b \/ \E i \in Live(b, "in") : scene.link[i] = o}
MoveBlock(b) ==
  /\ Idle /\ drag = None /\ Item(b) \in selected
  /\ scene' = [scene EXCEPT !.crashed = \E o \in Touched(b) : scene.input[o] = Dangling]
  /\ UNCHANGED <<blocks, ins, outs, drag, selected, shown, pass, si, clean>>

PortCounts == 0..MaxPorts   \* what setData() accepts

(* setData() of the properties model with Block::setIOs(). *)
SetIOs(type, n) ==
  LET old == IF type = "in" THEN ins[shown] ELSE outs[shown]
      s == KillPorts(scene, shown, type, n, IF n < old THEN old ELSE n)
  IN /\ Idle /\ drag = None /\ shown # NoBlock /\ n # old
     /\ scene' = IF shown \in DOMAIN ins THEN s ELSE [scene EXCEPT !.crashed = TRUE]
     /\ ins' = IF type = "in" THEN [ins EXCEPT ![shown] = n] ELSE ins
     /\ outs' = IF type = "out" THEN [outs EXCEPT ![shown] = n] ELSE outs
     /\ selected' = selected \ Gone(s) /\ shown' = Shown(selected')
     /\ UNCHANGED <<blocks, drag, pass, si, clean>>

-----------------------------------------------------------------------------
(* BlockScene::keyPressEvent() with the Delete key. *)

FirstPassAll(sel) == sel                             \* mutant: one pass for all
FirstPass(sel) == {x \in sel : ~IsBlock(x)}          \* the connections

DeleteKey ==
  /\ Idle /\ selected # {}
  /\ pass' = "connections" /\ si' = FirstPass(selected)
  /\ clean' = (clean /\ (drag = None \/ scene.input[drag] = NoEnd))
  /\ UNCHANGED <<blocks, ins, outs, scene, drag, selected, shown>>

DeleteConnection(o) ==
  /\ scene' = KillConnection(scene, o)
  /\ selected' = selected \ {o}
  /\ UNCHANGED <<ins, outs, drag, clean>>

DeleteBlock(b) ==
  LET s == KillBlock(scene, b)
  IN /\ scene' = s
     /\ selected' = selected \ ({Item(b)} \cup Gone(s))
     /\ ins' = [x \in DOMAIN ins \ {b} |-> ins[x]]
     /\ outs' = [x \in DOMAIN outs \ {b} |-> outs[x]]
     /\ drag' = IF drag # None /\ drag[1] = b THEN None ELSE drag
     /\ UNCHANGED clean

DeleteNext ==
  /\ pass # "no" /\ ~scene.crashed
  /\ \E x \in si :
       /\ si' = si \ {x}
       /\ IF IsBlock(x) THEN DeleteBlock(x[1]) ELSE DeleteConnection(x)
  /\ shown' = Shown(selected')
  /\ UNCHANGED <<blocks, pass>>

PassOver ==
  /\ pass # "no" /\ si = {} /\ ~scene.crashed
  /\ IF pass = "connections" THEN pass' = "rest" /\ si' = selected
     ELSE pass' = "no" /\ si' = {}
  /\ UNCHANGED <<blocks, ins, outs, scene, drag, selected, shown, clean>>

Next ==
  \/ Drop \/ Release \/ DeleteKey \/ DeleteNext \/ PassOver
  \/ \E o \in Outputs : Press(o)
  \/ \E end \in Inputs \cup {NoEnd} : Move(end)
  \/ \E sel \in SUBSET Items : Cardinality(sel) <= MaxSelected /\ Select(sel)
  \/ \E b \in DOMAIN ins : MoveBlock(b)
  \/ \E type \in {"in", "out"}, n \in PortCounts : SetIOs(type, n)

Spec == Init /\ [][Next]_vars

-----------------------------------------------------------------------------
(* A finished connection and the input at its end know each other, through *)
(* every order of deleting ports, blocks and connections: the two pointers *)
(* are kept by three classes and two destructors.                          *)
LinksMutual ==
  /\ TypeOK
  /\ clean /\ ~scene.crashed =>
       /\ \A o \in Connections \ {drag} :
            scene.input[o] \in Inputs /\ scene.link[scene.input[o]] = o
       /\ \A i \in Port("in") : scene.link[i] # None =>
            i \in Inputs /\ scene.link[i] \in Outputs /\ scene.input[scene.link[i]] = i

(* No pointer to a deleted port or connection is followed, and nothing is  *)
(* deleted twice, in the passes of the Delete key neither.                 *)
NoDangling == clean => ~scene.crashed

(* The properties model refers to an existing block, the selected one,     *)
(* also between the steps of a deletion.                                   *)
ShownIsSelected == shown # NoBlock => shown \in DOMAIN ins /\ selected = {Item(shown)}
=============================================================================
