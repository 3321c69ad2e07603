-------------------------- MODULE BlockSceneProofs --------------------------
(***************************************************************************)
(* Proofs about BlockScene, for any number of blocks and of ports.         *)
(*                                                                         *)
(* Deleting a block, or some of its ports, runs a loop over the ports,     *)
(* each of which may delete a connection.  The first part shows that the   *)
(* loop is well defined and what it preserves, the second part that every  *)
(* action preserves the invariant.                                         *)
(***************************************************************************)
EXTENDS BlockScene, FiniteSetTheorems, WellFoundedInduction, TLAPS

(* The ports m + 1 to n of one side of block b. *)
Some(b, type, m, n) == {<<b, type, k>> : k \in m + 1..n}

(* The types of what the pointers between ports and connections hold, when *)
(* I is the set of the input ports.                                        *)
SceneType(s, I) ==
  /\ DOMAIN s = {"input", "link", "crashed"}
  /\ s.input \in [Port("out") -> I \cup {None, NoEnd, Dangling}]
  /\ s.link \in [Port("in") -> Port("out") \cup {None}]
  /\ s.crashed \in BOOLEAN

(* The pointers are right, when I and O are the input and output ports and *)
(* d is the output port of the connection that is being dragged.           *)
Good(s, I, O, d) ==
  /\ ~s.crashed
  /\ \A o \in Port("out") : s.input[o] # None /\ o # d =>
       s.input[o] \in I /\ s.link[s.input[o]] = o
  /\ \A i \in Port("in") : s.link[i] # None =>
       i \in I /\ s.link[i] \in O /\ s.link[i] # d /\ s.input[s.link[i]] = i
  /\ d # None => s.input[d] \in I \cup {NoEnd}

-----------------------------------------------------------------------------
(* Intervals and loops. *)

(* A set of numbers from m to n that holds m, and with each number also    *)
(* the next one, holds them all.                                           *)
LEMMA Upwards ==
  ASSUME NEW m \in Nat, NEW n \in Nat, NEW S,
         m \in S, \A k \in m..n : k \in S /\ k < n => k + 1 \in S
  PROVE  m..n \subseteq S
<1> DEFINE T == {k \in m..n : k \notin S}
           Before(k) == {j \in T : j <= k}
           U == {Before(k) : k \in T}
<1>1. SUFFICES ASSUME T # {} PROVE FALSE
  OBVIOUS
<1>2. IsFiniteSet(T)
  <2>1. IsFiniteSet(m..n) /\ T \in SUBSET (m..n)
    BY FS_Interval
  <2>2. QED
    BY <2>1, FS_Subset
<1>3. U # {} /\ U \subseteq FiniteSubsetsOf(T)
  <2>1. ASSUME NEW k \in T PROVE Before(k) \in SUBSET T /\ IsFiniteSet(Before(k))
    <3>1. Before(k) \in SUBSET T
      OBVIOUS
    <3>2. QED
      BY <1>2, <3>1, FS_Subset
  <2>2. QED
    BY <1>1, <2>1 DEF FiniteSubsetsOf
<1>4. PICK V \in U : \A W \in U : ~(<<W, V>> \in StrictSubsetOrdering(T))
  BY <1>3, WFMin, FS_StrictSubsetOrderingWellFounded
<1>5. PICK k \in T : V = Before(k)
  OBVIOUS
<1>6. k \in m..n /\ k \notin S /\ k - 1 \in m..n /\ k - 1 < n /\ k - 1 + 1 = k
  BY <1>5
<1>7. k - 1 \in T
  BY <1>6, Zenon
<1>8. Before(k - 1) \subseteq Before(k) /\ k \in Before(k) /\ k \notin Before(k - 1)
  BY <1>6, <1>7
<1>9. Before(k - 1) \in U /\ Before(k - 1) \subseteq T
  BY <1>7, Zenon
<1> HIDE DEF Before
<1>10. <<Before(k - 1), Before(k)>> \in StrictSubsetOrdering(T)
  BY <1>8, <1>9 DEF StrictSubsetOrdering, Before
<1> QED
  BY <1>4, <1>5, <1>9, <1>10

(* f holds the states of the loop that deletes the ports m + 1 to n. *)
Loop(f, s, b, type, m, n) ==
  f = [k \in m..n |-> IF k = m THEN s ELSE KillPort(f[k - 1], <<b, type, k>>)]

(* These states exist, ... *)
LEMMA KilledExists ==
  ASSUME NEW s, NEW b, NEW type, NEW m \in Nat, NEW n \in Nat, m <= n
  PROVE  \E f : Loop(f, s, b, type, m, n)
<1> DEFINE Is(f, l) == Loop(f, s, b, type, m, l)
           S == {l \in m..n : \E f : Is(f, l)}
<1>1. m \in S
  <2> DEFINE f == [k \in m..m |-> s]
  <2>1. Is(f, m) /\ m \in m..n
    BY DEF Loop
  <2> HIDE DEF f, Is
  <2>2. QED
    BY <2>1, Zenon
<1>2. ASSUME NEW l \in m..n, l \in S, l < n PROVE l + 1 \in S
  <2>1. PICK f : Is(f, l)
    BY <1>2, Zenon
  <2> DEFINE g == [k \in m..l + 1 |->
               IF k = m THEN s ELSE KillPort(f[k - 1], <<b, type, k>>)]
  <2>2. ASSUME NEW k \in m..l PROVE g[k] = f[k]
    <3>1. f[k] = IF k = m THEN s ELSE KillPort(f[k - 1], <<b, type, k>>)
      BY <2>1, Zenon DEF Loop
    <3>2. QED
      BY <3>1
  <2>3. ASSUME NEW k \in m..l + 1, k # m PROVE f[k - 1] = g[k - 1]
    BY <2>2, <2>3
  <2>4. Is(g, l + 1)
    BY <2>3, Zenon DEF Loop
  <2>5. l + 1 \in m..n
    BY <1>2
  <2> HIDE DEF g, Is
  <2>6. QED
    BY <2>4, <2>5, Zenon
<1> HIDE DEF S
<1>3. m..n \subseteq S
  BY <1>1, <1>2, Upwards, Zenon
<1>4. n \in S
  BY <1>3
<1>5. QED
  BY <1>4, Zenon DEF S

Runs(f, s, b, type, m, n) ==
  /\ f[m] = s
  /\ \A k \in m..n : k < n => f[k + 1] = KillPort(f[k], <<b, type, k + 1>>)

(* ... begin with the scene, and each follows from the one before. *)
LEMMA KilledSteps ==
  ASSUME NEW s, NEW b, NEW type, NEW m \in Nat, NEW n \in Nat, m <= n
  PROVE  Runs(Killed(s, b, type, m, n), s, b, type, m, n)
<1> DEFINE Is(g) == Loop(g, s, b, type, m, n)
<1>1. Killed(s, b, type, m, n) = CHOOSE g : Is(g)
  BY Zenon DEF Killed, Loop
<1>2. \E g : Is(g)
  BY KilledExists, Zenon
<1> HIDE DEF Is
<1>3. PICK f : f = Killed(s, b, type, m, n) /\ Is(f)
  BY <1>1, <1>2, Zenon
<1>4. ASSUME NEW k \in m..n
      PROVE  f[k] = IF k = m THEN s ELSE KillPort(f[k - 1], <<b, type, k>>)
  BY <1>3, Zenon DEF Is, Loop
<1>5. f[m] = s
  <2>1. m \in m..n
    OBVIOUS
  <2>2. QED
    BY <1>4, <2>1, Zenon
<1>6. ASSUME NEW k \in m..n, k < n PROVE f[k + 1] = KillPort(f[k], <<b, type, k + 1>>)
  <2>1. PICK j \in m..n : j = k + 1 /\ j # m /\ j - 1 = k
    BY <1>6
  <2>2. f[j] = IF j = m THEN s ELSE KillPort(f[j - 1], <<b, type, j>>)
    BY <1>4, Zenon
  <2>3. QED
    BY <2>1, <2>2, Zenon
<1>7. QED
  BY <1>3, <1>5, <1>6, Zenon DEF Runs

-----------------------------------------------------------------------------
(* One port, one connection. *)

(* What tells ports, the null pointers and blocks apart. *)
LEMMA Kinds ==
  /\ \A p \in Port("in") : p[2] = "in" /\ p \notin {None, NoEnd, Dangling} /\ p \notin Port("out")
  /\ \A p \in Port("out") :
       p[2] = "out" /\ p \notin {None, NoEnd, Dangling} /\ p \notin Port("in") /\ ~IsBlock(p)
  /\ None # NoEnd /\ None # Dangling /\ NoEnd # Dangling
  /\ \A b : IsBlock(Item(b)) /\ Item(b)[1] = b /\ Item(b) \notin Port("out")
  BY DEF Port, None, NoEnd, Dangling, IsBlock, Item, Block

(* r is what the destructor of an input port p makes of s. *)
WithoutInput(s, p, r) ==
  /\ \A o \in Port("out") : r.input[o] =
       IF o = s.link[p] THEN None ELSE IF s.input[o] = p THEN Dangling ELSE s.input[o]
  /\ \A i \in Port("in") : r.link[i] =
       IF i = p \/ (s.link[p] # None /\ i = s.input[s.link[p]]) THEN None ELSE s.link[i]
  /\ r.crashed => (s.crashed \/ (s.link[p] # None /\ s.input[s.link[p]] \in {None, Dangling}))

(* r is what the destructor of an output port p, or that of its            *)
(* connection, makes of s.                                                 *)
WithoutOutput(s, p, r) ==
  /\ \A o \in Port("out") : r.input[o] = IF o = p THEN None ELSE s.input[o]
  /\ \A i \in Port("in") : r.link[i] = IF i = s.input[p] THEN None ELSE s.link[i]

(* What the destructor of a connection does. *)
LEMMA KillConnectionIs ==
  ASSUME NEW s, NEW I, I \subseteq Port("in"), SceneType(s, I), NEW c \in Port("out")
  PROVE  /\ SceneType(KillConnection(s, c), I)
         /\ WithoutOutput(s, c, KillConnection(s, c))
         /\ KillConnection(s, c).crashed =>
              (s.crashed \/ s.input[c] \in {None, Dangling})
  BY Kinds DEF KillConnection, LinkCleared, SceneType, WithoutOutput

(* What the destructor of an input port does. *)
LEMMA KillInputIs ==
  ASSUME NEW s, NEW I, I \subseteq Port("in"), SceneType(s, I), NEW p \in Port("in")
  PROVE  /\ SceneType(KillPort(s, p), I \ {p})
         /\ WithoutInput(s, p, KillPort(s, p))
<1> DEFINE c == s.link[p]
           t == IF c # None THEN KillConnection(s, c) ELSE s
<1>1. p[2] = "in" /\ p # None /\ p # Dangling /\ c \in Port("out") \cup {None}
  BY Kinds DEF SceneType
<1>2. KillPort(s, p) =
        [t EXCEPT !.input = [o \in DOMAIN @ |-> IF @[o] = p THEN Dangling ELSE @[o]],
                  !.link = [i \in DOMAIN @ |-> IF i = p THEN None ELSE @[i]]]
  BY <1>1 DEF KillPort
<1>3. /\ SceneType(t, I)
      /\ \A o \in Port("out") : t.input[o] = IF o = c THEN None ELSE s.input[o]
      /\ \A i \in Port("in") : t.link[i] =
           IF c # None /\ i = s.input[c] THEN None ELSE s.link[i]
      /\ t.crashed => (s.crashed \/ (c # None /\ s.input[c] \in {None, Dangling}))
  <2>1. CASE c = None
    <3>1. t = s /\ c \notin Port("out") /\ s.crashed \in BOOLEAN
      BY <2>1, Kinds DEF SceneType
    <3>2. QED
      BY <2>1, <3>1
  <2>2. CASE c # None
    <3>1. t = KillConnection(s, c) /\ c \in Port("out")
      BY <1>1, <2>2
    <3> HIDE DEF t, c
    <3>2. /\ SceneType(t, I)
          /\ \A o \in Port("out") : t.input[o] = IF o = c THEN None ELSE s.input[o]
          /\ \A i \in Port("in") : t.link[i] = IF i = s.input[c] THEN None ELSE s.link[i]
          /\ t.crashed => (s.crashed \/ s.input[c] \in {None, Dangling})
      BY <3>1, KillConnectionIs DEF WithoutOutput
    <3>3. QED
      BY <2>2, <3>2
  <2>3. QED
    BY <2>1, <2>2
<1> HIDE DEF t
<1>4. /\ DOMAIN t.input = Port("out") /\ DOMAIN t.link = Port("in")
      /\ DOMAIN t = {"input", "link", "crashed"}
  BY <1>3 DEF SceneType
<1>5. LET r == KillPort(s, p)
      IN /\ DOMAIN r = {"input", "link", "crashed"} /\ r.crashed = t.crashed
         /\ r.input = [o \in Port("out") |-> IF t.input[o] = p THEN Dangling ELSE t.input[o]]
         /\ r.link = [i \in Port("in") |-> IF i = p THEN None ELSE t.link[i]]
  BY <1>2, <1>4
<1>6. \A o \in Port("out") : KillPort(s, p).input[o] =
        IF o = c THEN None ELSE IF s.input[o] = p THEN Dangling ELSE s.input[o]
  BY <1>1, <1>3, <1>5
<1>7. SceneType(KillPort(s, p), I \ {p})
  <2>1. KillPort(s, p).input \in [Port("out") -> (I \ {p}) \cup {None, NoEnd, Dangling}]
    BY <1>1, <1>3, <1>5 DEF SceneType
  <2>2. KillPort(s, p).link \in [Port("in") -> Port("out") \cup {None}]
    BY <1>3, <1>5 DEF SceneType
  <2>3. KillPort(s, p).crashed \in BOOLEAN
    BY <1>3, <1>5 DEF SceneType
  <2>4. QED
    BY <1>5, <2>1, <2>2, <2>3 DEF SceneType
<1>8. QED
  BY <1>3, <1>5, <1>6, <1>7 DEF WithoutInput

(* What the destructor of an output port does. *)
LEMMA KillOutputIs ==
  ASSUME NEW s, NEW I, I \subseteq Port("in"), SceneType(s, I), NEW p \in Port("out")
  PROVE  /\ SceneType(KillPort(s, p), I)
         /\ WithoutOutput(s, p, KillPort(s, p))
         /\ KillPort(s, p).crashed => (s.crashed \/ s.input[p] = Dangling)
<1> DEFINE c == IF s.input[p] # None THEN p ELSE None
           t == IF c # None THEN KillConnection(s, c) ELSE s
<1>1. p[2] = "out" /\ p # None /\ p \notin Port("in") /\ p \notin {NoEnd, Dangling}
  BY Kinds
<1>2. KillPort(s, p) =
        [t EXCEPT !.input = [o \in DOMAIN @ |-> IF @[o] = p THEN Dangling ELSE @[o]],
                  !.link = [i \in DOMAIN @ |-> IF i = p THEN None ELSE @[i]]]
  BY <1>1 DEF KillPort
<1>3. /\ SceneType(t, I)
      /\ \A o \in Port("out") : t.input[o] = IF o = p THEN None ELSE s.input[o]
      /\ \A i \in Port("in") : t.link[i] = IF i = s.input[p] THEN None ELSE s.link[i]
      /\ t.crashed => (s.crashed \/ s.input[p] = Dangling)
  <2>1. CASE s.input[p] = None
    <3>1. t = s /\ \A i \in Port("in") : i # s.input[p]
      BY <2>1, Kinds
    <3>2. s.input[p] # Dangling /\ s.crashed \in BOOLEAN
      BY <2>1, Kinds DEF SceneType
    <3>3. QED
      BY <2>1, <3>1, <3>2
  <2>2. CASE s.input[p] # None
    <3>1. t = KillConnection(s, p)
      BY <1>1, <2>2
    <3>2. QED
      BY <2>2, <3>1, KillConnectionIs DEF WithoutOutput
  <2>3. QED
    BY <2>1, <2>2
<1> HIDE DEF t
<1>4. /\ DOMAIN t.input = Port("out") /\ DOMAIN t.link = Port("in")
      /\ DOMAIN t = {"input", "link", "crashed"}
  BY <1>3 DEF SceneType
<1>5. \A o \in Port("out") : t.input[o] # p
  BY <1>1, <1>3 DEF SceneType
<1>6. LET r == KillPort(s, p)
      IN /\ DOMAIN r = {"input", "link", "crashed"} /\ r.crashed = t.crashed
         /\ r.input = [o \in Port("out") |-> IF t.input[o] = p THEN Dangling ELSE t.input[o]]
         /\ r.link = [i \in Port("in") |-> IF i = p THEN None ELSE t.link[i]]
  BY <1>2, <1>4
<1>7. /\ \A o \in Port("out") : KillPort(s, p).input[o] = t.input[o]
      /\ \A i \in Port("in") : KillPort(s, p).link[i] = t.link[i]
  BY <1>1, <1>5, <1>6
<1>8. SceneType(KillPort(s, p), I)
  <2>1. KillPort(s, p).input \in [Port("out") -> I \cup {None, NoEnd, Dangling}]
    BY <1>3, <1>6 DEF SceneType
  <2>2. KillPort(s, p).link \in [Port("in") -> Port("out") \cup {None}]
    BY <1>3, <1>6 DEF SceneType
  <2>3. KillPort(s, p).crashed \in BOOLEAN
    BY <1>3, <1>6 DEF SceneType
  <2>4. QED
    BY <1>6, <2>1, <2>2, <2>3 DEF SceneType
<1>9. QED
  BY <1>3, <1>6, <1>7, <1>8 DEF WithoutOutput

(* After an input port is deleted the pointers of the rest are right.  The *)
(* connection that is being dragged does not end at it.                    *)
LEMMA KillInputGood ==
  ASSUME NEW s, NEW I, I \subseteq Port("in"), SceneType(s, I), NEW p \in Port("in"),
         NEW O, NEW d \in Port("out") \cup {None}, Good(s, I, O, d), d # None => s.input[d] # p
  PROVE  /\ Good(KillPort(s, p), I \ {p}, O, d)
         /\ d # None => KillPort(s, p).input[d] = s.input[d]
<1> DEFINE r == KillPort(s, p)
           c == s.link[p]
<1> HIDE DEF r
<1>1. /\ \A o \in Port("out") : r.input[o] =
           IF o = c THEN None ELSE IF s.input[o] = p THEN Dangling ELSE s.input[o]
      /\ \A i \in Port("in") : r.link[i] =
           IF i = p \/ (c # None /\ i = s.input[c]) THEN None ELSE s.link[i]
      /\ r.crashed => (s.crashed \/ (c # None /\ s.input[c] \in {None, Dangling}))
  <2>1. WithoutInput(s, p, r)
    BY KillInputIs DEF r
  <2>2. QED
    BY <2>1 DEF WithoutInput
<1>2. c # None => c # d /\ s.input[c] = p
  BY DEF Good
<1>3. ~r.crashed
  BY <1>1, <1>2, Kinds DEF Good
<1>4. \A o \in Port("out") : s.input[o] = p => o = c
  BY <1>2, Kinds DEF Good
<1>5. \A o \in Port("out") : r.input[o] = IF o = c THEN None ELSE s.input[o]
  BY <1>1, <1>4
<1>6. \A i \in Port("in") : r.link[i] = IF i = p THEN None ELSE s.link[i]
  BY <1>1, <1>2
<1>7. d # None => r.input[d] = s.input[d]
  BY <1>2, <1>5, Kinds
<1>8. ASSUME NEW o \in Port("out"), r.input[o] # None, o # d
      PROVE  r.input[o] \in I \ {p} /\ r.link[r.input[o]] = o
  <2>1. r.input[o] = s.input[o] /\ o # c
    BY <1>5, <1>8
  <2>2. s.input[o] \in I /\ s.input[o] # p /\ s.link[s.input[o]] = o
    BY <1>4, <1>8, <2>1 DEF Good
  <2>3. QED
    BY <1>6, <2>1, <2>2
<1>9. ASSUME NEW i \in Port("in"), r.link[i] # None
      PROVE  /\ i \in I \ {p} /\ r.link[i] \in O /\ r.link[i] # d
             /\ r.input[r.link[i]] = i
  <2>1. i # p /\ r.link[i] = s.link[i]
    BY <1>6, <1>9
  <2>2. i \in I /\ s.link[i] \in O /\ s.link[i] # d /\ s.input[s.link[i]] = i
    BY <1>9, <2>1 DEF Good
  <2>3. s.link[i] # c /\ s.link[i] \in Port("out")
    BY <1>2, <1>9, <2>1, <2>2 DEF SceneType
  <2>4. QED
    BY <1>5, <2>1, <2>2, <2>3
<1>10. d # None => r.input[d] \in (I \ {p}) \cup {NoEnd}
  BY <1>7 DEF Good
<1>11. Good(r, I \ {p}, O, d)
  BY <1>3, <1>8, <1>9, <1>10 DEF Good
<1>12. QED
  BY <1>7, <1>11 DEF r

(* After an output port, or its connection, is gone the pointers of the    *)
(* rest are right, also when it was the one that is being dragged.         *)
LEMMA ForgetGood ==
  ASSUME NEW s, NEW I, I \subseteq Port("in"), SceneType(s, I), NEW p \in Port("out"),
         NEW O, NEW d \in Port("out") \cup {None}, Good(s, I, O, d),
         d = p => s.input[d] = NoEnd, NEW r,
         WithoutOutput(s, p, r), ~r.crashed
  PROVE  Good(r, I, O \ {p}, IF d = p THEN None ELSE d)
<1> DEFINE e == IF d = p THEN None ELSE d
<1>1. ASSUME NEW o \in Port("out"), r.input[o] # None, o # e
      PROVE  r.input[o] \in I /\ r.link[r.input[o]] = o
  <2>1. o # p /\ o # d /\ r.input[o] = s.input[o]
    BY <1>1, Kinds DEF WithoutOutput
  <2>2. s.input[o] \in I /\ s.link[s.input[o]] = o
    BY <1>1, <2>1 DEF Good
  <2>3. s.input[o] # s.input[p]
    <3>1. ASSUME s.input[o] = s.input[p] PROVE FALSE
      <4>1. s.input[o] # None
        BY <2>2, Kinds
      <4>2. p # d => s.link[s.input[p]] = p
        BY <3>1, <4>1 DEF Good
      <4>3. p # d
        BY <2>2, <3>1, Kinds
      <4>4. QED
        BY <2>1, <2>2, <3>1, <4>2, <4>3
    <3>2. QED
      BY <3>1
  <2>4. QED
    BY <2>1, <2>2, <2>3 DEF WithoutOutput
<1>2. ASSUME NEW i \in Port("in"), r.link[i] # None
      PROVE  i \in I /\ r.link[i] \in O \ {p} /\ r.link[i] # e /\ r.input[r.link[i]] = i
  <2>1. i # s.input[p] /\ r.link[i] = s.link[i]
    BY <1>2 DEF WithoutOutput
  <2>2. i \in I /\ s.link[i] \in O /\ s.link[i] # d /\ s.input[s.link[i]] = i
    BY <1>2, <2>1 DEF Good
  <2>3. s.link[i] # p /\ s.link[i] \in Port("out")
    BY <1>2, <2>1, <2>2 DEF SceneType
  <2>4. QED
    BY <2>1, <2>2, <2>3, <1>2 DEF WithoutOutput
<1>3. e # None => r.input[e] \in I \cup {NoEnd}
  BY DEF Good, WithoutOutput
<1>4. QED
  BY <1>1, <1>2, <1>3 DEF Good

-----------------------------------------------------------------------------
(* The loops over the ports. *)

(* No port, and ports that a block may have. *)
LEMMA SomePorts ==
  ASSUME NEW b \in Block, NEW type, NEW m \in Nat, NEW n \in Nat, n <= MaxPorts
  PROVE  Some(b, type, m, m) = {} /\ Some(b, type, m, n) \subseteq Port(type)
<1>1. Some(b, type, m, m) = {}
  BY DEF Some
<1>2. m + 1..n \subseteq 1..MaxPorts
  BY SceneAssumption
<1>3. QED
  BY <1>1, <1>2 DEF Some, Port

(* After k of the ports comes p. *)
Following(b, type, m, n, k, p) ==
  /\ p = <<b, type, k + 1>> /\ p \in Port(type) /\ p \in Some(b, type, m, n)
  /\ Some(b, type, m, k + 1) = Some(b, type, m, k) \cup {p}

LEMMA OneMore ==
  ASSUME NEW b \in Block, NEW type, NEW m \in Nat, NEW n \in Nat, n <= MaxPorts,
         NEW k \in m..n, k < n
  PROVE  \E p : Following(b, type, m, n, k, p)
<1> DEFINE p == <<b, type, k + 1>>
<1>1. m + 1..k + 1 = (m + 1..k) \cup {k + 1} /\ k + 1 \in m + 1..n
  OBVIOUS
<1>2. ASSUME NEW x
      PROVE  x \in Some(b, type, m, k + 1) <=> x \in Some(b, type, m, k) \cup {p}
  BY <1>1, Zenon DEF Some
<1>3. p \in Some(b, type, m, n)
  BY <1>1, Zenon DEF Some
<1>4. p \in Port(type)
  BY <1>3, SomePorts
<1>5. Some(b, type, m, k + 1) = Some(b, type, m, k) \cup {p}
  BY <1>2
<1>6. QED
  BY <1>3, <1>4, <1>5, Zenon DEF Following

(* The connection that is being dragged, when the ports P are gone. *)
Held(d, P) == IF d \in P THEN None ELSE d

(* The pointers that are right in s, where d is being dragged, are right   *)
(* in r, where the input ports P, or the output ports P, are gone.         *)
InputsGone(s, I, O, d, P, r) ==
  /\ Good(r, I \ P, O, d)
  /\ d # None => r.input[d] = s.input[d]
OutputsGone(s, I, O, d, P, r) ==
  /\ Good(r, I, O \ P, Held(d, P))
  /\ d \notin P /\ d # None => r.input[d] = s.input[d]

(* r is what deleting these ports makes of s. *)
InputsDeleted(s, I, P, r) ==
  /\ SceneType(r, I \ P)
  /\ \A O : \A d \in Port("out") \cup {None} :
       Good(s, I, O, d) /\ (d # None => s.input[d] \notin P) => InputsGone(s, I, O, d, P, r)
OutputsDeleted(s, I, P, r) ==
  /\ SceneType(r, I)
  /\ \A O : \A d \in Port("out") \cup {None} :
       Good(s, I, O, d) /\ (d \in P => s.input[d] = NoEnd) => OutputsGone(s, I, O, d, P, r)

(* Deleting input ports leaves a scene without them, whatever the scene. *)
LEMMA InputsType ==
  ASSUME NEW s, NEW I, I \subseteq Port("in"), SceneType(s, I), NEW b \in Block,
         NEW m \in Nat, NEW n \in Nat, m <= n, n <= MaxPorts
  PROVE  \A k \in m..n :
           SceneType(Killed(s, b, "in", m, n)[k], I \ Some(b, "in", m, k))
<1> DEFINE f == Killed(s, b, "in", m, n)
           left(k) == I \ Some(b, "in", m, k)
           S == {k \in m..n : SceneType(f[k], left(k))}
<1>1. f[m] = s /\ \A k \in m..n : k < n => f[k + 1] = KillPort(f[k], <<b, "in", k + 1>>)
  <2>1. Runs(f, s, b, "in", m, n)
    BY KilledSteps
  <2>2. QED
    BY <2>1, Zenon DEF Runs
<1> HIDE DEF f
<1>2. m \in S
  <2>1. left(m) = I /\ m \in m..n
    BY SomePorts
  <2>2. QED
    BY <1>1, <2>1, Zenon
<1>3. ASSUME NEW k \in m..n, k \in S, k < n PROVE k + 1 \in S
  <2>1. PICK p : Following(b, "in", m, n, k, p)
    BY <1>3, OneMore
  <2>2. p \in Port("in") /\ p \in Some(b, "in", m, n) /\ left(k + 1) = left(k) \ {p}
    BY <2>1 DEF Following
  <2>3. f[k + 1] = KillPort(f[k], p)
    BY <1>1, <1>3, <2>1 DEF Following
  <2>4. left(k) \subseteq Port("in") /\ SceneType(f[k], left(k))
    BY <1>3
  <2>5. SceneType(KillPort(f[k], p), left(k) \ {p})
    <3> HIDE DEF left
    <3>1. QED
      BY <2>2, <2>4, KillInputIs
  <2>6. k + 1 \in m..n
    BY <1>3
  <2>7. QED
    BY <2>2, <2>3, <2>5, <2>6, Zenon
<1> HIDE DEF S
<1>4. m..n \subseteq S
  BY <1>2, <1>3, Upwards, Zenon
<1>5. QED
  BY <1>4, Zenon DEF S, f

(* When the pointers are right, they are right after deleting input ports  *)
(* that the connection that is being dragged does not end at.              *)
LEMMA InputsGood ==
  ASSUME NEW s, NEW I, I \subseteq Port("in"), SceneType(s, I), NEW b \in Block,
         NEW m \in Nat, NEW n \in Nat, m <= n, n <= MaxPorts,
         NEW O, NEW d \in Port("out") \cup {None}, Good(s, I, O, d),
         d # None => s.input[d] \notin Some(b, "in", m, n)
  PROVE  \A k \in m..n :
           InputsGone(s, I, O, d, Some(b, "in", m, k), Killed(s, b, "in", m, n)[k])
<1> DEFINE f == Killed(s, b, "in", m, n)
           left(k) == I \ Some(b, "in", m, k)
           Kept(k) == InputsGone(s, I, O, d, Some(b, "in", m, k), f[k])
           S == {k \in m..n : Kept(k)}
<1>1. f[m] = s /\ \A k \in m..n : k < n => f[k + 1] = KillPort(f[k], <<b, "in", k + 1>>)
  <2>1. Runs(f, s, b, "in", m, n)
    BY KilledSteps
  <2>2. QED
    BY <2>1, Zenon DEF Runs
<1>2. \A k \in m..n : SceneType(f[k], left(k))
  BY InputsType
<1> HIDE DEF f
<1>3. m \in S
  <2>1. left(m) = I /\ m \in m..n
    BY SomePorts
  <2>2. QED
    BY <1>1, <2>1 DEF InputsGone
<1>4. ASSUME NEW k \in m..n, k \in S, k < n PROVE k + 1 \in S
  <2>1. PICK p : Following(b, "in", m, n, k, p)
    BY <1>4, OneMore
  <2>2. p \in Port("in") /\ p \in Some(b, "in", m, n) /\ left(k + 1) = left(k) \ {p}
    BY <2>1 DEF Following
  <2>3. f[k + 1] = KillPort(f[k], p)
    BY <1>1, <1>4, <2>1 DEF Following
  <2>4. left(k) \subseteq Port("in") /\ SceneType(f[k], left(k)) /\ Good(f[k], left(k), O, d)
    BY <1>2, <1>4 DEF InputsGone
  <2>5. d # None => f[k].input[d] = s.input[d] /\ f[k].input[d] # p
    BY <1>4, <2>2 DEF InputsGone
  <2>6. /\ Good(KillPort(f[k], p), left(k) \ {p}, O, d)
        /\ d # None => KillPort(f[k], p).input[d] = f[k].input[d]
    <3>1. PICK t, J : t = f[k] /\ J = left(k)
      OBVIOUS
    <3> HIDE DEF left
    <3>2. /\ J \subseteq Port("in") /\ SceneType(t, J) /\ Good(t, J, O, d)
          /\ d # None => t.input[d] # p
      BY <2>4, <2>5, <3>1
    <3>3. /\ Good(KillPort(t, p), J \ {p}, O, d)
          /\ d # None => KillPort(t, p).input[d] = t.input[d]
      BY <2>2, <3>2, KillInputGood
    <3>4. QED
      BY <3>1, <3>3
  <2>7. k + 1 \in m..n
    BY <1>4
  <2>8. Kept(k + 1)
    BY <2>2, <2>3, <2>5, <2>6 DEF InputsGone
  <2>9. QED
    BY <2>7, <2>8, Zenon
<1> HIDE DEF S
<1>5. m..n \subseteq S
  BY <1>3, <1>4, Upwards, Zenon
<1>6. QED
  BY <1>5, Zenon DEF S, f

(* Deleting output ports leaves a scene, whatever the scene. *)
LEMMA OutputsType ==
  ASSUME NEW s, NEW I, I \subseteq Port("in"), SceneType(s, I), NEW b \in Block,
         NEW m \in Nat, NEW n \in Nat, m <= n, n <= MaxPorts
  PROVE  \A k \in m..n : SceneType(Killed(s, b, "out", m, n)[k], I)
<1> DEFINE f == Killed(s, b, "out", m, n)
           S == {k \in m..n : SceneType(f[k], I)}
<1>1. f[m] = s /\ \A k \in m..n : k < n => f[k + 1] = KillPort(f[k], <<b, "out", k + 1>>)
  <2>1. Runs(f, s, b, "out", m, n)
    BY KilledSteps
  <2>2. QED
    BY <2>1, Zenon DEF Runs
<1> HIDE DEF f
<1>2. m \in S
  BY <1>1
<1>3. ASSUME NEW k \in m..n, k \in S, k < n PROVE k + 1 \in S
  <2>1. PICK p : Following(b, "out", m, n, k, p)
    BY <1>3, OneMore
  <2>2. p \in Port("out") /\ f[k + 1] = KillPort(f[k], p)
    BY <1>1, <1>3, <2>1 DEF Following
  <2>3. SceneType(f[k], I)
    BY <1>3
  <2>4. SceneType(KillPort(f[k], p), I)
    BY <2>2, <2>3, KillOutputIs
  <2>5. k + 1 \in m..n
    BY <1>3
  <2>6. QED
    BY <2>2, <2>4, <2>5, Zenon
<1> HIDE DEF S
<1>4. m..n \subseteq S
  BY <1>2, <1>3, Upwards, Zenon
<1>5. QED
  BY <1>4, Zenon DEF S, f

(* When the pointers are right, they are right after deleting output       *)
(* ports, of which one may be where a connection is being dragged from, as *)
(* long as that one is not held over an input.                             *)
LEMMA OutputsGood ==
  ASSUME NEW s, NEW I, I \subseteq Port("in"), SceneType(s, I), NEW b \in Block,
         NEW m \in Nat, NEW n \in Nat, m <= n, n <= MaxPorts,
         NEW O, NEW d \in Port("out") \cup {None}, Good(s, I, O, d),
         d \in Some(b, "out", m, n) => s.input[d] = NoEnd
  PROVE  \A k \in m..n :
           OutputsGone(s, I, O, d, Some(b, "out", m, k), Killed(s, b, "out", m, n)[k])
<1> DEFINE f == Killed(s, b, "out", m, n)
           P(k) == Some(b, "out", m, k)
           Kept(k) == OutputsGone(s, I, O, d, P(k), f[k])
           S == {k \in m..n : Kept(k)}
<1>1. f[m] = s /\ \A k \in m..n : k < n => f[k + 1] = KillPort(f[k], <<b, "out", k + 1>>)
  <2>1. Runs(f, s, b, "out", m, n)
    BY KilledSteps
  <2>2. QED
    BY <2>1, Zenon DEF Runs
<1>2. \A k \in m..n : SceneType(f[k], I)
  BY OutputsType
<1> HIDE DEF f
<1>3. m \in S
  <2>1. P(m) = {} /\ m \in m..n
    BY SomePorts
  <2>2. O \ P(m) = O /\ Held(d, P(m)) = d
    BY <2>1 DEF Held
  <2>3. QED
    BY <1>1, <2>1, <2>2 DEF OutputsGone
<1>4. ASSUME NEW k \in m..n, k \in S, k < n PROVE k + 1 \in S
  <2>1. PICK p : Following(b, "out", m, n, k, p)
    BY <1>4, OneMore
  <2>2. /\ p \in Port("out") /\ p \in Some(b, "out", m, n) /\ P(k + 1) = P(k) \cup {p}
        /\ f[k + 1] = KillPort(f[k], p)
    BY <1>1, <1>4, <2>1 DEF Following
  <2>3. PICK t, e, Q : t = f[k] /\ e = Held(d, P(k)) /\ Q = O \ P(k)
    OBVIOUS
  <2>4. SceneType(t, I) /\ Good(t, I, Q, e) /\ e \in Port("out") \cup {None}
    BY <1>2, <1>4, <2>3 DEF Held, OutputsGone
  <2>5. d \notin P(k) /\ d # None => t.input[d] = s.input[d]
    BY <1>4, <2>3 DEF OutputsGone
  <2>6. e = p => t.input[e] = NoEnd
    BY <2>2, <2>3, <2>5, Kinds DEF Held
  <2> DEFINE r == KillPort(t, p)
  <2>7. WithoutOutput(t, p, r) /\ (r.crashed => (t.crashed \/ t.input[p] = Dangling))
    BY <2>2, <2>4, KillOutputIs
  <2> HIDE DEF r, OutputsGone
  <2>8. ~r.crashed
    <3>1. t.input[p] # Dangling
      BY <2>2, <2>4, <2>6, Kinds DEF Good
    <3>2. QED
      BY <2>4, <2>7, <3>1 DEF Good
  <2>9. Good(r, I, Q \ {p}, IF e = p THEN None ELSE e)
    BY <2>2, <2>4, <2>6, <2>7, <2>8, ForgetGood
  <2>10. Q \ {p} = O \ P(k + 1) /\ (IF e = p THEN None ELSE e) = Held(d, P(k + 1))
    BY <2>2, <2>3 DEF Held
  <2>11. d \notin P(k + 1) /\ d # None => r.input[d] = s.input[d]
    BY <2>2, <2>5, <2>7 DEF WithoutOutput
  <2>12. Kept(k + 1)
    BY <2>2, <2>3, <2>9, <2>10, <2>11 DEF r, OutputsGone
  <2>13. k + 1 \in m..n
    BY <1>4
  <2>14. QED
    BY <2>12, <2>13, Zenon
<1> HIDE DEF S
<1>5. m..n \subseteq S
  BY <1>3, <1>4, Upwards, Zenon
<1>6. QED
  BY <1>5, Zenon DEF S, f

(* The same for the whole loops. *)
LEMMA KillInputs ==
  ASSUME NEW s, NEW I, I \subseteq Port("in"), SceneType(s, I), NEW b \in Block,
         NEW m \in Nat, NEW n \in Nat, m <= n, n <= MaxPorts
  PROVE  InputsDeleted(s, I, Some(b, "in", m, n), KillPorts(s, b, "in", m, n))
<1>1. n \in m..n
  OBVIOUS
<1>2. \A k \in m..n : SceneType(Killed(s, b, "in", m, n)[k], I \ Some(b, "in", m, k))
  BY InputsType
<1>3. ASSUME NEW O, NEW d \in Port("out") \cup {None}, Good(s, I, O, d),
             d # None => s.input[d] \notin Some(b, "in", m, n)
      PROVE  \A k \in m..n :
               InputsGone(s, I, O, d, Some(b, "in", m, k), Killed(s, b, "in", m, n)[k])
  BY <1>3, InputsGood
<1>4. QED
  BY <1>1, <1>2, <1>3, Zenon DEF KillPorts, InputsDeleted

LEMMA KillOutputs ==
  ASSUME NEW s, NEW I, I \subseteq Port("in"), SceneType(s, I), NEW b \in Block,
         NEW m \in Nat, NEW n \in Nat, m <= n, n <= MaxPorts
  PROVE  OutputsDeleted(s, I, Some(b, "out", m, n), KillPorts(s, b, "out", m, n))
<1>1. n \in m..n
  OBVIOUS
<1>2. \A k \in m..n : SceneType(Killed(s, b, "out", m, n)[k], I)
  BY OutputsType
<1>3. ASSUME NEW O, NEW d \in Port("out") \cup {None}, Good(s, I, O, d),
             d \in Some(b, "out", m, n) => s.input[d] = NoEnd
      PROVE  \A k \in m..n :
               OutputsGone(s, I, O, d, Some(b, "out", m, k), Killed(s, b, "out", m, n)[k])
  BY <1>3, OutputsGood
<1>4. QED
  BY <1>1, <1>2, <1>3, Zenon DEF KillPorts, OutputsDeleted

-----------------------------------------------------------------------------
(* The invariant. *)

(* What is selected exists, what is shown belongs to it, and the pass of   *)
(* the Delete key has left what it says.                                   *)
SelectionRight ==
  /\ selected \subseteq Items /\ drag \notin selected
  /\ shown = Shown(selected)
  /\ pass = "connections" => si = {x \in selected : ~IsBlock(x)}
  /\ pass = "rest" => si \subseteq selected /\ \A x \in si : IsBlock(x)

(* The pointers between ports and connections are right. *)
PointersRight ==
  clean => /\ Good(scene, Inputs, Outputs, drag)
           /\ drag # None /\ pass # "no" => scene.input[drag] = NoEnd

EditorInv ==
  /\ TypeOK /\ DOMAIN scene = {"input", "link", "crashed"}
  /\ SelectionRight
  /\ PointersRight

(* The types in the form in which the proofs use them. *)
LEMMA Typed ==
  ASSUME TypeOK, DOMAIN scene = {"input", "link", "crashed"}
  PROVE  /\ SceneType(scene, Inputs)
         /\ Inputs \subseteq Port("in") /\ Outputs \subseteq Port("out")
         /\ DOMAIN ins = DOMAIN outs /\ DOMAIN ins \subseteq Block
         /\ \A b \in DOMAIN ins : ins[b] \in 0..MaxPorts /\ outs[b] \in 0..MaxPorts
<1>1. SceneType(scene, Inputs)
  BY DEF TypeOK, SceneType
<1>2. /\ DOMAIN ins = DOMAIN outs /\ DOMAIN ins \subseteq Block
      /\ \A b \in DOMAIN ins : ins[b] \in 0..MaxPorts /\ outs[b] \in 0..MaxPorts
  BY SceneAssumption DEF TypeOK, Block, Range
<1>3. Inputs \subseteq Port("in") /\ Outputs \subseteq Port("out")
  BY <1>2, SceneAssumption DEF Inputs, Outputs, Live, Port
<1>4. QED
  BY <1>1, <1>2, <1>3

(* The items of a scene are finitely many. *)
LEMMA ItemsFinite == IsFiniteSet(AnyItem)
<1>1. IsFiniteSet(Block) /\ IsFiniteSet(1..MaxPorts)
  BY SceneAssumption, FS_Interval DEF Block
<1>2. IsFiniteSet(Port("out"))
  <2> DEFINE T == Block \X (1..MaxPorts)
             f == [t \in T |-> <<t[1], "out", t[2]>>]
  <2>1. IsFiniteSet(T)
    BY <1>1, FS_Product
  <2>2. f \in Surjection(T, Port("out"))
    <3>1. f \in [T -> Port("out")]
      BY DEF Port
    <3>2. ASSUME NEW p \in Port("out") PROVE \E t \in T : f[t] = p
      <4>1. PICK b \in Block, i \in 1..MaxPorts : p = <<b, "out", i>>
        BY DEF Port
      <4>2. <<b, i>> \in T /\ f[<<b, i>>] = p
        BY <4>1
      <4>3. QED
        BY <4>2
    <3>3. QED
      BY <3>1, <3>2 DEF Surjection
  <2> HIDE DEF f, T
  <2>3. QED
    BY <2>1, <2>2, FS_Surjection
<1>3. IsFiniteSet({Item(b) : b \in Block})
  <2> DEFINE f == [b \in Block |-> Item(b)]
  <2>1. f \in Surjection(Block, {Item(b) : b \in Block})
    BY DEF Surjection
  <2> HIDE DEF f
  <2>2. QED
    BY <1>1, <2>1, FS_Surjection
<1>4. QED
  BY <1>2, <1>3, FS_Union DEF AnyItem

(* The block that the panel shows is the one that is selected. *)
LEMMA ShownIs ==
  ASSUME NEW sel, sel \subseteq AnyItem
  PROVE  /\ Shown(sel) \in 0..MaxBlocks
         /\ Shown(sel) # NoBlock => sel = {Item(Shown(sel))} /\ Shown(sel) \in Block
<1>1. CASE Cardinality(sel) = 1 /\ \A x \in sel : IsBlock(x)
  <2>1. IsFiniteSet(sel)
    BY ItemsFinite, FS_Subset
  <2>2. PICK x : sel = {x}
    BY <1>1, <2>1, FS_Singleton
  <2>3. PICK b \in Block : x = Item(b)
    BY <1>1, <2>2, Kinds DEF AnyItem
  <2>4. (CHOOSE y \in sel : TRUE) = x
    BY <2>2
  <2>5. Shown(sel) = b
    BY <1>1, <2>3, <2>4, Kinds DEF Shown
  <2>6. QED
    BY <2>2, <2>3, <2>5 DEF Block
<1>2. CASE ~(Cardinality(sel) = 1 /\ \A x \in sel : IsBlock(x))
  BY <1>2, SceneAssumption DEF Shown, NoBlock
<1>3. QED
  BY <1>1, <1>2

(* Whatever is in the selection is an item, also if it does not exist. *)
LEMMA ItemsAreItems ==
  ASSUME TypeOK, DOMAIN scene = {"input", "link", "crashed"}
  PROVE  Items \subseteq AnyItem
  BY Typed DEF Items, AnyItem, Connections

LEMMA EditorInit == Init => EditorInv
<1> SUFFICES ASSUME Init PROVE EditorInv
  OBVIOUS
<1> USE DEF Init
<1>1. Inputs = {} /\ Outputs = {} /\ Range(ins) = {} /\ Range(outs) = {}
  BY DEF Inputs, Outputs, Range
<1>2. TypeOK
  BY <1>1, SceneAssumption DEF TypeOK, NoBlock, AnyItem
<1>3. shown = Shown(selected)
  BY FS_EmptySet DEF Shown
<1>4. SelectionRight
  BY <1>3 DEF SelectionRight
<1>5. PointersRight
  BY DEF PointersRight, Good
<1>6. QED
  BY <1>2, <1>4, <1>5 DEF EditorInv

-----------------------------------------------------------------------------
(* Every action preserves the invariant. *)

(* More ports change nothing for the pointers. *)
LEMMA GoodGrows ==
  ASSUME NEW s, NEW I, NEW O, NEW d, Good(s, I, O, d),
         NEW J, NEW P, I \subseteq J, O \subseteq P
  PROVE  Good(s, J, P, d)
  BY DEF Good

LEMMA DropSafe ==
  ASSUME EditorInv, Drop
  PROVE  EditorInv'
<1> USE DEF EditorInv, Drop
<1> DEFINE b == blocks + 1
<1>1. b \in Block /\ b \notin DOMAIN ins /\ b # NoBlock /\ b \in Nat
  BY SceneAssumption DEF TypeOK, Block, NoBlock
<1>2. /\ DOMAIN ins' = DOMAIN ins \cup {b} /\ ins'[b] = Defaults
      /\ DOMAIN outs' = DOMAIN outs \cup {b} /\ outs'[b] = Defaults
      /\ \A x \in DOMAIN ins : ins'[x] = ins[x] /\ outs'[x] = outs[x]
  BY <1>1, Typed DEF WithNew
<1>3. Inputs \subseteq Inputs' /\ Outputs \subseteq Outputs' /\ Items \subseteq Items'
  BY <1>2, Typed DEF Inputs, Outputs, Live, Items, Connections
<1>4. TypeOK'
  <2>1. DOMAIN ins' = DOMAIN outs' /\ DOMAIN ins' \subseteq 1..blocks' /\ blocks' \in 0..MaxBlocks
    BY <1>1, <1>2, SceneAssumption DEF TypeOK
  <2>2. Range(ins') \cup Range(outs') \subseteq 0..MaxPorts
    BY <1>2, Typed, SceneAssumption DEF Range
  <2>3. scene.input \in [Port("out") -> Inputs' \cup {None, NoEnd, Dangling}]
    BY <1>3, Typed DEF SceneType
  <2>4. drag' \in Outputs' \cup {None}
    BY <1>3 DEF TypeOK
  <2>5. QED
    BY <2>1, <2>2, <2>3, <2>4 DEF TypeOK
<1>5. SelectionRight'
  BY <1>3 DEF SelectionRight
<1>6. PointersRight'
  BY <1>3, GoodGrows DEF PointersRight
<1>7. QED
  BY <1>4, <1>5, <1>6

LEMMA PressSafe ==
  ASSUME EditorInv, NEW o \in Outputs, Press(o)
  PROVE  EditorInv'
<1> USE DEF EditorInv, Press, Idle
<1>1. /\ o \in Port("out") /\ DOMAIN scene.input = Port("out") /\ drag = None
      /\ scene.input[o] = None /\ ~scene.crashed /\ pass = "no" /\ pass' = "no"
  BY Typed DEF SceneType
<1>2. /\ scene'.input = [scene.input EXCEPT ![o] = NoEnd] /\ scene'.link = scene.link
      /\ scene'.crashed = scene.crashed /\ DOMAIN scene' = {"input", "link", "crashed"}
  BY <1>1
<1>3. Inputs' = Inputs /\ Outputs' = Outputs /\ drag' = o
  BY DEF Inputs, Outputs, Live
<1>4. \A c \in Port("out") : scene'.input[c] = IF c = o THEN NoEnd ELSE scene.input[c]
  BY <1>1, <1>2
<1>5. TypeOK'
  <2>1. scene'.input \in [Port("out") -> Inputs' \cup {None, NoEnd, Dangling}]
    BY <1>1, <1>2, <1>3, Typed DEF SceneType
  <2>2. QED
    BY <1>2, <1>3, <2>1 DEF TypeOK
<1>6. SelectionRight'
  <2>1. o \notin Items
    BY <1>1, Kinds DEF Items, Connections
  <2>2. Items \subseteq Items'
    BY <1>4, Kinds DEF Items, Connections
  <2>3. QED
    BY <1>1, <1>3, <2>1, <2>2 DEF SelectionRight
<1>7. PointersRight'
  <2>1. SUFFICES ASSUME clean PROVE Good(scene', Inputs, Outputs, o)
    BY <1>1, <1>3 DEF PointersRight
  <2>2. Good(scene, Inputs, Outputs, None)
    BY <1>1, <2>1 DEF PointersRight
  <2>3. ASSUME NEW c \in Port("out"), scene'.input[c] # None, c # o
        PROVE  scene'.input[c] \in Inputs /\ scene'.link[scene'.input[c]] = c
    <3>1. scene'.input[c] = scene.input[c] /\ c # None
      BY <1>4, <2>3, Kinds
    <3>2. QED
      BY <1>2, <2>2, <2>3, <3>1 DEF Good
  <2>4. ASSUME NEW i \in Port("in"), scene'.link[i] # None
        PROVE  /\ i \in Inputs /\ scene'.link[i] \in Outputs /\ scene'.link[i] # o
               /\ scene'.input[scene'.link[i]] = i
    <3>1. i \in Inputs /\ scene.link[i] \in Outputs /\ scene.input[scene.link[i]] = i
      BY <1>2, <2>2, <2>4 DEF Good
    <3>2. scene.link[i] # o /\ scene.link[i] \in Port("out")
      BY <1>1, <3>1, Kinds, Typed
    <3>3. QED
      BY <1>2, <1>4, <3>1, <3>2
  <2>5. ~scene'.crashed /\ scene'.input[o] = NoEnd
    BY <1>1, <1>2, <1>4
  <2>6. QED
    BY <2>3, <2>4, <2>5 DEF Good
<1>8. QED
  BY <1>2, <1>5, <1>6, <1>7

LEMMA MoveSafe ==
  ASSUME EditorInv, NEW end \in Inputs \cup {NoEnd}, Move(end)
  PROVE  EditorInv'
<1> USE DEF EditorInv, Move, Idle
<1>1. /\ drag \in Port("out") /\ DOMAIN scene.input = Port("out") /\ drag # None
      /\ ~scene.crashed /\ pass = "no" /\ pass' = "no" /\ drag' = drag
  BY Typed DEF SceneType, TypeOK
<1>2. /\ scene'.input = [scene.input EXCEPT ![drag] = end] /\ scene'.link = scene.link
      /\ scene'.crashed = scene.crashed /\ DOMAIN scene' = {"input", "link", "crashed"}
  BY <1>1
<1>3. Inputs' = Inputs /\ Outputs' = Outputs
  BY DEF Inputs, Outputs, Live
<1>4. \A c \in Port("out") : scene'.input[c] = IF c = drag THEN end ELSE scene.input[c]
  BY <1>1, <1>2
<1>5. end # None
  BY Kinds, Typed
<1>6. TypeOK'
  <2>1. scene'.input \in [Port("out") -> Inputs' \cup {None, NoEnd, Dangling}]
    BY <1>1, <1>2, <1>3, Typed DEF SceneType
  <2>2. QED
    BY <1>1, <1>2, <1>3, <2>1 DEF TypeOK
<1>7. SelectionRight'
  <2>1. Items \subseteq Items'
    BY <1>4, <1>5 DEF Items, Connections
  <2>2. QED
    BY <1>1, <2>1 DEF SelectionRight
<1>8. PointersRight'
  <2>1. SUFFICES ASSUME clean PROVE Good(scene', Inputs, Outputs, drag)
    BY <1>1, <1>3 DEF PointersRight
  <2>2. Good(scene, Inputs, Outputs, drag)
    BY <2>1 DEF PointersRight
  <2>3. ASSUME NEW c \in Port("out"), scene'.input[c] # None, c # drag
        PROVE  scene'.input[c] \in Inputs /\ scene'.link[scene'.input[c]] = c
    BY <1>2, <1>4, <2>2, <2>3 DEF Good
  <2>4. ASSUME NEW i \in Port("in"), scene'.link[i] # None
        PROVE  /\ i \in Inputs /\ scene'.link[i] \in Outputs /\ scene'.link[i] # drag
               /\ scene'.input[scene'.link[i]] = i
    <3>1. /\ i \in Inputs /\ scene.link[i] \in Outputs /\ scene.input[scene.link[i]] = i
          /\ scene.link[i] # drag
      BY <1>2, <2>2, <2>4 DEF Good
    <3>2. QED
      BY <1>2, <1>4, <3>1, Typed
  <2>5. ~scene'.crashed /\ scene'.input[drag] = end
    BY <1>1, <1>2, <1>4
  <2>6. QED
    BY <2>3, <2>4, <2>5 DEF Good
<1>9. QED
  BY <1>2, <1>6, <1>7, <1>8

LEMMA SelectSafe ==
  ASSUME EditorInv, NEW sel \in SUBSET Items, Select(sel)
  PROVE  EditorInv'
<1> USE DEF EditorInv, Select, Idle
<1>1. sel \subseteq AnyItem
  BY ItemsAreItems
<1>2. Inputs' = Inputs /\ Outputs' = Outputs /\ Items' = Items
  BY DEF Inputs, Outputs, Live, Items, Connections
<1>3. TypeOK'
  BY <1>1, <1>2, ShownIs DEF TypeOK
<1>4. SelectionRight'
  <2>1. None \notin Items /\ drag' = None /\ pass' = "no"
    BY Kinds DEF Items, Connections, Item, None, TypeOK
  <2>2. shown' = Shown(selected')
    OBVIOUS
  <2>3. QED
    BY <1>2, <2>1, <2>2 DEF SelectionRight
<1>5. PointersRight'
  BY <1>2 DEF PointersRight
<1>6. QED
  BY <1>3, <1>4, <1>5

LEMMA MoveBlockSafe ==
  ASSUME EditorInv, NEW b \in DOMAIN ins, MoveBlock(b)
  PROVE  EditorInv'
<1> USE DEF EditorInv, MoveBlock, Idle
<1>1. /\ scene'.input = scene.input /\ scene'.link = scene.link
      /\ scene'.crashed = (\E o \in Touched(b) : scene.input[o] = Dangling)
      /\ DOMAIN scene' = {"input", "link", "crashed"}
  OBVIOUS
<1>2. Inputs' = Inputs /\ Outputs' = Outputs /\ Items' = Items
  BY <1>1 DEF Inputs, Outputs, Live, Items, Connections
<1>3. TypeOK'
  BY <1>1, <1>2 DEF TypeOK
<1>4. SelectionRight'
  BY <1>2 DEF SelectionRight
<1>5. PointersRight'
  <2>1. SUFFICES ASSUME clean PROVE Good(scene', Inputs, Outputs, None) /\ drag = None
    BY <1>2 DEF PointersRight
  <2>2. Good(scene, Inputs, Outputs, None)
    BY <2>1 DEF PointersRight
  <2>3. \A o \in Touched(b) : scene.input[o] # Dangling
    BY <2>2, Kinds, Typed DEF Touched, Connections, Good
  <2>4. ~scene'.crashed
    BY <1>1, <2>3
  <2>5. QED
    BY <1>1, <2>2, <2>4 DEF Good
<1>6. QED
  BY <1>1, <1>3, <1>4, <1>5

LEMMA DeleteKeySafe ==
  ASSUME EditorInv, DeleteKey
  PROVE  EditorInv'
<1> USE DEF EditorInv, DeleteKey, Idle
<1>1. Inputs' = Inputs /\ Outputs' = Outputs /\ Items' = Items
  BY DEF Inputs, Outputs, Live, Items, Connections
<1>2. TypeOK'
  BY <1>1 DEF TypeOK, FirstPass
<1>3. SelectionRight'
  BY <1>1 DEF SelectionRight, FirstPass
<1>4. PointersRight'
  BY <1>1 DEF PointersRight, TypeOK
<1>5. QED
  BY <1>2, <1>3, <1>4

LEMMA PassOverSafe ==
  ASSUME EditorInv, PassOver
  PROVE  EditorInv'
<1> USE DEF EditorInv, PassOver, Idle
<1>1. Inputs' = Inputs /\ Outputs' = Outputs /\ Items' = Items
  BY DEF Inputs, Outputs, Live, Items, Connections
<1>2. TypeOK'
  BY <1>1 DEF TypeOK
<1>3. SelectionRight'
  BY <1>1 DEF SelectionRight, TypeOK
<1>4. PointersRight'
  BY <1>1 DEF PointersRight
<1>5. QED
  BY <1>2, <1>3, <1>4

(* The mouse is released: the connection is dropped nowhere, at an input,  *)
(* or was lost with its input.                                             *)
LEMMA ReleaseSafe ==
  ASSUME EditorInv, Release
  PROVE  EditorInv'
<1> USE DEF EditorInv, Release, Idle
<1> DEFINE end == scene.input[drag]
<1>1. /\ drag \in Port("out") /\ drag \in Outputs /\ drag # None /\ drag' = None
      /\ ~scene.crashed /\ pass = "no" /\ pass' = "no" /\ SceneType(scene, Inputs)
      /\ Inputs \subseteq Port("in") /\ end \in Inputs \cup {None, NoEnd, Dangling}
  BY Typed DEF SceneType, TypeOK
<1>2. Inputs' = Inputs /\ Outputs' = Outputs
  BY DEF Inputs, Outputs, Live
<1>3. None \notin selected'
  BY Kinds DEF SelectionRight, Items, Connections, Item, None
<1>4. LET r == KillConnection(scene, drag)
      IN  /\ SceneType(r, Inputs) /\ WithoutOutput(scene, drag, r)
          /\ r.crashed => (scene.crashed \/ end \in {None, Dangling})
  BY <1>1, KillConnectionIs
<1>5. end = NoEnd => scene' = KillConnection(scene, drag)
  BY Kinds
<1>6. SceneType(scene', Inputs)
  <2>1. CASE end = NoEnd
    BY <1>4, <1>5, <2>1
  <2>2. CASE end = Dangling
    BY <1>1, <2>2, Kinds DEF SceneType
  <2>3. CASE end # NoEnd /\ end # Dangling
    <3>1. /\ scene'.input = scene.input /\ scene'.crashed = scene.crashed
          /\ scene'.link = [scene.link EXCEPT ![end] = drag]
          /\ DOMAIN scene' = {"input", "link", "crashed"}
      BY <2>3
    <3>2. scene'.link \in [Port("in") -> Port("out") \cup {None}]
      BY <1>1, <3>1 DEF SceneType
    <3>3. QED
      BY <1>1, <3>1, <3>2 DEF SceneType
  <2>4. QED
    BY <2>1, <2>2, <2>3
<1>7. TypeOK'
  BY <1>2, <1>6 DEF TypeOK, SceneType
<1>8. SelectionRight'
  <2>1. \A o \in Port("out") : o # drag => (scene'.input[o] # None <=> scene.input[o] # None)
    <3>1. CASE end = NoEnd
      BY <1>1, <3>1, KillConnectionIs DEF WithoutOutput
    <3>2. CASE end # NoEnd
      <4>1. scene'.input = scene.input
        BY <3>2
      <4>2. QED
        BY <4>1
    <3>3. QED
      BY <3>1, <3>2
  <2>2. Items \ {drag} \subseteq Items'
    BY <2>1 DEF Items, Connections
  <2>3. QED
    BY <1>1, <1>3, <2>2 DEF SelectionRight
<1>9. PointersRight'
  <2>1. SUFFICES ASSUME clean' PROVE Good(scene', Inputs, Outputs, None)
    BY <1>1, <1>2 DEF PointersRight
  <2>2. Good(scene, Inputs, Outputs, drag) /\ (end \in Inputs => scene.link[end] = None)
    BY <2>1 DEF PointersRight, TypeOK
  <2>3. CASE end = NoEnd
    <3>1. /\ WithoutOutput(scene, drag, scene')
          /\ scene'.crashed => (scene.crashed \/ end \in {None, Dangling})
      BY <1>4, <1>5, <2>3
    <3>2. ~scene'.crashed
      BY <1>1, <2>3, <3>1, Kinds
    <3>3. PICK p : p = drag
      OBVIOUS
    <3>4. Good(scene', Inputs, Outputs \ {p}, IF drag = p THEN None ELSE drag)
      BY <1>1, <2>2, <2>3, <3>1, <3>2, <3>3, ForgetGood
    <3>5. QED
      BY <3>3, <3>4, GoodGrows
  <2>4. CASE end \in Inputs
    <3>1. scene' = [scene EXCEPT !.link[end] = drag]
      BY <1>1, <2>4, Kinds
    <3>2. /\ scene'.input = scene.input /\ scene'.crashed = scene.crashed
          /\ \A i \in Port("in") : scene'.link[i] = IF i = end THEN drag ELSE scene.link[i]
      BY <1>1, <2>4, <3>1 DEF SceneType
    <3>3. ASSUME NEW o \in Port("out"), scene'.input[o] # None
          PROVE  scene'.input[o] \in Inputs /\ scene'.link[scene'.input[o]] = o
      <4>1. CASE o = drag
        BY <1>1, <2>4, <3>2, <4>1
      <4>2. CASE o # drag
        <5>1. scene.input[o] \in Inputs /\ scene.link[scene.input[o]] = o
          BY <2>2, <3>2, <3>3, <4>2 DEF Good
        <5>2. scene.input[o] # end
          BY <2>2, <2>4, <5>1, Kinds
        <5>3. QED
          BY <1>1, <3>2, <5>1, <5>2
      <4>3. QED
        BY <4>1, <4>2
    <3>4. ASSUME NEW i \in Port("in"), scene'.link[i] # None
          PROVE  /\ i \in Inputs /\ scene'.link[i] \in Outputs
                 /\ scene'.input[scene'.link[i]] = i
      BY <1>1, <2>2, <2>4, <3>2, <3>4 DEF Good
    <3>5. QED
      BY <1>1, <3>2, <3>3, <3>4 DEF Good
  <2>5. QED
    BY <1>1, <2>2, <2>3, <2>4 DEF Good
<1>10. QED
  BY <1>6, <1>7, <1>8, <1>9 DEF SceneType

(* One connection of the first pass. *)
LEMMA DeleteConnectionSafe ==
  ASSUME EditorInv, DeleteNext, NEW o \in si, ~IsBlock(o), si' = si \ {o}, DeleteConnection(o)
  PROVE  EditorInv'
<1> USE DEF EditorInv, DeleteNext, DeleteConnection
<1>1. /\ pass = "connections" /\ pass' = pass /\ o \in Connections /\ o \in Port("out")
      /\ o # drag /\ drag' = drag /\ SceneType(scene, Inputs) /\ Inputs \subseteq Port("in")
      /\ scene' = KillConnection(scene, o)
  BY Typed, Kinds DEF TypeOK, SelectionRight, Items, Connections
<1>2. Inputs' = Inputs /\ Outputs' = Outputs
  BY DEF Inputs, Outputs, Live
<1>3. /\ SceneType(scene', Inputs) /\ WithoutOutput(scene, o, scene')
      /\ scene'.crashed => (scene.crashed \/ scene.input[o] \in {None, Dangling})
  BY <1>1, KillConnectionIs
<1>4. Items \ {o} \subseteq Items'
  BY <1>3 DEF Items, Connections, WithoutOutput
<1>5. TypeOK'
  <2>1. shown' \in 0..MaxBlocks
    BY ShownIs DEF TypeOK
  <2>2. QED
    BY <1>2, <1>3, <2>1 DEF TypeOK, SceneType
<1>6. SelectionRight'
  BY <1>1, <1>4 DEF SelectionRight
<1>7. PointersRight'
  <2>1. SUFFICES ASSUME clean
        PROVE  /\ Good(scene', Inputs, Outputs, drag)
               /\ drag # None => scene'.input[drag] = NoEnd
    BY <1>1, <1>2 DEF PointersRight
  <2>2. Good(scene, Inputs, Outputs, drag) /\ (drag # None => scene.input[drag] = NoEnd)
    BY <1>1, <2>1 DEF PointersRight
  <2>3. ~scene'.crashed
    BY <1>1, <1>3, <2>2, Kinds DEF Connections, Good
  <2>4. drag \in Port("out") \cup {None}
    BY Typed DEF TypeOK
  <2>5. Good(scene', Inputs, Outputs \ {o}, IF drag = o THEN None ELSE drag)
    BY <1>1, <1>3, <2>2, <2>3, <2>4, ForgetGood
  <2>6. Good(scene', Inputs, Outputs, drag)
    BY <1>1, <2>5, GoodGrows
  <2>7. drag # None => scene'.input[drag] = NoEnd
    BY <1>1, <1>3, <2>2, <2>4 DEF WithoutOutput
  <2>8. QED
    BY <2>6, <2>7
<1>8. QED
  BY <1>3, <1>5, <1>6, <1>7 DEF SceneType

(* The ports of block b. *)
LEMMA PortsOf ==
  ASSUME TypeOK, DOMAIN scene = {"input", "link", "crashed"}, NEW b \in DOMAIN ins
  PROVE  /\ b \in Block /\ ins[b] \in Nat /\ ins[b] <= MaxPorts
         /\ outs[b] \in Nat /\ outs[b] <= MaxPorts
         /\ Live(b, "in") = Some(b, "in", 0, ins[b])
         /\ Live(b, "out") = Some(b, "out", 0, outs[b])
<1>1. /\ b \in Block /\ ins[b] \in Nat /\ ins[b] <= MaxPorts
      /\ outs[b] \in Nat /\ outs[b] <= MaxPorts
  BY Typed, SceneAssumption
<1>2. Live(b, "in") = Some(b, "in", 0, ins[b]) /\ Live(b, "out") = Some(b, "out", 0, outs[b])
  BY <1>1 DEF Live, Some
<1>3. QED
  BY <1>1, <1>2

(* One block of the second pass: its ports go with their connections, and  *)
(* with the connection that is being dragged from one of them.             *)
LEMMA DeleteBlockSafe ==
  ASSUME EditorInv, DeleteNext, NEW b \in DOMAIN ins, Item(b) \in si, pass = "rest",
         si' = si \ {Item(b)}, DeleteBlock(b)
  PROVE  EditorInv'
<1> USE DEF EditorInv, DeleteNext, DeleteBlock
<1> DEFINE P == Some(b, "in", 0, ins[b])
           Q == Some(b, "out", 0, outs[b])
<1>1. PICK s : s = KillPorts(scene, b, "in", 0, ins[b])
  OBVIOUS
<1>2. scene' = KillPorts(s, b, "out", 0, outs[b])
  BY <1>1 DEF KillBlock
<1>3. /\ b \in Block /\ ins[b] \in Nat /\ ins[b] <= MaxPorts /\ 0 <= ins[b]
      /\ outs[b] \in Nat /\ outs[b] <= MaxPorts /\ 0 <= outs[b]
      /\ Live(b, "in") = P /\ Live(b, "out") = Q
  BY PortsOf
<1>4. /\ Inputs \subseteq Port("in") /\ Outputs \subseteq Port("out")
      /\ SceneType(scene, Inputs) /\ drag \in Outputs \cup {None}
  BY Typed DEF TypeOK
<1>5. DOMAIN ins' = DOMAIN ins \ {b} /\ DOMAIN outs' = DOMAIN ins \ {b}
  BY Typed
<1>6. \A c \in DOMAIN ins' : ins'[c] = ins[c] /\ outs'[c] = outs[c]
  BY <1>5
<1>7. Inputs' = Inputs \ P
  BY <1>3, <1>5, <1>6 DEF Inputs, Live
<1>8. Outputs' = Outputs \ Q
  BY <1>3, <1>5, <1>6, Typed DEF Outputs, Live
<1>9. drag' = Held(drag, Q)
  BY <1>3, <1>4, Kinds DEF Outputs, Live, Held
<1> HIDE DEF P, Q
<1>10. InputsDeleted(scene, Inputs, P, s)
  BY <1>1, <1>3, <1>4, KillInputs DEF P
<1>11. OutputsDeleted(s, Inputs \ P, Q, scene')
  <2>1. PICK I : I = Inputs \ P /\ I \subseteq Port("in") /\ SceneType(s, I)
    BY <1>4, <1>10 DEF InputsDeleted
  <2>2. OutputsDeleted(s, I, Q, scene')
    BY <1>2, <1>3, <2>1, KillOutputs DEF Q
  <2>3. QED
    BY <2>1, <2>2
<1>12. /\ selected' = selected \ ({Item(b)} \cup Gone(scene'))
       /\ shown' = Shown(selected') /\ pass' = "rest"
  BY <1>2 DEF KillBlock
<1>13. TypeOK'
  <2>1. drag' \in Outputs' \cup {None}
    BY <1>4, <1>8, <1>9 DEF Held
  <2>2. DOMAIN ins' = DOMAIN outs' /\ DOMAIN ins' \subseteq 1..blocks'
    BY <1>5 DEF TypeOK
  <2>3. Range(ins') \cup Range(outs') \subseteq 0..MaxPorts
    BY <1>5, <1>6, Typed DEF Range
  <2>4. selected' \subseteq AnyItem /\ si' \subseteq AnyItem
    BY <1>12 DEF TypeOK
  <2>5. shown' \in 0..MaxBlocks
    BY <1>12, <2>4, ShownIs
  <2>6. QED
    BY <1>7, <1>11, <1>12, <2>1, <2>2, <2>3, <2>4, <2>5 DEF TypeOK, SceneType, OutputsDeleted
<1>14. SelectionRight'
  <2>1. selected' \subseteq Items'
    <3>1. ASSUME NEW x \in selected' PROVE x \in Items'
      <4>1. x \in Items /\ x # Item(b) /\ x \notin Gone(scene')
        BY <1>12, <3>1 DEF SelectionRight
      <4>2. CASE x \in Connections
        BY <4>1, <4>2 DEF Gone, Items, Connections
      <4>3. CASE x \notin Connections
        BY <1>5, <4>1, <4>3 DEF Items
      <4>4. QED
        BY <4>2, <4>3
    <3>2. QED
      BY <3>1
  <2>2. drag' \notin selected'
    <3>1. None \notin Items
      BY Kinds DEF Items, Connections, Item, None
    <3>2. QED
      BY <1>9, <1>12, <3>1 DEF SelectionRight, Held
  <2>3. si' \subseteq selected' /\ \A x \in si' : IsBlock(x)
    <3>1. \A x \in si : IsBlock(x) /\ x \in selected
      BY DEF SelectionRight
    <3>2. \A x \in Gone(scene') : ~IsBlock(x)
      BY Kinds DEF Gone, Connections
    <3>3. QED
      BY <1>12, <3>1, <3>2
  <2>4. QED
    BY <1>12, <2>1, <2>2, <2>3 DEF SelectionRight
<1>15. PointersRight'
  <2>1. SUFFICES ASSUME clean
        PROVE  /\ Good(scene', Inputs \ P, Outputs \ Q, Held(drag, Q))
               /\ Held(drag, Q) # None => scene'.input[Held(drag, Q)] = NoEnd
    BY <1>7, <1>8, <1>9, <1>12 DEF PointersRight
  <2>2. Good(scene, Inputs, Outputs, drag) /\ (drag # None => scene.input[drag] = NoEnd)
    BY <2>1 DEF PointersRight
  <2>3. drag # None => scene.input[drag] \notin P
    <3>1. P \subseteq Port("in")
      BY <1>3, SomePorts DEF P
    <3>2. QED
      BY <2>2, <3>1, Kinds
  <2>4. Good(s, Inputs \ P, Outputs, drag) /\ (drag # None => s.input[drag] = NoEnd)
    <3>1. InputsGone(scene, Inputs, Outputs, drag, P, s)
      BY <1>4, <1>10, <2>2, <2>3 DEF InputsDeleted
    <3>2. QED
      BY <2>2, <3>1 DEF InputsGone
  <2>5. /\ Good(scene', Inputs \ P, Outputs \ Q, Held(drag, Q))
        /\ drag \notin Q /\ drag # None => scene'.input[drag] = s.input[drag]
    <3>1. Q \subseteq Port("out")
      BY <1>3, SomePorts DEF Q
    <3>2. drag \in Q => s.input[drag] = NoEnd
      BY <2>4, <3>1, Kinds
    <3>3. OutputsGone(s, Inputs \ P, Outputs, drag, Q, scene')
      BY <1>4, <1>11, <2>4, <3>2 DEF OutputsDeleted
    <3>4. QED
      BY <3>3 DEF OutputsGone
  <2>6. QED
    BY <2>4, <2>5 DEF Held
<1>16. QED
  BY <1>11, <1>13, <1>14, <1>15 DEF SceneType, OutputsDeleted

LEMMA DeleteNextSafe ==
  ASSUME EditorInv, DeleteNext
  PROVE  EditorInv'
<1>1. PICK x \in si : /\ si' = si \ {x}
                      /\ IF IsBlock(x) THEN DeleteBlock(x[1]) ELSE DeleteConnection(x)
  BY DEF DeleteNext
<1>2. pass \in {"connections", "rest"}
  BY DEF DeleteNext, EditorInv, TypeOK
<1>3. CASE IsBlock(x)
  <2>1. pass = "rest" /\ x \in Items
    BY <1>2, <1>3 DEF EditorInv, SelectionRight
  <2>2. PICK b \in DOMAIN ins : x = Item(b)
    BY <1>3, <2>1, Kinds DEF Items, Connections
  <2>3. DeleteBlock(b) /\ Item(b) \in si /\ si' = si \ {Item(b)}
    BY <1>1, <1>3, <2>2, Kinds
  <2>4. QED
    BY <2>1, <2>3, DeleteBlockSafe
<1>4. CASE ~IsBlock(x)
  BY <1>1, <1>4, DeleteConnectionSafe
<1>5. QED
  BY <1>3, <1>4

(* The block that the panel shows exists and is selected alone. *)
LEMMA ShownExists ==
  ASSUME EditorInv
  PROVE  ShownIsSelected
<1>1. selected \subseteq AnyItem /\ selected \subseteq Items /\ shown = Shown(selected)
  BY DEF EditorInv, TypeOK, SelectionRight
<1>2. shown # NoBlock => selected = {Item(shown)}
  BY <1>1, ShownIs
<1>3. \A b : Item(b) \in Items => b \in DOMAIN ins
  BY Kinds DEF Items, Connections
<1>4. QED
  BY <1>1, <1>2, <1>3 DEF ShownIsSelected

(* A port count is edited: the surplus ports go with their connections. *)
LEMMA SetIOsSafe ==
  ASSUME EditorInv, NEW type \in {"in", "out"}, NEW n \in PortCounts, SetIOs(type, n)
  PROVE  EditorInv'
<1> USE DEF EditorInv, SetIOs, Idle
<1> DEFINE old == IF type = "in" THEN ins[shown] ELSE outs[shown]
           top == IF n < old THEN old ELSE n
           D == Some(shown, type, n, top)
<1>1. shown \in DOMAIN ins /\ shown \in Block
  BY ShownExists, Typed DEF ShownIsSelected
<1>2. n \in Nat /\ n <= MaxPorts /\ top \in Nat /\ n <= top /\ top <= MaxPorts
  BY <1>1, PortsOf, SceneAssumption DEF PortCounts
<1>3. /\ DOMAIN ins' = DOMAIN ins /\ DOMAIN outs' = DOMAIN ins
      /\ \A c \in DOMAIN ins : c # shown => ins'[c] = ins[c] /\ outs'[c] = outs[c]
      /\ type = "in" => ins'[shown] = n /\ outs' = outs
      /\ type = "out" => outs'[shown] = n /\ ins' = ins
  BY <1>1, Typed
<1>4. /\ drag = None /\ drag' = None /\ pass = "no" /\ pass' = "no"
      /\ scene' = KillPorts(scene, shown, type, n, top)
      /\ SceneType(scene, Inputs) /\ Inputs \subseteq Port("in") /\ Outputs \subseteq Port("out")
  BY <1>1, Typed
<1>5. selected' = selected \ Gone(scene') /\ shown' = Shown(selected')
  BY <1>1
<1>6. \A c \in DOMAIN ins : \A p \in Live(c, "in") \ D : p \in Inputs'
  BY <1>1, <1>2, <1>3, PortsOf DEF Inputs, Live, Some
<1>7. \A c \in DOMAIN ins : \A p \in Live(c, "out") \ D : p \in Outputs'
  BY <1>1, <1>2, <1>3, PortsOf DEF Outputs, Live, Some
<1>8. Inputs \ D \subseteq Inputs' /\ Outputs \ D \subseteq Outputs'
  BY <1>6, <1>7, Typed DEF Inputs, Outputs
<1>9. D \subseteq Port(type)
  BY <1>1, <1>2, SomePorts
<1> HIDE DEF D, top, old
<1>10. /\ SceneType(scene', Inputs')
       /\ Good(scene, Inputs, Outputs, None) => Good(scene', Inputs', Outputs', None)
  <2>1. CASE type = "in"
    <3>1. InputsDeleted(scene, Inputs, D, scene')
      BY <1>1, <1>2, <1>4, <2>1, KillInputs DEF D
    <3>2. SceneType(scene', Inputs')
      BY <1>8, <3>1 DEF InputsDeleted, SceneType
    <3>3. ASSUME Good(scene, Inputs, Outputs, None)
          PROVE  Good(scene', Inputs', Outputs', None)
      <4>1. InputsGone(scene, Inputs, Outputs, None, D, scene')
        BY <3>1, <3>3 DEF InputsDeleted
      <4>2. Outputs \subseteq Outputs'
        BY <1>4, <1>8, <1>9, <2>1, Kinds
      <4>3. QED
        BY <1>8, <4>1, <4>2, GoodGrows DEF InputsGone
    <3>4. QED
      BY <3>2, <3>3
  <2>2. CASE type = "out"
    <3>1. OutputsDeleted(scene, Inputs, D, scene')
      BY <1>1, <1>2, <1>4, <2>2, KillOutputs DEF D
    <3>2. Inputs \subseteq Inputs'
      BY <1>4, <1>8, <1>9, <2>2, Kinds
    <3>3. SceneType(scene', Inputs')
      BY <3>1, <3>2 DEF OutputsDeleted, SceneType
    <3>4. ASSUME Good(scene, Inputs, Outputs, None)
          PROVE  Good(scene', Inputs', Outputs', None)
      <4>1. None \notin D
        BY <1>9, <2>2, Kinds
      <4>2. OutputsGone(scene, Inputs, Outputs, None, D, scene')
        BY <3>1, <3>4, <4>1 DEF OutputsDeleted
      <4>3. QED
        BY <1>8, <3>2, <4>1, <4>2, GoodGrows DEF OutputsGone, Held
    <3>5. QED
      BY <3>3, <3>4
  <2>3. QED
    BY <2>1, <2>2
<1>11. TypeOK'
  <2>1. DOMAIN ins' = DOMAIN outs' /\ DOMAIN ins' \subseteq 1..blocks'
    BY <1>3 DEF TypeOK
  <2>2. Range(ins') \cup Range(outs') \subseteq 0..MaxPorts
    <3>1. \A c \in DOMAIN ins : ins'[c] \in 0..MaxPorts /\ outs'[c] \in 0..MaxPorts
      BY <1>3, Typed DEF PortCounts
    <3>2. QED
      BY <1>3, <3>1 DEF Range
  <2>3. selected' \subseteq AnyItem
    BY <1>5 DEF TypeOK
  <2>4. shown' \in 0..MaxBlocks
    BY <1>5, <2>3, ShownIs
  <2>5. QED
    BY <1>4, <1>10, <2>1, <2>2, <2>3, <2>4 DEF TypeOK, SceneType
<1>12. SelectionRight'
  <2>1. ASSUME NEW x \in selected' PROVE x \in Items'
    <3>1. x \in Items /\ x \notin Gone(scene')
      BY <1>5, <2>1 DEF SelectionRight
    <3>2. CASE x \in Connections
      BY <3>1, <3>2 DEF Gone, Items, Connections
    <3>3. CASE x \notin Connections
      BY <1>3, <3>1, <3>3 DEF Items
    <3>4. QED
      BY <3>2, <3>3
  <2>2. QED
    BY <1>4, <1>5, <2>1 DEF SelectionRight
<1>13. PointersRight'
  BY <1>4, <1>10 DEF PointersRight
<1>14. QED
  BY <1>10, <1>11, <1>12, <1>13 DEF SceneType

LEMMA StutterSafe ==
  ASSUME EditorInv, UNCHANGED vars
  PROVE  EditorInv'
<1> USE DEF EditorInv, vars
<1>1. Inputs' = Inputs /\ Outputs' = Outputs /\ Items' = Items
  BY DEF Inputs, Outputs, Live, Items, Connections
<1>2. TypeOK'
  BY <1>1 DEF TypeOK
<1>3. SelectionRight'
  BY <1>1 DEF SelectionRight
<1>4. PointersRight'
  BY <1>1 DEF PointersRight
<1>5. QED
  BY <1>2, <1>3, <1>4

LEMMA EditorStep ==
  ASSUME EditorInv, [Next]_vars
  PROVE  EditorInv'
<1>1. CASE Next
  <2>1. CASE Drop
    BY <2>1, DropSafe
  <2>2. CASE Release
    BY <2>2, ReleaseSafe
  <2>3. CASE DeleteKey
    BY <2>3, DeleteKeySafe
  <2>4. CASE DeleteNext
    BY <2>4, DeleteNextSafe
  <2>5. CASE PassOver
    BY <2>5, PassOverSafe
  <2>6. CASE \E o \in Outputs : Press(o)
    BY <2>6, PressSafe
  <2>7. CASE \E end \in Inputs \cup {NoEnd} : Move(end)
    BY <2>7, MoveSafe
  <2>8. CASE \E sel \in SUBSET Items : Cardinality(sel) <= MaxSelected /\ Select(sel)
    BY <2>8, SelectSafe
  <2>9. CASE \E b \in DOMAIN ins : MoveBlock(b)
    BY <2>9, MoveBlockSafe
  <2>10. CASE \E type \in {"in", "out"}, n \in PortCounts : SetIOs(type, n)
    BY <2>10, SetIOsSafe
  <2>11. QED
    BY <1>1, <2>1, <2>2, <2>3, <2>4, <2>5, <2>6, <2>7, <2>8, <2>9, <2>10 DEF Next
<1>2. CASE UNCHANGED vars
  BY <1>2, StutterSafe
<1>3. QED
  BY <1>1, <1>2

-----------------------------------------------------------------------------
(* The theorems. *)

(* Every state of the editor satisfies the invariant. *)
THEOREM EditorInvariance == Spec => []EditorInv
<1>1. Init => EditorInv
  BY EditorInit
<1>2. EditorInv /\ [Next]_vars => EditorInv'
  BY EditorStep
<1>3. QED
  BY <1>1, <1>2, PTL DEF Spec

(* A finished connection and the input at its end know each other, however *)
(* ports, blocks and connections are deleted (connection.cpp, port.cpp).   *)
THEOREM LinksMutualCorrect == Spec => []LinksMutual
<1>1. EditorInv => LinksMutual
  <2>1. SUFFICES ASSUME EditorInv, clean, ~scene.crashed
                 PROVE  /\ \A o \in Connections \ {drag} :
                             scene.input[o] \in Inputs /\ scene.link[scene.input[o]] = o
                        /\ \A i \in Port("in") : scene.link[i] # None =>
                             i \in Inputs /\ scene.link[i] \in Outputs
                             /\ scene.input[scene.link[i]] = i
    BY DEF EditorInv, LinksMutual
  <2>2. Good(scene, Inputs, Outputs, drag)
    BY <2>1 DEF EditorInv, PointersRight
  <2>3. QED
    BY <2>2 DEF Good, Connections
<1>2. QED
  BY <1>1, EditorInvariance, PTL

(* No pointer to a deleted port or connection is followed, and nothing is  *)
(* deleted twice (Connection::~Connection, Port::mouseReleaseEvent,        *)
(* BlockScene::keyPressEvent).                                             *)
THEOREM NoDanglingCorrect == Spec => []NoDangling
<1>1. EditorInv => NoDangling
  BY DEF EditorInv, PointersRight, Good, NoDangling
<1>2. QED
  BY <1>1, EditorInvariance, PTL

(* The panel of properties shows the block that is selected, and it        *)
(* exists, also between the steps of a deletion (mainwindow.cpp).          *)
THEOREM ShownIsSelectedCorrect == Spec => []ShownIsSelected
<1>1. EditorInv => ShownIsSelected
  BY ShownExists
<1>2. QED
  BY <1>1, EditorInvariance, PTL
=============================================================================
