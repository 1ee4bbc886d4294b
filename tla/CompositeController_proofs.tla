--------------------- MODULE CompositeController_proofs ---------------------
(***************************************************************************)
(* Proofs about CompositeController: whatever clients do, and however many *)
(* of them crash, replies and notifications go where they should unless an *)
(* earlier client crashed, the server survives one crash, it stops with    *)
(* its last client, and a master once elected is not lost while the        *)
(* collaboration manager lives: its references are accounted for.          *)
(***************************************************************************)
EXTENDS CompositeController, SequenceTheorems, FiniteSetTheorems, TLAPS

-----------------------------------------------------------------------------
(* Counting                                                                *)

\* What holds of 0, and of every number after one of which it holds, holds of
\* all up to n: stated for the set of those of which it does not.
LEMMA NoLeastExample ==
  ASSUME NEW n \in Nat, NEW S \in SUBSET (0 .. n), 0 \notin S,
         \A k \in 1 .. n : k \in S => k - 1 \in S
  PROVE  S = {}
<1> SUFFICES ASSUME S # {} PROVE FALSE
  OBVIOUS
<1> DEFINE Less == OpToRel(<, Nat)
<1>1. IsWellFoundedOn(Less, Nat)
  BY NatLessThanWellFounded
<1>2. S \subseteq Nat
  OBVIOUS
<1>3. \A x, y \in Nat : y < x => <<y, x>> \in Less
  BY DEF OpToRel
<1> HIDE DEF Less
<1>4. PICK k \in S : \A j \in S : ~(<<j, k>> \in Less)
  BY <1>1, <1>2, WFMin
<1>5. k \in 1 .. n /\ k - 1 \in S
  BY <1>2
<1>6. k - 1 < k /\ k - 1 \in Nat /\ k \in Nat
  BY <1>5
<1> QED
  BY <1>3, <1>4, <1>5, <1>6

-----------------------------------------------------------------------------
(* Vectors                                                                 *)

\* An element is erased: what precedes it stays, what follows moves down.
LEMMA Removed ==
  ASSUME NEW S, NEW q \in Seq(S), NEW n \in DOMAIN q, NEW t, t = RemoveAt(q, n)
  PROVE  /\ t \in Seq(S)
         /\ Len(q) \in Nat \ {0} /\ DOMAIN q = 1 .. Len(q)
         /\ Len(t) = Len(q) - 1 /\ DOMAIN t = 1 .. Len(q) - 1
         /\ \A i \in 1 .. Len(q) - 1 : i < n => t[i] = q[i]
         /\ \A i \in 1 .. Len(q) - 1 : ~(i < n) => t[i] = q[i + 1]
<1> DEFINE a == SubSeq(q, 1, n - 1)
           b == SubSeq(q, n + 1, Len(q))
<1>1. Len(q) \in Nat \ {0} /\ DOMAIN q = 1 .. Len(q) /\ n \in 1 .. Len(q)
  BY LenProperties
<1>2. /\ a \in Seq(S) /\ Len(a) = n - 1
      /\ \A i \in 1 .. n - 1 : a[i] = q[i]
  <2>1. \A i \in 1 .. n - 1 : q[i] \in S
    BY <1>1, ElementOfSeq
  <2>2. QED
    BY <1>1, <2>1, SubSeqProperties
<1>3. /\ b \in Seq(S) /\ Len(b) = Len(q) - n
      /\ \A i \in 1 .. Len(q) - n : b[i] = q[i + n]
  <2>1. \A i \in n + 1 .. Len(q) : q[i] \in S
    BY <1>1, ElementOfSeq
  <2>2. QED
    BY <1>1, <2>1, SubSeqProperties
<1>4. t = a \o b
  BY DEF RemoveAt
<1> HIDE DEF a, b
<1>5. t \in Seq(S) /\ Len(t) = Len(a) + Len(b)
  BY <1>2, <1>3, <1>4, ConcatProperties
<1>6. ASSUME NEW i \in 1 .. Len(a) + Len(b)
      PROVE  /\ i <= Len(a) => t[i] = a[i]
             /\ ~(i <= Len(a)) => t[i] = b[i - Len(a)]
  <2>1. a \in Seq(S) /\ b \in Seq(S)
    BY <1>2, <1>3
  <2>2. (a \o b)[i] = IF i <= Len(a) THEN a[i] ELSE b[i - Len(a)]
    BY <2>1, ConcatProperties
  <2>3. QED
    BY <1>4, <2>2
<1>7. Len(t) = Len(q) - 1
  BY <1>1, <1>2, <1>3, <1>5
<1>8. ASSUME NEW i \in 1 .. Len(q) - 1
      PROVE  (i < n => t[i] = q[i]) /\ (~(i < n) => t[i] = q[i + 1])
  <2>1. CASE i < n
    <3>1. i \in 1 .. n - 1 /\ i <= Len(a) /\ i \in 1 .. Len(a) + Len(b)
      BY <1>1, <1>2, <1>3, <2>1
    <3>2. QED
      BY <1>2, <1>6, <2>1, <3>1
  <2>2. CASE ~(i < n)
    <3>1. /\ i - (n - 1) \in 1 .. Len(q) - n /\ ~(i <= Len(a))
          /\ i \in 1 .. Len(a) + Len(b) /\ i - Len(a) = i - (n - 1)
          /\ (i - (n - 1)) + n = i + 1
      BY <1>1, <1>2, <1>3, <2>2
    <3>2. QED
      BY <1>3, <1>6, <2>2, <3>1
  <2>3. QED
    BY <2>1, <2>2
<1>9. QED
  BY <1>1, <1>5, <1>7, <1>8, LenProperties


\* Push_back.
LEMMA Appended ==
  ASSUME NEW S, NEW q \in Seq(S), NEW x \in S
  PROVE  /\ Append(q, x) \in Seq(S) /\ Len(Append(q, x)) = Len(q) + 1
         /\ Append(q, x)[Len(q) + 1] = x
         /\ \A i \in 1 .. Len(q) : Append(q, x)[i] = q[i]
         /\ Len(q) \in Nat /\ DOMAIN q = 1 .. Len(q)
         /\ DOMAIN Append(q, x) = 1 .. Len(q) + 1
BY AppendProperties, LenProperties

\* What is left behind goes in front of what was left behind before.
LEMMA Prepended ==
  ASSUME NEW S, NEW q \in Seq(S), NEW x \in S
  PROVE  /\ <<x>> \o q \in Seq(S) /\ Len(<<x>> \o q) = Len(q) + 1
         /\ (<<x>> \o q)[1] = x
         /\ \A i \in 1 .. Len(q) : (<<x>> \o q)[i + 1] = q[i]
<1> DEFINE a == <<x>>
<1>1. a \in Seq(S) /\ Len(a) = 1 /\ a[1] = x
  OBVIOUS
<1>2. Len(q) \in Nat
  BY LenProperties
<1> HIDE DEF a
<1>3. /\ a \o q \in Seq(S) /\ Len(a \o q) = Len(a) + Len(q)
      /\ \A i \in 1 .. Len(a) + Len(q) :
           (a \o q)[i] = IF i <= Len(a) THEN a[i] ELSE q[i - Len(a)]
  BY <1>1, ConcatProperties
<1>4. (a \o q)[1] = x
  BY <1>1, <1>2, <1>3
<1>5. ASSUME NEW i \in 1 .. Len(q) PROVE (a \o q)[i + 1] = q[i]
  <2>1. i + 1 \in 1 .. Len(a) + Len(q) /\ ~(i + 1 <= Len(a))
        /\ i + 1 - Len(a) = i
    BY <1>1, <1>2
  <2> QED
    BY <1>3, <2>1
<1> QED
  BY <1>1, <1>2, <1>3, <1>4, <1>5 DEF a

-----------------------------------------------------------------------------
(* Controllers                                                             *)

\* The vector is in the order of the Ids, the slot is a cell that has held
\* a controller, and at most one registered controller is the master.
Fine(c) ==
  /\ c \in [vec : Seq(Client), ghost : Seq(Client), slot : 0 .. MaxClients,
             comm : 0 .. MaxClients, masters : SUBSET Client, down : BOOLEAN,
             ref : Nat, registered : SUBSET Client, released : BOOLEAN]
  /\ \A i, j \in DOMAIN c.vec : i < j => c.vec[i] < c.vec[j]
  /\ c.slot <= Len(c.vec) + Len(c.ghost)
  /\ c.masters \subseteq ToSet(c.vec)
  /\ \E m \in Client : c.masters \subseteq {m}

\* Numbers of slots.
LEMMA Cells ==
  ASSUME NEW c, Fine(c)
  PROVE  /\ DOMAIN c.vec = 1 .. Len(c.vec) /\ Len(c.vec) \in Nat
         /\ DOMAIN c.ghost = 1 .. Len(c.ghost) /\ Len(c.ghost) \in Nat
         /\ \A i \in DOMAIN c.vec : c.vec[i] \in Client
         /\ \A i \in DOMAIN c.ghost : c.ghost[i] \in Client
         /\ c.slot \in Nat /\ MaxClients \in Nat
         /\ ToSet(c.vec) \subseteq Client
         /\ NULL \notin Client
         /\ \A i \in DOMAIN c.vec : i # NULL
<1>1. /\ c.vec \in Seq(Client) /\ c.ghost \in Seq(Client)
      /\ c.slot \in 0 .. MaxClients /\ MaxClients \in Nat
  BY MaxClientsAssumption DEF Fine
<1>2. /\ DOMAIN c.vec = 1 .. Len(c.vec) /\ Len(c.vec) \in Nat
      /\ DOMAIN c.ghost = 1 .. Len(c.ghost) /\ Len(c.ghost) \in Nat
      /\ \A i \in DOMAIN c.vec : c.vec[i] \in Client
      /\ \A i \in DOMAIN c.ghost : c.ghost[i] \in Client
  BY <1>1, LenProperties, ElementOfSeq
<1>3. NULL \notin Client
  BY <1>1 DEF NULL, Client
<1>4. \A i \in DOMAIN c.vec : i # NULL
  BY <1>2 DEF NULL
<1> QED
  BY <1>1, <1>2, <1>3, <1>4 DEF ToSet

\* A controller is in one cell only.
LEMMA OneCell ==
  ASSUME NEW c, Fine(c), NEW i \in DOMAIN c.vec, NEW j \in DOMAIN c.vec,
         c.vec[i] = c.vec[j]
  PROVE  i = j
<1>1. i \in Nat /\ j \in Nat /\ c.vec[i] \in Nat /\ c.vec[j] \in Nat
  BY Cells DEF Client
<1>2. i < j => c.vec[i] < c.vec[j]
  BY DEF Fine
<1>3. j < i => c.vec[j] < c.vec[i]
  BY DEF Fine
<1> QED
  BY <1>1, <1>2, <1>3

\* A registered controller is found.
LEMMA Found ==
  ASSUME NEW c, Fine(c), NEW id \in ToSet(c.vec)
  PROVE  SlotOf(c, id) \in DOMAIN c.vec /\ c.vec[SlotOf(c, id)] = id
<1>1. \E i \in DOMAIN c.vec : c.vec[i] = id
  BY DEF ToSet
<1> QED
  BY <1>1 DEF SlotOf

\* The collaboration manager is the same.
SameManager(c, u) ==
  u.ref = c.ref /\ u.registered = c.registered /\ u.released = c.released

\* What unregistering a controller does to the cells.
Erased(c, u, p) ==
  /\ p \in DOMAIN c.vec
  /\ u.vec \in Seq(Client) /\ Len(u.vec) = Len(c.vec) - 1
  /\ DOMAIN u.vec = 1 .. Len(c.vec) - 1
  /\ \A i \in 1 .. Len(c.vec) - 1 :
       u.vec[i] = IF i < p THEN c.vec[i] ELSE c.vec[i + 1]
  /\ u.ghost \in Seq(Client) /\ Len(u.ghost) = Len(c.ghost) + 1
  /\ u.ghost[1] = c.vec[Len(c.vec)]
  /\ \A i \in 1 .. Len(c.ghost) : u.ghost[i + 1] = c.ghost[i]
  /\ u.slot = IF c.slot = p THEN NULL ELSE c.slot
  /\ u.comm = IF c.slot = p THEN NULL ELSE c.comm
  /\ u.masters = c.masters \ {c.vec[p]}
  /\ u.down = c.down /\ SameManager(c, u)

\* Unregistering a registered controller erases its cell, keeps the vector in
\* order, and removes that controller only.
LEMMA UnRegistering ==
  ASSUME NEW c, Fine(c), NEW id \in ToSet(c.vec)
  PROVE  /\ Erased(c, UnRegisterController(c, id), SlotOf(c, id))
         /\ Fine(UnRegisterController(c, id))
         /\ ToSet(UnRegisterController(c, id).vec) = ToSet(c.vec) \ {id}
<1> DEFINE u == UnRegisterController(c, id)
           p == SlotOf(c, id)
           n == Len(c.vec)
           v == RemoveAt(c.vec, p)
           g == <<c.vec[Len(c.vec)]>> \o c.ghost
<1>1. p \in DOMAIN c.vec /\ c.vec[p] = id
  BY Found
<1>2. /\ DOMAIN c.vec = 1 .. n /\ n \in Nat \ {0} /\ Len(c.ghost) \in Nat
      /\ \A i \in 1 .. n : c.vec[i] \in Client
      /\ c.slot \in Nat /\ NULL \notin Client /\ ToSet(c.vec) \subseteq Client
  BY <1>1, Cells
<1>3. c.vec \in Seq(Client) /\ c.ghost \in Seq(Client)
  BY DEF Fine
<1>4. ActiveController(c) = id <=> c.slot = p
  <2>1. ASSUME c.slot \in DOMAIN c.vec PROVE c.vec[c.slot] = id <=> c.slot = p
    BY <1>1, <2>1, OneCell
  <2>2. c.slot \notin DOMAIN c.vec => ActiveController(c) # id
    BY <1>2 DEF ActiveController
  <2> QED
    BY <1>1, <2>1, <2>2 DEF ActiveController
<1> HIDE DEF p
<1>5. /\ v \in Seq(Client) /\ Len(v) = n - 1 /\ DOMAIN v = 1 .. n - 1
      /\ \A i \in 1 .. n - 1 : v[i] = IF i < p THEN c.vec[i] ELSE c.vec[i + 1]
  <2> DEFINE w == c.vec
  <2>1. v = RemoveAt(w, p) /\ w \in Seq(Client) /\ p \in DOMAIN w /\ n = Len(w)
    BY <1>1, <1>3
  <2> HIDE DEF v, w, n
  <2>2. /\ v \in Seq(Client) /\ Len(v) = Len(w) - 1
        /\ DOMAIN v = 1 .. Len(w) - 1
        /\ \A i \in 1 .. Len(w) - 1 : i < p => v[i] = w[i]
        /\ \A i \in 1 .. Len(w) - 1 : ~(i < p) => v[i] = w[i + 1]
    BY <2>1, Removed
  <2> QED
    BY <2>1, <2>2 DEF w
<1>6. /\ g \in Seq(Client) /\ Len(g) = Len(c.ghost) + 1
      /\ g[1] = c.vec[n]
      /\ \A i \in 1 .. Len(c.ghost) : g[i + 1] = c.ghost[i]
  <2>1. c.vec[n] \in Client
    BY <1>2
  <2> QED
    BY <1>3, <2>1, Prepended
<1> HIDE DEF v, g
<1>7. u = [c EXCEPT !.vec = v, !.ghost = g,
                    !.slot = IF c.slot = p THEN NULL ELSE @,
                    !.comm = IF c.slot = p THEN NULL ELSE @,
                    !.masters = @ \ {id}]
  BY <1>4 DEF UnRegisterController, v, g, p
<1> HIDE DEF u
<1>8. /\ u.vec = v /\ u.ghost = g
      /\ u.slot = IF c.slot = p THEN NULL ELSE c.slot
      /\ u.comm = IF c.slot = p THEN NULL ELSE c.comm
      /\ u.masters = c.masters \ {id} /\ u.down = c.down
      /\ u.ref = c.ref /\ u.registered = c.registered /\ u.released = c.released
  BY <1>7 DEF Fine
<1>9. Erased(c, u, p)
  BY <1>1, <1>2, <1>5, <1>6, <1>8 DEF Erased, SameManager
<1>10. ToSet(v) = ToSet(c.vec) \ {id}
  <2>1. ASSUME NEW i \in 1 .. n - 1 PROVE v[i] \in ToSet(c.vec) \ {id}
    <3>1. CASE i < p
      <4>1. v[i] = c.vec[i] /\ i \in 1 .. n /\ i # p
        BY <1>1, <1>2, <1>5, <3>1
      <4>2. c.vec[i] # c.vec[p]
        BY <1>1, <1>2, <4>1, OneCell
      <4> QED
        BY <1>1, <1>2, <4>1, <4>2 DEF ToSet
    <3>2. CASE ~(i < p)
      <4>1. v[i] = c.vec[i + 1] /\ i + 1 \in 1 .. n /\ p # i + 1
        BY <1>1, <1>2, <1>5, <3>2
      <4>2. c.vec[i + 1] # c.vec[p]
        BY <1>1, <1>2, <4>1, OneCell
      <4> QED
        BY <1>1, <1>2, <4>1, <4>2 DEF ToSet
    <3> QED
      BY <3>1, <3>2
  <2>2. ASSUME NEW i \in 1 .. n, c.vec[i] # id PROVE c.vec[i] \in ToSet(v)
    <3>1. CASE i < p
      <4>1. i \in 1 .. n - 1 /\ v[i] = c.vec[i]
        BY <1>1, <1>2, <1>5, <3>1
      <4> QED
        BY <1>5, <4>1 DEF ToSet
    <3>2. CASE ~(i < p)
      <4>1. i # p
        BY <1>1, <2>2
      <4>2. i - 1 \in 1 .. n - 1 /\ ~(i - 1 < p) /\ (i - 1) + 1 = i
        BY <1>1, <1>2, <3>2, <4>1
      <4>3. v[i - 1] = c.vec[i]
        BY <1>5, <4>2
      <4> QED
        BY <1>5, <4>2, <4>3 DEF ToSet
    <3> QED
      BY <3>1, <3>2
  <2>3. ToSet(v) = {v[i] : i \in 1 .. n - 1}
    BY <1>5 DEF ToSet
  <2>4. ToSet(c.vec) = {c.vec[i] : i \in 1 .. n}
    BY <1>2 DEF ToSet
  <2>5. ToSet(v) \subseteq ToSet(c.vec) \ {id}
    BY <2>1, <2>3
  <2>6. ToSet(c.vec) \ {id} \subseteq ToSet(v)
    BY <2>2, <2>4
  <2> QED
    BY <2>5, <2>6
<1>11. Fine(u)
  <2>1. u.slot \in 0 .. MaxClients /\ u.comm \in 0 .. MaxClients
    BY <1>8, MaxClientsAssumption DEF Fine, NULL
  <2>2. u.masters \in SUBSET Client
    BY <1>8 DEF Fine
  <2>3. u \in [vec : Seq(Client), ghost : Seq(Client), slot : 0 .. MaxClients,
               comm : 0 .. MaxClients, masters : SUBSET Client, down : BOOLEAN,
             ref : Nat, registered : SUBSET Client, released : BOOLEAN]
    BY <1>5, <1>6, <1>7, <1>8, <2>1, <2>2 DEF Fine
  <2>4. ASSUME NEW i \in DOMAIN v, NEW j \in DOMAIN v, i < j PROVE v[i] < v[j]
    <3>1. i \in 1 .. n - 1 /\ j \in 1 .. n - 1
      BY <1>5, <2>4
    <3>2. /\ i \in 1 .. n /\ j \in 1 .. n /\ i + 1 \in 1 .. n /\ j + 1 \in 1 .. n
          /\ i < j /\ i < j + 1 /\ i + 1 < j + 1
      BY <1>2, <2>4, <3>1
    <3>3. /\ c.vec[i] < c.vec[j] /\ c.vec[i] < c.vec[j + 1]
          /\ c.vec[i + 1] < c.vec[j + 1]
      BY <1>2, <3>2 DEF Fine
    <3>4. ~(i < p) => ~(j < p)
      BY <1>1, <1>2, <3>2
    <3> QED
      BY <1>5, <3>1, <3>3, <3>4
  <2>5. u.slot <= Len(u.vec) + Len(u.ghost)
    <3>1. Len(v) + Len(g) = n + Len(c.ghost) /\ c.slot <= n + Len(c.ghost)
      BY <1>2, <1>5, <1>6 DEF Fine
    <3>2. u.slot = NULL \/ u.slot = c.slot
      BY <1>8
    <3>3. Len(u.vec) + Len(u.ghost) = n + Len(c.ghost)
      BY <1>8, <3>1
    <3>4. 0 <= n + Len(c.ghost)
      <4>1. n \in Nat /\ Len(c.ghost) \in Nat
        BY <1>2
      <4> HIDE DEF n
      <4> QED
        BY <4>1
    <3> QED
      BY <3>1, <3>2, <3>3, <3>4 DEF NULL
  <2>6. u.masters \subseteq ToSet(u.vec)
    BY <1>8, <1>10 DEF Fine
  <2>7. \E m \in Client : u.masters \subseteq {m}
    BY <1>8 DEF Fine
  <2> QED
    BY <1>8, <2>3, <2>4, <2>5, <2>6, <2>7 DEF Fine
<1> QED
  BY <1>8, <1>9, <1>10, <1>11 DEF p, u

-----------------------------------------------------------------------------
(* Erasing one controller                                                  *)

\* The active slot holds the controller of client src.
Serves(c, src) == c.slot \in DOMAIN c.vec /\ c.vec[c.slot] = src

\* Replies go to the active controller, or one before it is in G.
CommTrue(c, G) ==
  \/ ActiveController(c) = NULL
  \/ c.comm = ActiveController(c)
  \/ \E d \in G : d < ActiveController(c)

\* Who is served before the erased one in the vector goes on being served.
LEMMA ErasingBehind ==
  ASSUME NEW c, Fine(c), NEW id \in ToSet(c.vec), NEW src, Serves(c, src),
         src < id
  PROVE  /\ Serves(UnRegisterController(c, id), src)
         /\ UnRegisterController(c, id).comm = c.comm
<1> DEFINE u == UnRegisterController(c, id)
           p == SlotOf(c, id)
           n == Len(c.vec)
<1>1. Erased(c, u, p) /\ c.vec[p] = id /\ p \in DOMAIN c.vec
  BY UnRegistering, Found
<1>2. DOMAIN c.vec = 1 .. n /\ n \in Nat
  BY Cells
<1>3. \A i \in DOMAIN c.vec : c.vec[i] \in Nat
  BY Cells DEF Client
<1> HIDE DEF u, p, n
<1>4. c.slot < p
  <2>1. c.slot \in 1 .. n /\ p \in 1 .. n /\ c.vec[c.slot] < c.vec[p]
    BY <1>1, <1>2 DEF Serves
  <2>2. ~(p < c.slot) /\ p # c.slot
    BY <1>1, <1>2, <1>3, <2>1 DEF Fine
  <2> QED
    BY <2>1, <2>2
<1>5. c.slot \in 1 .. n - 1 /\ c.slot # p
  BY <1>1, <1>2, <1>4 DEF Serves
<1>6. u.slot = c.slot /\ u.comm = c.comm /\ u.vec[c.slot] = c.vec[c.slot]
      /\ DOMAIN u.vec = 1 .. n - 1
  BY <1>1, <1>4, <1>5 DEF Erased, n
<1> QED
  BY <1>5, <1>6 DEF Serves, u

\* A slot whose content moves on gets that of a later client, behind one that
\* has been erased.
LEMMA ErasingMovesOn ==
  ASSUME NEW c, Fine(c), NEW id \in ToSet(c.vec), NEW G, CommTrue(c, G),
         id \in G
  PROVE  CommTrue(UnRegisterController(c, id), G)
<1> DEFINE u == UnRegisterController(c, id)
           p == SlotOf(c, id)
           n == Len(c.vec)
<1>1. Erased(c, u, p) /\ c.vec[p] = id /\ p \in DOMAIN c.vec
  BY UnRegistering, Found
<1>2. DOMAIN c.vec = 1 .. n /\ n \in Nat /\ c.slot \in Nat
  BY Cells
<1> HIDE DEF u, p, n
<1>3. DOMAIN u.vec = 1 .. n - 1
      /\ \A i \in 1 .. n - 1 : u.vec[i] = IF i < p THEN c.vec[i] ELSE c.vec[i + 1]
  BY <1>1 DEF Erased, n
<1>4. CASE c.slot = p
  <2>1. u.slot = NULL /\ NULL \notin DOMAIN u.vec
    BY <1>1, <1>3, <1>4 DEF Erased, NULL
  <2> QED
    BY <2>1 DEF CommTrue, ActiveController, u
<1>5. CASE c.slot # p
  <2>1. u.slot = c.slot /\ u.comm = c.comm
    BY <1>1, <1>5 DEF Erased
  <2>2. CASE c.slot \notin 1 .. n - 1
    <3>1. ActiveController(u) = NULL
      BY <1>3, <2>1, <2>2 DEF ActiveController
    <3> QED
      BY <3>1 DEF CommTrue, u
  <2>3. CASE c.slot \in 1 .. n - 1 /\ c.slot < p
    <3>1. c.slot \in 1 .. n
      BY <1>2, <2>3
    <3>2. ActiveController(u) = ActiveController(c)
      BY <1>2, <1>3, <2>1, <2>3, <3>1 DEF ActiveController
    <3> QED
      BY <2>1, <3>2 DEF CommTrue, u
  <2>4. CASE c.slot \in 1 .. n - 1 /\ ~(c.slot < p)
    <3>1. p \in 1 .. n /\ c.slot + 1 \in 1 .. n /\ p < c.slot + 1
      BY <1>1, <1>2, <2>4
    <3>2. id < c.vec[c.slot + 1]
      BY <1>1, <1>2, <3>1 DEF Fine
    <3>3. ActiveController(u) = c.vec[c.slot + 1]
      BY <1>3, <2>1, <2>4 DEF ActiveController
    <3> QED
      BY <3>2, <3>3 DEF CommTrue, u
  <2> QED
    BY <2>2, <2>3, <2>4
<1> QED
  BY <1>4, <1>5

-----------------------------------------------------------------------------
(* Cleaning                                                                *)

\* One turn of the loop of CleanNonConnectedControllers.
Turn(c, conn, f, i) ==
  IF i = 0 THEN c
  ELSE IF c.vec[i] \in conn THEN f[i - 1]
  ELSE UnRegisterController(f[i - 1], c.vec[i])

\* The loop has its turns, and Purge is what is there after the last.
LEMMA LoopRuns ==
  ASSUME NEW c, Fine(c), NEW conn
  PROVE  \E f : /\ f = [i \in 0 .. Len(c.vec) |-> Turn(c, conn, f, i)]
                /\ Purge(c, conn) = f[Len(c.vec)]
<1> DEFINE n == Len(c.vec)
           Run(k) == \E f : f = [i \in 0 .. k |-> Turn(c, conn, f, i)]
           S == {k \in 0 .. n : ~Run(k)}
<1>1. n \in Nat
  BY Cells
<1>2. Run(0)
  <2> DEFINE f == [i \in 0 .. 0 |-> c]
  <2>1. f = [i \in 0 .. 0 |-> Turn(c, conn, f, i)]
    BY DEF Turn
  <2> QED
    BY <2>1
<1>3. ASSUME NEW k \in 1 .. n, Run(k - 1) PROVE Run(k)
  <2>1. PICK f : f = [i \in 0 .. k - 1 |-> Turn(c, conn, f, i)]
    BY <1>3
  <2> DEFINE g == [i \in 0 .. k |-> IF i < k THEN f[i] ELSE Turn(c, conn, f, k)]
  <2>2. ASSUME NEW i \in 0 .. k PROVE g[i] = Turn(c, conn, g, i)
    <3>1. CASE i = 0
      <4>1. 0 < k /\ 0 \in 0 .. k - 1 /\ 0 \in 0 .. k
        BY <1>1
      <4>2. g[0] = f[0] /\ f[0] = Turn(c, conn, f, 0)
        BY <2>1, <4>1
      <4> QED
        BY <3>1, <4>2 DEF Turn
    <3>2. CASE i # 0
      <4>1. i - 1 \in 0 .. k /\ i - 1 < k
        BY <1>1, <3>2
      <4>2. g[i - 1] = f[i - 1]
        BY <4>1
      <4>3. g[i] = Turn(c, conn, f, i)
        <5>1. CASE i < k
          <6>1. i \in 0 .. k - 1
            BY <1>1, <5>1
          <6> QED
            BY <2>1, <5>1, <6>1
        <5>2. CASE ~(i < k)
          <6>1. i = k
            BY <1>1, <5>2
          <6> QED
            BY <5>2, <6>1
        <5> QED
          BY <5>1, <5>2
      <4> HIDE DEF g
      <4> QED
        BY <3>2, <4>2, <4>3 DEF Turn
    <3> QED
      BY <3>1, <3>2
  <2>3. g = [i \in 0 .. k |-> g[i]]
    OBVIOUS
  <2> HIDE DEF g
  <2>4. g = [i \in 0 .. k |-> Turn(c, conn, g, i)]
    BY <2>2, <2>3
  <2> QED
    BY <2>4
<1>4. S = {}
  <2>1. \A k \in 1 .. n : k \in S => k - 1 \in S
    BY <1>1, <1>3
  <2>2. 0 \notin S /\ S \in SUBSET (0 .. n)
    BY <1>2
  <2> HIDE DEF S
  <2> QED
    BY <1>1, <2>1, <2>2, NoLeastExample
<1>5. Run(n)
  <2>1. n \in 0 .. n
    BY <1>1
  <2> QED
    BY <1>4, <2>1
<1> DEFINE h == CHOOSE f : f = [i \in 0 .. n |-> Turn(c, conn, f, i)]
<1>6. h = [i \in 0 .. n |-> Turn(c, conn, h, i)]
  BY <1>5
<1>7. Purge(c, conn) = h[n]
  BY DEF Purge, Turn
<1> QED
  BY <1>6, <1>7

\* What cleaning keeps of c while u is what is left of it: removed is the set
\* of clients whose controllers are no longer registered.
Tracks(c, conn, u, removed) ==
  /\ Fine(u) /\ u.down = c.down /\ SameManager(c, u)
  /\ ToSet(u.vec) = ToSet(c.vec) \ removed
  /\ Len(u.vec) <= Len(c.vec)
  /\ u.slot = c.slot \/ u.slot = NULL
  /\ \A G : NonConnected(c, conn) \subseteq G /\ CommTrue(c, G) => CommTrue(u, G)
  /\ \A src \in conn :
       Serves(c, src) /\ (\A id \in NonConnected(c, conn) : src < id) =>
         Serves(u, src) /\ u.comm = c.comm

\* One more is erased.
LEMMA TracksOn ==
  ASSUME NEW c, Fine(c), NEW conn, NEW u, NEW removed, Tracks(c, conn, u, removed),
         NEW id \in ToSet(u.vec), id \in NonConnected(c, conn)
  PROVE  Tracks(c, conn, UnRegisterController(u, id), removed \cup {id})
<1> DEFINE v == UnRegisterController(u, id)
           p == SlotOf(u, id)
<1>1. Erased(u, v, p) /\ Fine(v) /\ ToSet(v.vec) = ToSet(u.vec) \ {id}
  BY UnRegistering DEF Tracks
<1> HIDE DEF v, p
<1>2. v.down = c.down /\ SameManager(c, v)
  BY <1>1 DEF Erased, Tracks, SameManager
<1>3. Len(v.vec) <= Len(c.vec)
  <2>1. Len(v.vec) = Len(u.vec) - 1 /\ Len(u.vec) <= Len(c.vec)
    BY <1>1 DEF Erased, Tracks
  <2>2. Len(u.vec) \in Nat /\ Len(c.vec) \in Nat
    BY Cells DEF Tracks
  <2> QED
    BY <2>1, <2>2
<1>4. v.slot = c.slot \/ v.slot = NULL
  BY <1>1 DEF Erased, Tracks
<1>5. ASSUME NEW G, NonConnected(c, conn) \subseteq G, CommTrue(c, G)
      PROVE  CommTrue(v, G)
  <2>1. CommTrue(u, G) /\ Fine(u) /\ id \in G
    BY <1>5 DEF Tracks
  <2> QED
    BY <2>1, ErasingMovesOn DEF v
<1>6. ASSUME NEW src \in conn, Serves(c, src),
             \A x \in NonConnected(c, conn) : src < x
      PROVE  Serves(v, src) /\ v.comm = c.comm
  <2>1. Serves(u, src) /\ u.comm = c.comm /\ Fine(u) /\ src < id
    BY <1>6 DEF Tracks
  <2> QED
    BY <2>1, ErasingBehind DEF v
<1>7. ToSet(v.vec) = ToSet(c.vec) \ (removed \cup {id})
  BY <1>1 DEF Tracks
<1>8. Tracks(c, conn, v, removed \cup {id})
  BY <1>1, <1>2, <1>3, <1>4, <1>5, <1>6, <1>7 DEF Tracks
<1> QED
  BY <1>8 DEF v

\* Cleaning removes those that are not connected, and keeps the rest.
LEMMA Cleaning ==
  ASSUME NEW c, Fine(c), NEW conn
  PROVE  Tracks(c, conn, Purge(c, conn), NonConnected(c, conn))
<1> DEFINE n == Len(c.vec)
           removed(k) == {c.vec[i] : i \in {j \in 1 .. k : c.vec[j] \notin conn}}
<1>1. /\ n \in Nat /\ DOMAIN c.vec = 1 .. n
      /\ \A i \in 1 .. n : c.vec[i] \in Client /\ c.vec[i] \in Nat
  BY Cells DEF Client
<1>2. PICK f : /\ f = [i \in 0 .. n |-> Turn(c, conn, f, i)]
               /\ Purge(c, conn) = f[n]
  BY LoopRuns
<1> DEFINE S == {k \in 0 .. n : ~Tracks(c, conn, f[k], removed(k))}
<1>3. Tracks(c, conn, f[0], removed(0))
  <2>1. f[0] = c
    BY <1>1, <1>2 DEF Turn
  <2>2. removed(0) = {}
    OBVIOUS
  <2>3. Len(c.vec) <= Len(c.vec)
    BY <1>1
  <2> HIDE DEF removed
  <2> QED
    BY <2>1, <2>2, <2>3 DEF Tracks, SameManager
<1>4. ASSUME NEW k \in 1 .. n, Tracks(c, conn, f[k - 1], removed(k - 1))
      PROVE  Tracks(c, conn, f[k], removed(k))
  <2>1. k \in 0 .. n /\ k # 0 /\ k - 1 \in 0 .. n
    BY <1>1
  <2>2. f[k] = IF c.vec[k] \in conn THEN f[k - 1]
               ELSE UnRegisterController(f[k - 1], c.vec[k])
    BY <1>2, <2>1 DEF Turn
  <2>3. \A j \in 1 .. k : j \in 1 .. k - 1 \/ j = k
    BY <1>1
  <2>4. \A j \in 1 .. k - 1 : j \in 1 .. k
    BY <1>1
  <2>5. CASE c.vec[k] \in conn
    <3>1. removed(k) = removed(k - 1)
      BY <2>3, <2>4, <2>5
    <3> HIDE DEF removed
    <3> QED
      BY <1>4, <2>2, <2>5, <3>1
  <2>6. CASE c.vec[k] \notin conn
    <3>1. removed(k) = removed(k - 1) \cup {c.vec[k]}
      <4>1. k \in {j \in 1 .. k : c.vec[j] \notin conn}
        BY <1>1, <2>6
      <4>2. \A x \in removed(k) : x \in removed(k - 1) \cup {c.vec[k]}
        BY <2>3
      <4>3. \A x \in removed(k - 1) : x \in removed(k)
        BY <2>4
      <4>4. c.vec[k] \in removed(k)
        BY <4>1
      <4> HIDE DEF removed
      <4> QED
        BY <4>2, <4>3, <4>4
    <3>2. c.vec[k] \in ToSet(c.vec)
      BY <1>1 DEF ToSet
    <3>3. c.vec[k] \notin removed(k - 1)
      <4>1. \A j \in 1 .. k - 1 : j \in 1 .. n /\ j < k
        BY <1>1
      <4>2. \A j \in 1 .. k - 1 : c.vec[j] < c.vec[k] /\ c.vec[j] \in Nat
        BY <1>1, <4>1 DEF Fine
      <4>3. \A j \in 1 .. k - 1 : c.vec[j] # c.vec[k]
        BY <1>1, <4>2
      <4> QED
        BY <4>3
    <3> HIDE DEF removed
    <3>4. c.vec[k] \in ToSet(f[k - 1].vec)
      BY <1>4, <3>2, <3>3 DEF Tracks
    <3>5. c.vec[k] \in NonConnected(c, conn)
      BY <2>6, <3>2 DEF NonConnected
    <3> QED
      BY <1>4, <2>2, <2>6, <3>1, <3>4, <3>5, TracksOn
  <2> QED
    BY <2>5, <2>6
<1>5. S = {}
  <2>1. \A k \in 1 .. n : k \in S => k - 1 \in S
    <3>1. \A k \in 1 .. n : k - 1 \in 0 .. n
      BY <1>1
    <3> HIDE DEF removed
    <3> QED
      BY <1>4, <3>1
  <2>2. 0 \notin S /\ S \in SUBSET (0 .. n)
    BY <1>3
  <2> HIDE DEF S
  <2> QED
    BY <1>1, <2>1, <2>2, NoLeastExample
<1>6. Tracks(c, conn, f[n], removed(n))
  <2>1. n \in 0 .. n
    BY <1>1
  <2> HIDE DEF removed
  <2> QED
    BY <1>5, <2>1
<1>7. removed(n) = NonConnected(c, conn)
  BY <1>1 DEF NonConnected, ToSet
<1> HIDE DEF removed
<1> QED
  BY <1>2, <1>6, <1>7

\* Nobody to remove: nothing happens.  One to remove: it is unregistered.
LEMMA CleaningOne ==
  ASSUME NEW c, Fine(c), NEW conn
  PROVE  /\ NonConnected(c, conn) = {} => Purge(c, conn) = c
         /\ \A d : NonConnected(c, conn) = {d} =>
              Purge(c, conn) = UnRegisterController(c, d)
<1> DEFINE n == Len(c.vec)
<1>1. /\ n \in Nat /\ DOMAIN c.vec = 1 .. n
      /\ \A i \in 1 .. n : c.vec[i] \in Client /\ c.vec[i] \in Nat
  BY Cells DEF Client
<1>2. PICK f : /\ f = [i \in 0 .. n |-> Turn(c, conn, f, i)]
               /\ Purge(c, conn) = f[n]
  BY LoopRuns
<1> HIDE DEF n
<1>3. f[0] = c
  BY <1>1, <1>2 DEF Turn
<1>4. \A k \in 1 .. n : f[k] = IF c.vec[k] \in conn THEN f[k - 1]
                               ELSE UnRegisterController(f[k - 1], c.vec[k])
  <2> SUFFICES ASSUME NEW k \in 1 .. n
               PROVE f[k] = IF c.vec[k] \in conn THEN f[k - 1]
                            ELSE UnRegisterController(f[k - 1], c.vec[k])
    OBVIOUS
  <2>1. k \in 0 .. n /\ k # 0
    BY <1>1
  <2> QED
    BY <1>2, <2>1 DEF Turn
<1>5. ASSUME NonConnected(c, conn) = {} PROVE Purge(c, conn) = c
  <2> DEFINE S == {k \in 0 .. n : f[k] # c}
  <2>1. \A k \in 1 .. n : c.vec[k] \in conn
    BY <1>1, <1>5 DEF NonConnected, ToSet
  <2>2. \A k \in 1 .. n : k \in S => k - 1 \in S
    <3>1. \A k \in 1 .. n : k - 1 \in 0 .. n
      BY <1>1
    <3> QED
      BY <1>4, <2>1, <3>1
  <2>3. 0 \notin S /\ S \in SUBSET (0 .. n)
    BY <1>3
  <2> HIDE DEF S
  <2>4. S = {}
    BY <1>1, <2>2, <2>3, NoLeastExample
  <2>5. n \in 0 .. n
    BY <1>1
  <2> QED
    BY <1>2, <2>4, <2>5 DEF S
<1>6. ASSUME NEW d, NonConnected(c, conn) = {d}
      PROVE Purge(c, conn) = UnRegisterController(c, d)
  <2>1. PICK p \in 1 .. n : c.vec[p] = d
    BY <1>1, <1>6 DEF NonConnected, ToSet
  <2>2. \A k \in 1 .. n : k # p => c.vec[k] \in conn
    <3> SUFFICES ASSUME NEW k \in 1 .. n, k # p PROVE c.vec[k] \in conn
      OBVIOUS
    <3>1. c.vec[k] # c.vec[p]
      BY <1>1, OneCell
    <3>2. c.vec[k] \in ToSet(c.vec)
      BY <1>1 DEF ToSet
    <3> QED
      BY <1>6, <2>1, <3>1, <3>2 DEF NonConnected
  <2>3. c.vec[p] \notin conn
    BY <1>6, <2>1 DEF NonConnected
  <2> DEFINE done(k) == IF k < p THEN c ELSE UnRegisterController(c, d)
             S == {k \in 0 .. n : f[k] # done(k)}
  <2>4. ASSUME NEW k \in 1 .. n, f[k - 1] = done(k - 1) PROVE f[k] = done(k)
    <3>1. CASE k < p
      <4>1. k - 1 < p /\ k # p
        BY <1>1, <3>1
      <4> QED
        BY <1>4, <2>2, <2>4, <3>1, <4>1
    <3>2. CASE k = p
      <4>1. k - 1 < p /\ ~(k < p)
        BY <1>1, <3>2
      <4> QED
        BY <1>4, <2>1, <2>3, <2>4, <3>2, <4>1
    <3>3. CASE p < k
      <4>1. ~(k - 1 < p) /\ ~(k < p) /\ k # p
        BY <1>1, <3>3
      <4> QED
        BY <1>4, <2>2, <2>4, <4>1
    <3> QED
      BY <1>1, <3>1, <3>2, <3>3
  <2>5. \A k \in 1 .. n : k \in S => k - 1 \in S
    <3>1. \A k \in 1 .. n : k - 1 \in 0 .. n
      BY <1>1
    <3> HIDE DEF done
    <3> QED
      BY <2>4, <3>1
  <2>6. 0 \notin S /\ S \in SUBSET (0 .. n)
    <3>1. 0 < p
      BY <1>1
    <3> QED
      BY <1>3, <3>1
  <2>7. S = {}
    <3> HIDE DEF S
    <3> QED
      BY <1>1, <2>5, <2>6, NoLeastExample
  <2>8. n \in 0 .. n /\ ~(n < p)
    BY <1>1
  <2>9. f[n] = done(n)
    <3> HIDE DEF done
    <3> QED
      BY <2>7, <2>8
  <2> QED
    BY <1>2, <2>8, <2>9
<1> QED
  BY <1>5, <1>6

-----------------------------------------------------------------------------
(* Elections, and the events that nest them with cleaning                  *)

\* Whoever an election would choose is registered.
Electable(c) == c.slot = NULL \/ ActiveId(c) \in ToSet(c.vec)

\* At most one controller is to be removed, and it is not the active one.
Ready(c, conn) ==
  /\ ~c.down
  /\ \/ NonConnected(c, conn) = {} /\ Electable(c)
     \/ /\ \E d : NonConnected(c, conn) \subseteq {d}
        /\ c.slot = NULL \/ \E src \in conn : Serves(c, src)

\* There is a master if there is anybody, as long as there is a manager.
Headed(c) == c.masters # {} \/ c.down \/ c.vec = <<>> \/ c.ref = 0

\* Departed clients have been taken off the collaboration manager.
Tidy(c) == c.vec # <<>> => c.registered \subseteq ToSet(c.vec)

\* What a change of the cells from c to u does to the manager: only clients
\* that are not connected are taken off, one reference for each while there
\* are any; nothing at all, and no release, happens when all are connected.
\* A number of references (k) may be held besides those of clients.
Accounts(c, conn, u) ==
  /\ u.registered \subseteq c.registered
  /\ c.registered \cap conn \cap ToSet(c.vec) \subseteq u.registered
  /\ \A k \in Nat : c.ref <= Cardinality(c.registered) + k =>
                     u.ref <= Cardinality(u.registered) + k
  /\ \A k \in Nat : c.ref = Cardinality(c.registered) + k =>
                     u.ref = Cardinality(u.registered) + k
  /\ u.released => c.released \/ NonConnected(c, conn) # {}
  /\ Tidy(c) /\ NonConnected(c, conn) = {} => Tidy(u) /\ u.ref = c.ref

\* What elections and cleaning, however nested, keep of c.
Follows(c, conn, u) ==
  /\ Fine(u)
  /\ ToSet(u.vec) \subseteq ToSet(c.vec)
  /\ conn \cap ToSet(c.vec) \subseteq ToSet(u.vec)
  /\ Len(u.vec) <= Len(c.vec)
  /\ \A G : NonConnected(c, conn) \subseteq G /\ CommTrue(c, G) => CommTrue(u, G)
  /\ \A src \in conn :
       Serves(c, src) /\ ~c.down /\ (\A id \in NonConnected(c, conn) : src < id) =>
         Serves(u, src) /\ u.comm = c.comm /\ ~u.down
  /\ Ready(c, conn) => Ready(u, conn) /\ (c.slot # NULL => u.slot # NULL)
  /\ Accounts(c, conn, u)

\* The manager is left alone.
LEMMA AccountsSame ==
  ASSUME NEW c, NEW u, NEW conn, SameManager(c, u), u.vec = c.vec
  PROVE  Accounts(c, conn, u)
BY DEF Accounts, SameManager, Tidy

\* One after the other.
LEMMA AccountsOn ==
  ASSUME NEW c, NEW u, NEW v, NEW conn, Accounts(c, conn, u), Accounts(u, conn, v),
         ToSet(u.vec) \subseteq ToSet(c.vec), conn \cap ToSet(c.vec) \subseteq ToSet(u.vec)
  PROVE  Accounts(c, conn, v)
<1>1. NonConnected(u, conn) \subseteq NonConnected(c, conn)
  BY DEF NonConnected
<1>2. /\ v.registered \subseteq c.registered
      /\ c.registered \cap conn \cap ToSet(c.vec) \subseteq v.registered
  BY DEF Accounts
<1>3. \A k \in Nat : c.ref <= Cardinality(c.registered) + k =>
                     v.ref <= Cardinality(v.registered) + k
  BY DEF Accounts
<1>4. \A k \in Nat : c.ref = Cardinality(c.registered) + k =>
                     v.ref = Cardinality(v.registered) + k
  BY DEF Accounts
<1>5. v.released => c.released \/ NonConnected(c, conn) # {}
  BY <1>1 DEF Accounts
<1>6. Tidy(c) /\ NonConnected(c, conn) = {} => Tidy(v) /\ v.ref = c.ref
  BY <1>1 DEF Accounts
<1> QED
  BY <1>2, <1>3, <1>4, <1>5, <1>6 DEF Accounts

\* The cells are the same.
LEMMA Alike ==
  ASSUME NEW c, NEW u, NEW conn, Fine(c), Fine(u), u.vec = c.vec, u.ghost = c.ghost,
         u.slot = c.slot, u.comm = c.comm, u.down = c.down, Accounts(c, conn, u)
  PROVE  Follows(c, conn, u)
<1>1. Len(u.vec) <= Len(c.vec)
  BY Cells
<1>2. \A G : CommTrue(c, G) => CommTrue(u, G)
  BY DEF CommTrue, ActiveController
<1>3. \A src : Serves(c, src) => Serves(u, src)
  BY DEF Serves
<1>4. Ready(c, conn) => Ready(u, conn)
  BY <1>3 DEF Ready, NonConnected, Electable, ActiveId
<1> QED
  BY <1>1, <1>2, <1>3, <1>4 DEF Follows

\* Doing nothing keeps everything.
LEMMA FollowsItself == ASSUME NEW c, Fine(c), NEW conn PROVE Follows(c, conn, c)
<1>1. Accounts(c, conn, c)
  BY AccountsSame DEF SameManager
<1> QED
  BY <1>1, Alike

\* One after the other.
LEMMA FollowsOn ==
  ASSUME NEW c, NEW u, NEW v, NEW conn, Fine(c), Follows(c, conn, u),
         Follows(u, conn, v)
  PROVE  Follows(c, conn, v)
<1>1. NonConnected(u, conn) \subseteq NonConnected(c, conn)
  BY DEF Follows, NonConnected
<1>2. Len(v.vec) <= Len(c.vec)
  <2>1. Len(c.vec) \in Nat /\ Len(u.vec) \in Nat /\ Len(v.vec) \in Nat
    BY Cells DEF Follows
  <2>2. Len(v.vec) <= Len(u.vec) /\ Len(u.vec) <= Len(c.vec)
    BY DEF Follows
  <2> QED
    BY <2>1, <2>2
<1>3. ASSUME NEW G, NonConnected(c, conn) \subseteq G, CommTrue(c, G)
      PROVE  CommTrue(v, G)
  BY <1>1, <1>3 DEF Follows
<1>4. ASSUME NEW src \in conn, Serves(c, src), ~c.down,
             \A id \in NonConnected(c, conn) : src < id
      PROVE  Serves(v, src) /\ v.comm = c.comm /\ ~v.down
  <2>1. Serves(u, src) /\ u.comm = c.comm /\ ~u.down
    BY <1>4 DEF Follows
  <2> QED
    BY <1>1, <1>4, <2>1 DEF Follows
<1>5. Ready(c, conn) => Ready(v, conn) /\ (c.slot # NULL => v.slot # NULL)
  BY DEF Follows
<1>6. /\ Fine(v) /\ ToSet(v.vec) \subseteq ToSet(c.vec)
      /\ conn \cap ToSet(c.vec) \subseteq ToSet(v.vec)
      /\ Accounts(c, conn, v)
  BY AccountsOn DEF Follows
<1> QED
  BY <1>2, <1>3, <1>4, <1>5, <1>6 DEF Follows

\* The Id in the active slot is a number of a client, also in a slot that has
\* been left behind.
LEMMA IdsAreClients ==
  ASSUME NEW c, Fine(c), c.slot # NULL
  PROVE  ActiveId(c) \in Client /\ ActiveId(c) # -1
<1>1. ActiveId(c) \in Client
  <2>1. CASE c.slot \in DOMAIN c.vec
    BY <2>1, Cells DEF ActiveId
  <2>2. CASE c.slot \notin DOMAIN c.vec
    <3>1. /\ c.slot \in Nat /\ Len(c.vec) \in Nat /\ Len(c.ghost) \in Nat
          /\ DOMAIN c.vec = 1 .. Len(c.vec) /\ DOMAIN c.ghost = 1 .. Len(c.ghost)
      BY Cells
    <3>2. c.slot <= Len(c.vec) + Len(c.ghost)
      BY DEF Fine
    <3>3. c.slot - Len(c.vec) \in DOMAIN c.ghost
      <4> DEFINE s == c.slot
                 n == Len(c.vec)
                 g == Len(c.ghost)
      <4>1. /\ s \in Nat /\ n \in Nat /\ g \in Nat /\ s <= n + g
            /\ s # 0 /\ s \notin 1 .. n
        BY <2>2, <3>1, <3>2 DEF NULL
      <4> HIDE DEF s, n, g
      <4>2. s - n \in 1 .. g
        BY <4>1
      <4> QED
        BY <3>1, <4>2 DEF s, n, g
    <3> QED
      BY <2>2, <3>3, Cells DEF ActiveId
  <2> QED
    BY <2>1, <2>2
<1>2. -1 \notin Client
  BY MaxClientsAssumption DEF Client
<1> QED
  BY <1>1, <1>2

\* Nobody is elected only if nobody is registered.
LEMMA Electing ==
  ASSUME NEW c, Fine(c)
  PROVE  /\ ElectNewMaster(c) = -1 => c.vec = <<>>
         /\ Electable(c) => ElectNewMaster(c) \in ToSet(c.vec) \cup {-1}
<1>1. CASE c.slot # NULL
  BY <1>1, IdsAreClients DEF ElectNewMaster, Electable
<1>2. CASE c.slot = NULL /\ c.vec # <<>>
  <2>1. 1 \in DOMAIN c.vec
    <3>1. Len(c.vec) # 0
      BY <1>2, EmptySeq DEF Fine
    <3> QED
      BY <3>1, Cells
  <2>2. c.vec[1] \in ToSet(c.vec) /\ c.vec[1] # -1
    <3>1. c.vec[1] \in Client
      BY <2>1, Cells
    <3> QED
      BY <2>1, <3>1, MaxClientsAssumption DEF ToSet, Client
  <2> QED
    BY <1>2, <2>2 DEF ElectNewMaster
<1>3. CASE c.slot = NULL /\ c.vec = <<>>
  BY <1>3 DEF ElectNewMaster
<1> QED
  BY <1>1, <1>2, <1>3

\* Electing, or naming, a master leaves one, registered; the server does not
\* survive it if the election is of one who is not.
LEMMA SettingMaster ==
  ASSUME NEW c, Fine(c), NEW conn, NEW id
  PROVE  /\ Follows(c, conn, SetMasterController(c, id))
         /\ Headed(SetMasterController(c, id))
         /\ SetMasterController(c, id).vec = c.vec
         /\ SameManager(c, SetMasterController(c, id))
<1> DEFINE u == SetMasterController(c, id)
           registered == ToSet(c.vec)
           elected == ElectNewMaster(c)
           m == IF id \in registered THEN {id} ELSE {elected} \cap registered
           d == IF id \in registered THEN c.down
                ELSE c.down \/ elected \notin registered \cup {-1}
<1>1. u = [c EXCEPT !.masters = m, !.down = d]
  <2>1. c = [c EXCEPT !.down = c.down]
    BY DEF Fine
  <2>2. CASE id \in registered
    <3>1. u = [c EXCEPT !.masters = {id}]
      BY <2>2 DEF SetMasterController
    <3> QED
      BY <2>2, <3>1 DEF Fine
  <2>3. CASE id \notin registered
    BY <2>3 DEF SetMasterController
  <2> QED
    BY <2>2, <2>3
<1>2. m \subseteq registered /\ m \subseteq Client /\ registered \subseteq Client
  BY Cells
<1>3. \E x \in Client : m \subseteq {x}
  <2>1. 1 \in Client
    BY MaxClientsAssumption DEF Client
  <2> QED
    BY <1>2, <2>1
<1>4. d \in BOOLEAN
  BY DEF Fine
<1>5. c.down => d
  OBVIOUS
<1>6. Electable(c) => d = c.down
  BY <1>4, Electing DEF Fine
<1>7. m # {} \/ d \/ c.vec = <<>>
  BY Electing
<1> HIDE DEF u, m, d, registered
<1>9. /\ u.vec = c.vec /\ u.ghost = c.ghost /\ u.slot = c.slot
      /\ u.comm = c.comm /\ u.masters = m /\ u.down = d
      /\ SameManager(c, u)
  BY <1>1 DEF Fine, SameManager
<1>10. Fine(u)
  <2>1. u \in [vec : Seq(Client), ghost : Seq(Client), slot : 0 .. MaxClients,
               comm : 0 .. MaxClients, masters : SUBSET Client, down : BOOLEAN,
             ref : Nat, registered : SUBSET Client, released : BOOLEAN]
    BY <1>1, <1>2, <1>4 DEF Fine
  <2> QED
    BY <1>2, <1>3, <1>9, <2>1 DEF Fine, registered
<1>11. ASSUME NEW src, Serves(c, src) PROVE Serves(u, src) /\ d = c.down
  <2>1. Electable(c)
    BY <1>11 DEF Serves, Electable, ActiveId, ToSet
  <2> QED
    BY <1>6, <1>9, <1>11, <2>1 DEF Serves
<1>12. NonConnected(u, conn) = NonConnected(c, conn)
  BY <1>9 DEF NonConnected
<1>13. Ready(c, conn) => Ready(u, conn)
  <2>1. ASSUME Ready(c, conn) PROVE Electable(c)
    BY <2>1 DEF Ready, Serves, Electable, ActiveId, ToSet
  <2>2. Electable(u) <=> Electable(c)
    BY <1>9 DEF Electable, ActiveId
  <2> QED
    BY <1>6, <1>9, <1>11, <1>12, <2>1, <2>2 DEF Ready
<1>14. \A G : CommTrue(c, G) => CommTrue(u, G)
  BY <1>9 DEF CommTrue, ActiveController
<1>15. Len(u.vec) <= Len(c.vec)
  BY <1>9, Cells
<1>16. Follows(c, conn, u)
  <2>1. Accounts(c, conn, u)
    BY <1>9, AccountsSame
  <2> QED
    BY <1>9, <1>10, <1>11, <1>13, <1>14, <1>15, <2>1 DEF Follows
<1>17. Headed(u)
  BY <1>7, <1>9 DEF Headed
<1> QED
  BY <1>9, <1>16, <1>17 DEF u

\* Asking for the master elects one if there is none, and changes nothing if
\* there is.
LEMMA GettingMaster ==
  ASSUME NEW c, Fine(c), NEW conn
  PROVE  /\ Follows(c, conn, GetMasterController(c))
         /\ Headed(GetMasterController(c))
         /\ GetMasterController(c).vec = c.vec
         /\ SameManager(c, GetMasterController(c))
         /\ c.masters # {} => GetMasterController(c) = c
<1>1. CASE c.masters # {} \/ ElectNewMaster(c) = -1
  BY <1>1, FollowsItself, Electing DEF GetMasterController, Headed, SameManager
<1>2. CASE ~(c.masters # {} \/ ElectNewMaster(c) = -1)
  <2> DEFINE u == SetMasterController(c, ElectNewMaster(c))
  <2>1. u = GetMasterController(c)
    BY <1>2 DEF GetMasterController
  <2>2. Follows(c, conn, u) /\ Headed(u) /\ u.vec = c.vec /\ SameManager(c, u)
    BY SettingMaster
  <2> HIDE DEF u
  <2> QED
    BY <1>2, <2>1, <2>2
<1> QED
  BY <1>1, <1>2

\* Removing at most one controller, not the active one, leaves the server able
\* to elect a master; afterwards all are connected.
LEMMA Purging ==
  ASSUME NEW c, Fine(c), NEW conn
  PROVE  /\ Follows(c, conn, Purge(c, conn))
         /\ NonConnected(Purge(c, conn), conn) = {}
<1> DEFINE u == Purge(c, conn)
<1>1. Tracks(c, conn, u, NonConnected(c, conn))
  BY Cleaning
<1>2. /\ NonConnected(c, conn) = {} => u = c
      /\ \A d : NonConnected(c, conn) = {d} => u = UnRegisterController(c, d)
  BY CleaningOne
<1> HIDE DEF u
<1>3. ToSet(u.vec) = ToSet(c.vec) \cap conn
  BY <1>1 DEF Tracks, NonConnected
<1>4. NonConnected(u, conn) = {}
  BY <1>3 DEF NonConnected
<1>5. ASSUME Ready(c, conn)
      PROVE  Ready(u, conn) /\ (c.slot # NULL => u.slot # NULL)
  <2>1. CASE NonConnected(c, conn) = {}
    BY <1>2, <1>5, <2>1
  <2>2. CASE NonConnected(c, conn) # {}
    <3>1. PICK d : NonConnected(c, conn) = {d}
      BY <1>5, <2>2 DEF Ready
    <3>2. u = UnRegisterController(c, d) /\ d \in ToSet(c.vec) /\ d \notin conn
      BY <1>2, <3>1 DEF NonConnected
    <3> DEFINE p == SlotOf(c, d)
               n == Len(c.vec)
    <3>3. Erased(c, u, p) /\ c.vec[p] = d /\ p \in DOMAIN c.vec
      BY <3>2, UnRegistering, Found
    <3>4. DOMAIN c.vec = 1 .. n /\ n \in Nat /\ c.slot \in Nat
      BY Cells
    <3> HIDE DEF p, n
    <3>5. ~u.down
      BY <1>5, <3>3 DEF Ready, Erased
    <3>6. CASE c.slot = NULL
      <4>1. u.slot = NULL
        BY <3>3, <3>6 DEF Erased
      <4> QED
        BY <1>4, <3>5, <3>6, <4>1 DEF Ready, Electable
    <3>7. CASE c.slot # NULL
      <4>1. PICK src \in conn : Serves(c, src)
        BY <1>5, <2>2, <3>7 DEF Ready
      <4>2. c.slot # p /\ c.slot \in 1 .. n /\ src \in ToSet(u.vec)
        BY <1>3, <3>2, <3>3, <3>4, <4>1 DEF Serves, ToSet
      <4>3. u.slot = c.slot
        BY <3>3, <4>2 DEF Erased
      <4>4. CASE c.slot \in 1 .. n - 1
        <5>1. c.slot \in DOMAIN u.vec
          BY <3>3, <4>4 DEF Erased, n
        <5>2. ActiveId(u) \in ToSet(u.vec)
          BY <4>3, <5>1 DEF ActiveId, ToSet
        <5> QED
          BY <1>4, <3>5, <3>7, <4>3, <5>2 DEF Ready, Electable
      <4>5. CASE c.slot = n
        <5>1. n \notin 1 .. n - 1 /\ n - (n - 1) = 1
          BY <3>4
        <5>2. Len(u.vec) = n - 1 /\ DOMAIN u.vec = 1 .. n - 1
              /\ u.ghost[1] = c.vec[n]
          BY <3>3 DEF Erased, n
        <5>3. ActiveId(u) = c.vec[n]
          BY <4>3, <4>5, <5>1, <5>2 DEF ActiveId
        <5>4. ActiveId(u) = src
          BY <4>1, <4>5, <5>3 DEF Serves
        <5> QED
          BY <1>4, <3>5, <3>7, <4>2, <4>3, <5>4 DEF Ready, Electable
      <4> QED
        BY <3>4, <4>2, <4>4, <4>5
    <3> QED
      BY <3>6, <3>7
  <2> QED
    BY <2>1, <2>2
<1>6. Accounts(c, conn, u)
  BY <1>1, <1>2 DEF Tracks, Accounts, SameManager
<1>7. Follows(c, conn, u)
  BY <1>1, <1>3, <1>5, <1>6 DEF Tracks, Follows
<1> QED
  BY <1>4, <1>7 DEF u

\* Sets of clients can be counted.
LEMMA Counting ==
  ASSUME NEW S, S \subseteq Client
  PROVE  /\ IsFiniteSet(S) /\ Cardinality(S) \in Nat /\ Cardinality(S) <= MaxClients
         /\ Cardinality(S) = 0 <=> S = {}
<1>1. IsFiniteSet(Client) /\ Cardinality(Client) = MaxClients
  BY MaxClientsAssumption, FS_Interval DEF Client
<1>2. IsFiniteSet(S) /\ Cardinality(S) <= MaxClients
  BY <1>1, FS_Subset
<1> QED
  BY <1>2, FS_CardinalityType, FS_EmptySet

\* Departed clients are taken off the collaboration manager.
LEMMA Collecting ==
  ASSUME NEW c, Fine(c), NEW conn
  PROVE  /\ Follows(c, conn, Collect(c)) /\ Tidy(Collect(c))
         /\ Headed(c) => Headed(Collect(c))
         /\ Collect(c).vec = c.vec
<1> DEFINE dead == IF c.vec = <<>> THEN {} ELSE c.registered \ ToSet(c.vec)
           left == IF Cardinality(dead) < c.ref THEN c.ref - Cardinality(dead) ELSE 0
           rest == c.registered \ dead
           u == Collect(c)
<1>1. c.ref \in Nat /\ c.registered \subseteq Client
  BY DEF Fine
<1>2. dead \subseteq c.registered /\ c.registered \cap dead = dead
  OBVIOUS
<1>3. u = [c EXCEPT !.registered = rest, !.ref = left]
  BY DEF Collect
<1>4. c.vec # <<>> => rest \subseteq ToSet(c.vec)
  OBVIOUS
<1>5. c.registered \cap ToSet(c.vec) \subseteq rest
  OBVIOUS
<1>6. Tidy(c) => dead = {}
  BY DEF Tidy
<1> HIDE DEF dead
<1>7. /\ Cardinality(dead) \in Nat /\ Cardinality(c.registered) \in Nat
      /\ Cardinality(rest) \in Nat
      /\ Cardinality(rest) = Cardinality(c.registered) - Cardinality(dead)
      /\ dead = {} => Cardinality(dead) = 0
  <2>1. /\ IsFiniteSet(c.registered) /\ dead \subseteq Client /\ rest \subseteq Client
    BY <1>1, <1>2, Counting
  <2> QED
    BY <1>1, <1>2, <2>1, Counting, FS_Difference
<1>8. left \in Nat /\ (dead = {} => left = c.ref)
  BY <1>1, <1>7
<1>9. ASSUME NEW k \in Nat
      PROVE  /\ c.ref <= Cardinality(c.registered) + k => left <= Cardinality(rest) + k
             /\ c.ref = Cardinality(c.registered) + k => left = Cardinality(rest) + k
  <2> HIDE DEF rest
  <2> QED
    BY <1>1, <1>7
<1>10. /\ rest \subseteq c.registered /\ rest \subseteq Client
  BY <1>1
<1> HIDE DEF u, rest, left
<1>11. /\ u.vec = c.vec /\ u.ghost = c.ghost /\ u.slot = c.slot /\ u.comm = c.comm
       /\ u.masters = c.masters /\ u.down = c.down /\ u.released = c.released
       /\ u.registered = rest /\ u.ref = left
  BY <1>3 DEF Fine
<1>12. Fine(u)
  <2>1. u \in [vec : Seq(Client), ghost : Seq(Client), slot : 0 .. MaxClients,
               comm : 0 .. MaxClients, masters : SUBSET Client, down : BOOLEAN,
               ref : Nat, registered : SUBSET Client, released : BOOLEAN]
    BY <1>3, <1>8, <1>10 DEF Fine
  <2> QED
    BY <1>11, <2>1 DEF Fine
<1>13. Tidy(u)
  BY <1>4, <1>11 DEF Tidy
<1>14. Accounts(c, conn, u)
  BY <1>5, <1>6, <1>8, <1>9, <1>10, <1>11, <1>13 DEF Accounts
<1>15. Follows(c, conn, u)
  BY <1>11, <1>12, <1>14, Alike
<1>16. Headed(c) => Headed(u)
  <2>1. c.ref = 0 => left = 0
    BY <1>1, <1>7 DEF left
  <2> QED
    BY <1>11, <2>1 DEF Headed
<1> QED
  BY <1>11, <1>13, <1>15, <1>16 DEF u

\* The broadcast of the manager: all who are left are connected, and have a
\* master, unless the clean-up took the manager with it.
LEMMA Announcing ==
  ASSUME NEW c, Fine(c), NEW conn, c.ref # 0
  PROVE  LET u == Announce(c, conn)
         IN  /\ Follows(c, conn, u) /\ Headed(u)
             /\ ToSet(u.vec) \subseteq conn
             /\ Tidy(c) => Tidy(u)
<1> DEFINE e == GetMasterController(c)
           q == Purge(e, conn)
           cleaned == IF NonConnected(e, conn) = {} THEN e ELSE Collect(q)
           changed == e.masters # c.masters
           u == IF cleaned.ref # 0 THEN GetMasterController(cleaned)
                ELSE [cleaned EXCEPT !.released = @ \/ changed]
<1>1. u = Announce(c, conn)
  BY DEF Announce
<1>2. Follows(c, conn, e) /\ Fine(e) /\ e.vec = c.vec /\ SameManager(c, e)
  BY GettingMaster DEF Follows
<1> HIDE DEF e
<1>3. NonConnected(e, conn) = NonConnected(c, conn) /\ (Tidy(c) => Tidy(e))
  BY <1>2 DEF NonConnected, Tidy, SameManager
<1>4. /\ Follows(e, conn, cleaned) /\ NonConnected(cleaned, conn) = {}
      /\ Tidy(c) => Tidy(cleaned)
  <2>1. CASE NonConnected(e, conn) = {}
    BY <1>2, <1>3, <2>1, FollowsItself
  <2>2. CASE NonConnected(e, conn) # {}
    <3>1. Follows(e, conn, q) /\ Fine(q) /\ NonConnected(q, conn) = {}
      BY <1>2, Purging DEF Follows
    <3> HIDE DEF q
    <3>2. Follows(q, conn, Collect(q)) /\ Tidy(Collect(q)) /\ Collect(q).vec = q.vec
      BY <3>1, Collecting
    <3>3. Follows(e, conn, Collect(q))
      BY <1>2, <3>1, <3>2, FollowsOn
    <3> QED
      BY <2>2, <3>1, <3>2, <3>3 DEF NonConnected
  <2> QED
    BY <2>1, <2>2
<1>5. cleaned.ref = 0 => NonConnected(c, conn) # {}
  BY <1>2, <1>3 DEF SameManager
<1> HIDE DEF cleaned
<1>6. Follows(c, conn, cleaned) /\ Fine(cleaned)
  BY <1>2, <1>4, FollowsOn DEF Follows
<1>7. CASE cleaned.ref # 0
  <2> DEFINE g == GetMasterController(cleaned)
  <2>1. /\ Follows(cleaned, conn, g) /\ Headed(g) /\ g.vec = cleaned.vec
        /\ SameManager(cleaned, g)
    BY <1>6, GettingMaster
  <2>2. u = g
    BY <1>7
  <2> HIDE DEF g, u
  <2>3. Follows(c, conn, g)
    BY <1>6, <2>1, FollowsOn
  <2> QED
    BY <1>1, <1>4, <2>1, <2>2, <2>3 DEF NonConnected, Tidy, SameManager
<1>8. CASE cleaned.ref = 0
  <2> DEFINE w == [cleaned EXCEPT !.released = @ \/ changed]
  <2>1. u = w
    BY <1>8
  <2>2. changed \in BOOLEAN
    OBVIOUS
  <2> HIDE DEF changed, u
  <2>3. /\ w.vec = cleaned.vec /\ w.ghost = cleaned.ghost /\ w.slot = cleaned.slot
        /\ w.comm = cleaned.comm /\ w.down = cleaned.down
        /\ w.masters = cleaned.masters /\ w.ref = cleaned.ref
        /\ w.registered = cleaned.registered
    BY <1>6 DEF Fine
  <2>4. Fine(w)
    <3>1. w \in [vec : Seq(Client), ghost : Seq(Client), slot : 0 .. MaxClients,
                 comm : 0 .. MaxClients, masters : SUBSET Client, down : BOOLEAN,
                 ref : Nat, registered : SUBSET Client, released : BOOLEAN]
      BY <1>6, <2>2 DEF Fine
    <3> HIDE DEF w
    <3> QED
      BY <1>6, <2>3, <3>1 DEF Fine
  <2> HIDE DEF w
  <2>5. Follows(c, conn, w)
    <3> DEFINE k == [cleaned EXCEPT !.released = @]
    <3>1. Accounts(c, conn, w)
      BY <1>5, <1>6, <1>8, <2>3 DEF Follows, Accounts, Tidy
    <3>2. \A G : CommTrue(w, G) <=> CommTrue(cleaned, G)
      BY <2>3 DEF CommTrue, ActiveController
    <3>3. \A src : Serves(w, src) <=> Serves(cleaned, src)
      BY <2>3 DEF Serves
    <3>4. Ready(w, conn) <=> Ready(cleaned, conn)
      BY <2>3, <3>3 DEF Ready, NonConnected, Electable, ActiveId
    <3> QED
      BY <1>6, <2>3, <2>4, <3>1, <3>2, <3>3, <3>4 DEF Follows
  <2> QED
    BY <1>1, <1>4, <1>8, <2>1, <2>3, <2>5 DEF NonConnected, Headed, Tidy
<1> QED
  BY <1>7, <1>8

\* The event: departed clients are taken off the manager; while there is one,
\* all who are left are connected, and have a master.
LEMMA Changing ==
  ASSUME NEW c, Fine(c), NEW conn
  PROVE  LET u == Changed(c, conn)
         IN  /\ Follows(c, conn, u) /\ Tidy(u) /\ Headed(u)
             /\ u.ref # 0 => ToSet(u.vec) \subseteq conn
<1> DEFINE q == Collect(c)
           u == Announce(q, conn)
<1>1. Follows(c, conn, q) /\ Tidy(q) /\ Fine(q)
  BY Collecting DEF Follows
<1>2. Changed(c, conn) = IF q.ref = 0 THEN q ELSE u
  BY DEF Changed
<1> HIDE DEF q
<1>3. CASE q.ref = 0
  BY <1>1, <1>2, <1>3 DEF Headed
<1>4. CASE q.ref # 0
  <2>1. /\ Follows(q, conn, u) /\ Headed(u) /\ ToSet(u.vec) \subseteq conn
        /\ Tidy(u)
    BY <1>1, <1>4, Announcing
  <2> HIDE DEF u
  <2>2. Follows(c, conn, u)
    BY <1>1, <2>1, FollowsOn
  <2> QED
    BY <1>2, <1>4, <2>1, <2>2
<1> QED
  BY <1>3, <1>4

\* Cleaning fires the event if it removes somebody.
LEMMA CleaningUp ==
  ASSUME NEW c, Fine(c), NEW conn
  PROVE  LET u == Clean(c, conn)
         IN  /\ Follows(c, conn, u)
             /\ Headed(c) => Headed(u)
             /\ Tidy(c) => Tidy(u)
<1> DEFINE q == Purge(c, conn)
           u == Changed(q, conn)
<1>1. CASE NonConnected(c, conn) = {}
  BY <1>1, FollowsItself DEF Clean
<1>2. CASE NonConnected(c, conn) # {}
  <2>1. Follows(c, conn, q) /\ Fine(q)
    BY Purging DEF Follows
  <2> HIDE DEF q
  <2>2. Follows(q, conn, u) /\ Headed(u) /\ Tidy(u)
    BY <2>1, Changing
  <2> HIDE DEF u
  <2>3. Follows(c, conn, u)
    BY <2>1, <2>2, FollowsOn
  <2> QED
    BY <1>2, <2>2, <2>3 DEF Clean, u, q
<1> QED
  BY <1>1, <1>2

-----------------------------------------------------------------------------
(* The operations of the event loop                                        *)

\* The client being served is the active one, and gets the replies unless one
\* before it is in G.
LEMMA Activating ==
  ASSUME NEW c, Fine(c), NEW src \in ToSet(c.vec), Len(c.vec) <= MaxClients
  PROVE  LET u == ActivateController(c, src)
         IN  /\ Fine(u) /\ u.vec = c.vec /\ u.masters = c.masters
             /\ u.down = c.down /\ Serves(u, src) /\ SameManager(c, u)
             /\ \A G : CommTrue(c, G) => u.comm = src \/ \E d \in G : d < src
<1> DEFINE u == ActivateController(c, src)
           p == SlotOf(c, src)
<1>1. /\ DOMAIN c.vec = 1 .. Len(c.vec) /\ Len(c.vec) \in Nat /\ src \in Client
      /\ NULL \notin Client /\ c.slot \in Nat /\ MaxClients \in Nat
  BY Cells
<1>2. CASE ActiveController(c) = src
  <2>1. u = c
    BY <1>2 DEF ActivateController
  <2>2. Serves(c, src)
    BY <1>1, <1>2 DEF ActiveController, Serves
  <2>3. src # NULL
    BY <1>1
  <2> HIDE DEF u
  <2> QED
    BY <1>2, <2>1, <2>2, <2>3 DEF CommTrue, SameManager, u
<1>3. CASE ActiveController(c) # src
  <2>1. p \in 1 .. Len(c.vec) /\ c.vec[p] = src
    BY <1>1, Found
  <2>2. u = [c EXCEPT !.slot = p, !.comm = src]
    BY <1>3 DEF ActivateController
  <2> DEFINE n == Len(c.vec)
             g == Len(c.ghost)
  <2>3. g \in Nat
    BY Cells
  <2> HIDE DEF u, p
  <2>4. /\ u.vec = c.vec /\ u.ghost = c.ghost /\ u.slot = p /\ u.comm = src
        /\ u.masters = c.masters /\ u.down = c.down /\ SameManager(c, u)
    BY <2>2 DEF Fine, SameManager
  <2>5. p \in 0 .. MaxClients /\ p <= n + g
    <3>1. n \in Nat /\ n <= MaxClients /\ MaxClients \in Nat /\ p \in 1 .. n
      BY <1>1, <2>1
    <3> HIDE DEF n, g
    <3> QED
      BY <2>3, <3>1
  <2>6. src \in 0 .. MaxClients
    BY <1>1 DEF Client
  <2>7. u \in [vec : Seq(Client), ghost : Seq(Client), slot : 0 .. MaxClients,
               comm : 0 .. MaxClients, masters : SUBSET Client, down : BOOLEAN,
             ref : Nat, registered : SUBSET Client, released : BOOLEAN]
    BY <2>2, <2>5, <2>6 DEF Fine
  <2>8. Fine(u)
    BY <2>4, <2>5, <2>7 DEF Fine
  <2>9. Serves(u, src)
    BY <1>1, <2>1, <2>4 DEF Serves
  <2> QED
    BY <2>4, <2>8, <2>9 DEF u
<1> QED
  BY <1>2, <1>3

\* A new controller comes last, and is the active one.
LEMMA Registering ==
  ASSUME NEW c, Fine(c), NEW id \in Client, \A x \in ToSet(c.vec) : x < id,
         Len(c.vec) < MaxClients
  PROVE  LET u == RegisterController(c, id)
         IN  /\ Fine(u) /\ Serves(u, id) /\ u.comm = id /\ u.down = c.down
             /\ SameManager(c, u)
             /\ ToSet(u.vec) = ToSet(c.vec) \cup {id}
             /\ Len(u.vec) = Len(c.vec) + 1
<1> DEFINE u == RegisterController(c, id)
           n == Len(c.vec)
           v == Append(c.vec, id)
<1>1. /\ DOMAIN c.vec = 1 .. n /\ n \in Nat /\ MaxClients \in Nat
      /\ ToSet(c.vec) \subseteq Client
  BY Cells
<1>2. /\ v \in Seq(Client) /\ Len(v) = n + 1 /\ v[n + 1] = id
      /\ DOMAIN v = 1 .. n + 1 /\ \A i \in 1 .. n : v[i] = c.vec[i]
  BY Appended DEF Fine
<1>3. u = [c EXCEPT !.vec = v, !.ghost = <<>>, !.slot = n + 1, !.comm = id]
  BY DEF RegisterController
<1>4. n < MaxClients
  OBVIOUS
<1> HIDE DEF u, v, n
<1>5. /\ u.vec = v /\ u.ghost = <<>> /\ u.slot = n + 1 /\ u.comm = id
      /\ u.masters = c.masters /\ u.down = c.down /\ SameManager(c, u)
  BY <1>3 DEF Fine, SameManager
<1>6. /\ n + 1 \in 1 .. n + 1 /\ n + 1 \in 0 .. MaxClients
      /\ \A i \in 1 .. n + 1 : i \in 1 .. n \/ i = n + 1
      /\ \A i \in 1 .. n : i \in 1 .. n + 1
  BY <1>1, <1>4
<1>7. ToSet(v) = ToSet(c.vec) \cup {id}
  <2>1. ASSUME NEW i \in 1 .. n + 1 PROVE v[i] \in ToSet(c.vec) \cup {id}
    BY <1>1, <1>2, <1>6 DEF ToSet
  <2>2. ASSUME NEW i \in 1 .. n PROVE c.vec[i] \in ToSet(v)
    <3>1. i \in DOMAIN v /\ v[i] = c.vec[i]
      BY <1>2, <1>6
    <3> QED
      BY <3>1 DEF ToSet
  <2>3. id \in ToSet(v)
    BY <1>2, <1>6 DEF ToSet
  <2> QED
    BY <1>1, <1>2, <2>1, <2>2, <2>3 DEF ToSet
<1>8. ASSUME NEW i \in DOMAIN v, NEW j \in DOMAIN v, i < j PROVE v[i] < v[j]
  <2>1. i \in 1 .. n
    BY <1>1, <1>2, <1>8
  <2>2. CASE j \in 1 .. n
    BY <1>1, <1>2, <1>8, <2>1, <2>2 DEF Fine
  <2>3. CASE j = n + 1
    <3>1. c.vec[i] \in ToSet(c.vec)
      BY <1>1, <2>1 DEF ToSet
    <3> QED
      BY <1>2, <2>1, <2>3, <3>1
  <2> QED
    BY <1>2, <1>6, <2>2, <2>3
<1>9. u \in [vec : Seq(Client), ghost : Seq(Client), slot : 0 .. MaxClients,
             comm : 0 .. MaxClients, masters : SUBSET Client, down : BOOLEAN,
             ref : Nat, registered : SUBSET Client, released : BOOLEAN]
  <2>1. id \in 0 .. MaxClients
    BY <1>1 DEF Client
  <2>2. <<>> \in Seq(Client)
    BY EmptySeq
  <2> QED
    BY <1>2, <1>3, <1>6, <2>1, <2>2 DEF Fine
<1>10. u.slot <= Len(u.vec) + Len(u.ghost)
  <2>1. Len(u.ghost) = 0 /\ Len(u.vec) = n + 1
    BY <1>2, <1>5, EmptySeq
  <2> QED
    BY <1>1, <1>5, <2>1
<1>11. Fine(u)
  <2>1. u.masters \subseteq ToSet(u.vec)
    BY <1>5, <1>7 DEF Fine
  <2>2. \E m \in Client : u.masters \subseteq {m}
    BY <1>5 DEF Fine
  <2> QED
    BY <1>5, <1>8, <1>9, <1>10, <2>1, <2>2 DEF Fine
<1>12. Serves(u, id)
  BY <1>2, <1>5, <1>6 DEF Serves
<1> QED
  BY <1>2, <1>5, <1>7, <1>11, <1>12 DEF u, n

\* A client that closes its session is unregistered, and the slot forgotten.
LEMMA Closing ==
  ASSUME NEW c, Fine(c), NEW src \in ToSet(c.vec), Len(c.vec) <= MaxClients
  PROVE  LET u == UnRegisterController(ActivateController(c, src), src)
         IN  /\ Fine(u) /\ u.slot = NULL /\ u.down = c.down /\ SameManager(c, u)
             /\ ToSet(u.vec) = ToSet(c.vec) \ {src}
             /\ Len(u.vec) <= Len(c.vec)
             /\ \A G : CommTrue(u, G)
<1> DEFINE a == ActivateController(c, src)
           u == UnRegisterController(a, src)
           p == SlotOf(a, src)
<1>1. /\ Fine(a) /\ a.vec = c.vec /\ a.down = c.down /\ Serves(a, src)
      /\ SameManager(c, a)
  BY Activating
<1> HIDE DEF a
<1>2. Erased(a, u, p) /\ Fine(u) /\ ToSet(u.vec) = ToSet(c.vec) \ {src}
      /\ p \in DOMAIN a.vec /\ a.vec[p] = src
  BY <1>1, UnRegistering, Found
<1> HIDE DEF u, p
<1>3. a.slot = p
  <2>1. a.slot \in DOMAIN a.vec /\ a.vec[a.slot] = src
    BY <1>1 DEF Serves
  <2> QED
    BY <1>1, <1>2, <2>1, OneCell
<1>4. /\ u.slot = NULL /\ u.down = c.down /\ Len(u.vec) = Len(a.vec) - 1
      /\ SameManager(c, u)
  BY <1>1, <1>2, <1>3 DEF Erased, SameManager
<1>5. Len(u.vec) <= Len(c.vec)
  BY <1>1, <1>4, Cells
<1>6. ActiveController(u) = NULL
  BY <1>2, <1>4, Cells DEF ActiveController
<1> QED
  BY <1>2, <1>4, <1>5, <1>6 DEF CommTrue, u, a

-----------------------------------------------------------------------------
(* The inductive invariant                                                 *)

\* The vector holds every connected controller and otherwise only those of
\* clients in G; Ids are given out once; replies go to the active controller.
Sound(c, conn, G, n) ==
  /\ Fine(c)
  /\ \A id \in ToSet(c.vec) : id < n
  /\ Len(c.vec) < n
  /\ conn \subseteq ToSet(c.vec)
  /\ ToSet(c.vec) \subseteq conn \cup G
  /\ CommTrue(c, G)

Counted == gone \subseteq Client /\ nextId \in 1 .. MaxClients + 1

\* The manager has no more references than clients that registered it, and
\* those are still there.
Balanced(c) == Tidy(c) /\ c.ref <= Cardinality(c.registered)

IInv ==
  /\ Counted
  /\ serving \in BOOLEAN
  /\ Sound(composite, connected, gone, nextId)
  /\ Balanced(composite)
  /\ MisdeliveryNeedsEarlierCrash
  /\ DownNeedsTwoCrashes
  /\ StopsWithLastClient

\* A bound on the number of controllers.
LEMMA Bounded ==
  ASSUME IInv
  PROVE  /\ Fine(composite) /\ Len(composite.vec) <= MaxClients
         /\ Len(composite.vec) \in Nat /\ nextId \in Nat /\ MaxClients \in Nat
         /\ nextId <= MaxClients => Len(composite.vec) < MaxClients
<1>1. /\ Fine(composite) /\ Len(composite.vec) < nextId
      /\ nextId \in 1 .. MaxClients + 1 /\ MaxClients \in Nat
  BY MaxClientsAssumption DEF IInv, Sound, Counted
<1>2. Len(composite.vec) \in Nat
  BY <1>1, Cells
<1> QED
  BY <1>1, <1>2

\* At most one crash: those who crashed are at most one.
LEMMA OneCrash ==
  ASSUME gone \subseteq Client, ~(Cardinality(gone) >= 2)
  PROVE  \E d : gone \subseteq {d}
<1>1. IsFiniteSet(gone)
  <2>1. IsFiniteSet(Client)
    BY MaxClientsAssumption, FS_Interval DEF Client
  <2> QED
    BY <2>1, FS_Subset
<1>2. Cardinality(gone) \in Nat
  BY <1>1, FS_CardinalityType
<1>3. CASE Cardinality(gone) = 0
  BY <1>1, <1>3, FS_EmptySet
<1>4. CASE Cardinality(gone) = 1
  BY <1>1, <1>4, FS_Singleton
<1> QED
  BY <1>2, <1>3, <1>4

\* Another crash makes the crashed no fewer.
LEMMA MoreCrashes ==
  ASSUME NEW T, T \subseteq Client, gone \subseteq T
  PROVE  Cardinality(gone) >= 2 => Cardinality(T) >= 2
<1>1. IsFiniteSet(T)
  <2>1. IsFiniteSet(Client)
    BY MaxClientsAssumption, FS_Interval DEF Client
  <2> QED
    BY <2>1, FS_Subset
<1>2. /\ Cardinality(T) \in Nat /\ Cardinality(gone) \in Nat
      /\ Cardinality(gone) <= Cardinality(T)
  BY <1>1, FS_Subset, FS_CardinalityType
<1> QED
  BY <1>2

\* What follows a sound state is sound.
LEMMA SoundOn ==
  ASSUME NEW c, NEW u, NEW conn, NEW G, NEW n \in Nat, Sound(c, conn, G, n),
         Follows(c, conn, u)
  PROVE  Sound(u, conn, G, n)
<1>1. Len(u.vec) < n
  <2>1. Len(u.vec) \in Nat /\ Len(c.vec) \in Nat
    BY Cells DEF Follows, Sound
  <2>2. Len(u.vec) <= Len(c.vec) /\ Len(c.vec) < n
    BY DEF Follows, Sound
  <2> QED
    BY <2>1, <2>2
<1>2. CommTrue(u, G)
  <2>1. NonConnected(c, conn) \subseteq G
    BY DEF Sound, NonConnected
  <2> QED
    BY <2>1 DEF Sound, Follows
<1> QED
  BY <1>1, <1>2 DEF Sound, Follows

\* Serving a client without an earlier crash, the server serves it to the end
\* of the turn; with at most one crash at all, it survives the turn.
LEMMA Turns ==
  ASSUME NEW a, NEW src, src \in connected, Sound(a, connected, gone, nextId),
         gone \subseteq Client, Serves(a, src), ~a.down, ~a.released,
         NEW u, Follows(a, connected, u)
  PROVE  /\ u.released => gone # {}
         /\ (\E dead \in gone : dead < src)
            \/ (Serves(u, src) /\ u.comm = a.comm /\ ~u.down)
         /\ (Cardinality(gone) >= 2) \/ (~u.down /\ u.slot # NULL)
<1>1. NonConnected(a, connected) \subseteq gone
  BY DEF Sound, NonConnected
<1>2. ASSUME ~ \E dead \in gone : dead < src
      PROVE  Serves(u, src) /\ u.comm = a.comm /\ ~u.down
  <2>1. ASSUME NEW id \in NonConnected(a, connected) PROVE src < id
    <3>1. id # src /\ ~(id < src)
      BY <1>1, <1>2, <2>1 DEF NonConnected
    <3>2. id \in Client /\ src \in Client
      BY <2>1, Cells DEF Sound, NonConnected
    <3> QED
      BY <3>1, <3>2 DEF Client
  <2> QED
    BY <2>1 DEF Follows
<1>3. ASSUME ~(Cardinality(gone) >= 2) PROVE ~u.down /\ u.slot # NULL
  <2>1. PICK d : gone \subseteq {d}
    BY <1>3, OneCrash
  <2>2. NonConnected(a, connected) \subseteq {d}
    BY <1>1, <2>1
  <2>3. Ready(a, connected)
    BY <2>2 DEF Ready
  <2>4. a.slot # NULL
    BY Cells DEF Sound, Serves
  <2> QED
    BY <2>3, <2>4 DEF Follows, Ready
<1>4. u.released => gone # {}
  BY <1>1 DEF Follows, Accounts
<1> QED
  BY <1>2, <1>3, <1>4

\* What is true when the turn of src ends in composite'.
TurnEnds(src) ==
  /\ Sound(composite', connected, gone, nextId)
  /\ Balanced(composite')
  /\ last'.to # last'.due =>
       composite'.released \/ (last'.from = src /\ \E dead \in gone : dead < src)
  /\ composite'.down => Cardinality(gone) >= 2
  /\ composite'.released => gone # {}

\* What becomes of a manager that there was: whoever is left has a master if
\* anybody had, unless the manager is gone, and then none of those who are left
\* had registered it, if all registrations were counted.
Stays ==
  composite.ref > 0 =>
    /\ Headed(composite) => Headed(composite')
    /\ AllCounted /\ composite'.ref = 0 => composite.registered \cap connected' = {}

\* Reference counts follow the cells.
LEMMA Balancing ==
  ASSUME NEW c, NEW conn, NEW u, Fine(c), Follows(c, conn, u)
  PROVE  /\ c.ref <= Cardinality(c.registered) => u.ref <= Cardinality(u.registered)
         /\ conn \subseteq ToSet(c.vec) /\ c.ref = Cardinality(c.registered)
            /\ u.ref = 0 => c.registered \cap conn = {}
<1>1. /\ Cardinality(c.registered) \in Nat /\ Cardinality(u.registered) \in Nat
      /\ Cardinality(u.registered) = 0 => u.registered = {}
  BY Counting DEF Follows, Fine
<1>2. /\ c.ref <= Cardinality(c.registered) + 0 => u.ref <= Cardinality(u.registered) + 0
      /\ c.ref = Cardinality(c.registered) + 0 => u.ref = Cardinality(u.registered) + 0
      /\ c.registered \cap conn \cap ToSet(c.vec) \subseteq u.registered
  BY DEF Follows, Accounts
<1> QED
  BY <1>1, <1>2

\* Relaying a message to the other clients.
LEMMA Notifying ==
  ASSUME NEW a, NEW src, src \in connected, Sound(a, connected, gone, nextId),
         gone \subseteq Client, nextId \in Nat, Serves(a, src), ~a.down, ~a.released,
         Balanced(a), NEW c0, Follows(a, connected, c0), Tidy(c0),
         NotifyOtherClients(src, c0)
  PROVE  /\ TurnEnds(src) /\ (Headed(c0) => Headed(composite'))
         /\ a.ref = Cardinality(a.registered) /\ composite'.ref = 0 =>
              a.registered \cap connected = {}
<1> DEFINE c == Clean(c0, connected)
           fails == c.down \/ c.slot = NULL
           u == [c EXCEPT !.down = fails]
<1>1. Fine(a) /\ Fine(c0)
  BY DEF Sound, Follows
<1>2. /\ Follows(c0, connected, c) /\ (Headed(c0) => Headed(c)) /\ Tidy(c)
  BY <1>1, CleaningUp
<1>3. composite' = u
      /\ last' = [kind |-> "notify", from |-> src,
                  to |-> IF fails \/ c.released THEN {}
                         ELSE {id \in ToSet(c.vec) \cap connected :
                                  id # ActiveController(c)},
                  due |-> connected \ {src}]
  BY DEF NotifyOtherClients
<1> HIDE DEF c
<1>4. Follows(a, connected, c)
  BY <1>1, <1>2, FollowsOn
<1>5. Sound(c, connected, gone, nextId)
  BY <1>4, SoundOn
<1>6. /\ (\E dead \in gone : dead < src) \/ (Serves(c, src) /\ ~c.down)
      /\ (Cardinality(gone) >= 2) \/ (~c.down /\ c.slot # NULL)
      /\ c.released => gone # {}
  BY <1>4, Turns
<1>7. fails \in BOOLEAN
  BY <1>5 DEF Sound, Fine
<1>8. /\ u.vec = c.vec /\ u.ghost = c.ghost /\ u.slot = c.slot
      /\ u.comm = c.comm /\ u.masters = c.masters /\ u.down = fails
      /\ SameManager(c, u) /\ Fine(u)
  <2> HIDE DEF fails
  <2>1. /\ u.vec = c.vec /\ u.ghost = c.ghost /\ u.slot = c.slot
        /\ u.comm = c.comm /\ u.masters = c.masters /\ u.down = fails
        /\ SameManager(c, u)
    BY <1>5 DEF Sound, Fine, SameManager
  <2>2. u \in [vec : Seq(Client), ghost : Seq(Client), slot : 0 .. MaxClients,
               comm : 0 .. MaxClients, masters : SUBSET Client, down : BOOLEAN,
               ref : Nat, registered : SUBSET Client, released : BOOLEAN]
    BY <1>5, <1>7 DEF Sound, Fine
  <2> HIDE DEF u
  <2> QED
    BY <1>5, <2>1, <2>2 DEF Sound, Fine
<1> HIDE DEF u
<1>9. Sound(u, connected, gone, nextId)
  <2>1. CommTrue(u, gone) <=> CommTrue(c, gone)
    BY <1>8 DEF CommTrue, ActiveController
  <2> QED
    BY <1>5, <1>8, <2>1 DEF Sound
<1>10. ASSUME Serves(c, src), ~c.down, ~c.released PROVE last'.to = last'.due
  <2>1. ~fails
    BY <1>5, <1>10, Cells DEF Sound, Serves
  <2>2. ActiveController(c) = src
    BY <1>10 DEF Serves, ActiveController
  <2>3. connected \subseteq ToSet(c.vec)
    BY <1>5 DEF Sound
  <2> QED
    BY <1>3, <1>10, <2>1, <2>2, <2>3
<1>11. /\ composite'.down => Cardinality(gone) >= 2
       /\ composite'.released => gone # {}
  BY <1>3, <1>6, <1>8 DEF SameManager
<1>12. Headed(c0) => Headed(composite')
  BY <1>2, <1>3, <1>8 DEF Headed, SameManager
<1>13. /\ Balanced(composite')
       /\ a.ref = Cardinality(a.registered) /\ composite'.ref = 0 =>
            a.registered \cap connected = {}
  <2>1. /\ c.ref <= Cardinality(c.registered)
        /\ a.ref = Cardinality(a.registered) /\ c.ref = 0 =>
             a.registered \cap connected = {}
    BY <1>1, <1>4, Balancing DEF Balanced, Sound
  <2> QED
    BY <1>2, <1>3, <1>8, <2>1 DEF Balanced, Tidy, SameManager
<1>14. /\ last'.to # last'.due =>
            composite'.released \/ \E dead \in gone : dead < src
       /\ last'.from = src
  BY <1>3, <1>6, <1>8, <1>10 DEF SameManager
<1> QED
  BY <1>3, <1>9, <1>11, <1>12, <1>13, <1>14 DEF TurnEnds

\* Answering a request; of the manager, a reference may be given back.
LEMMA Replying ==
  ASSUME NEW a, NEW src, src \in connected, Sound(a, connected, gone, nextId),
         gone \subseteq Client, nextId \in Nat, Serves(a, src), ~a.down, ~a.released,
         a.comm = src \/ \E d \in gone : d < src,
         NEW r, Follows(a, connected, r),
         Fine(composite'), composite'.vec = r.vec, composite'.slot = r.slot,
         composite'.comm = r.comm, composite'.down = r.down,
         composite'.released => r.released \/ gone # {},
         Balanced(composite'), Reply(src, composite')
  PROVE  TurnEnds(src)
<1>1. Sound(r, connected, gone, nextId)
  BY SoundOn
<1>2. Sound(composite', connected, gone, nextId)
  BY <1>1 DEF Sound, CommTrue, ActiveController
<1>3. /\ (\E dead \in gone : dead < src) \/ r.comm = a.comm
      /\ r.down => Cardinality(gone) >= 2
      /\ r.released => gone # {}
  BY Turns
<1>4. src # NULL
  BY Cells DEF Sound
<1>5. last' = [kind |-> "reply", from |-> src,
               to |-> {composite'.comm} \ {NULL}, due |-> {src}]
  BY DEF Reply
<1> QED
  BY <1>2, <1>3, <1>4, <1>5 DEF TurnEnds

\* The client whose turn it is, activated.
LEMMA Begins ==
  ASSUME IInv, Serving, NEW src, src \in connected
  PROVE  LET a == ActivateController(composite, src)
         IN  /\ Sound(a, connected, gone, nextId) /\ Serves(a, src) /\ ~a.down
             /\ a.comm = src \/ \E d \in gone : d < src
             /\ a.masters = composite.masters /\ a.vec = composite.vec
             /\ SameManager(composite, a) /\ ~a.released /\ Balanced(a)
             /\ Follows(a, connected, a) /\ Fine(a)
<1> DEFINE a == ActivateController(composite, src)
<1>1. /\ Sound(composite, connected, gone, nextId) /\ Fine(composite)
      /\ src \in ToSet(composite.vec) /\ Len(composite.vec) <= MaxClients
  BY Bounded DEF IInv, Sound
<1>2. /\ Fine(a) /\ a.vec = composite.vec /\ a.masters = composite.masters
      /\ a.down = composite.down /\ Serves(a, src) /\ SameManager(composite, a)
      /\ a.comm = src \/ \E d \in gone : d < src
  BY <1>1, Activating DEF Sound
<1> HIDE DEF a
<1>3. CommTrue(a, gone)
  <2>1. ActiveController(a) = src
    BY <1>2 DEF Serves, ActiveController
  <2> QED
    BY <1>2, <2>1 DEF CommTrue
<1>4. Sound(a, connected, gone, nextId)
  BY <1>1, <1>2, <1>3 DEF Sound
<1>5. ~a.down /\ ~a.released /\ Balanced(a)
  BY <1>2 DEF Serving, SameManager, IInv, Balanced, Tidy
<1> QED
  BY <1>2, <1>4, <1>5, FollowsItself DEF a

\* A turn that leaves the connections alone keeps the invariant.
LEMMA TurnKeeps ==
  ASSUME IInv, Serving, NEW src, src \in connected, TurnEnds(src),
         UNCHANGED <<connected, gone, nextId, serving>>
  PROVE  IInv'
<1>1. Counted' /\ serving' \in BOOLEAN
  BY DEF IInv, Counted
<1>2. Sound(composite, connected, gone, nextId)' /\ Balanced(composite)'
  BY DEF TurnEnds
<1>3. MisdeliveryNeedsEarlierCrash' /\ DownNeedsTwoCrashes'
  BY DEF TurnEnds, MisdeliveryNeedsEarlierCrash, DownNeedsTwoCrashes
<1>4. StopsWithLastClient'
  BY DEF Serving, StopsWithLastClient
<1> QED
  BY <1>1, <1>2, <1>3, <1>4 DEF IInv

\* Initially nobody is there.
LEMMA InitIInv == Init => IInv
<1> SUFFICES ASSUME Init PROVE IInv
  OBVIOUS
<1>1. composite = [vec |-> <<>>, ghost |-> <<>>, slot |-> NULL, comm |-> NULL,
                   masters |-> {}, down |-> FALSE,
                   ref |-> 0, registered |-> {}, released |-> FALSE]
  BY DEF Init
<1>2. /\ <<>> \in Seq(Client) /\ Len(<<>>) = 0 /\ DOMAIN <<>> = {}
  BY EmptySeq, LenProperties
<1>3. MaxClients \in Nat \ {0} /\ 1 \in Client /\ NULL \in 0 .. MaxClients
  BY MaxClientsAssumption DEF Client, NULL
<1>4. ToSet(composite.vec) = {}
  BY <1>1, <1>2 DEF ToSet
<1>5. Fine(composite)
  <2>1. composite \in [vec : Seq(Client), ghost : Seq(Client),
                       slot : 0 .. MaxClients, comm : 0 .. MaxClients,
                       masters : SUBSET Client, down : BOOLEAN,
             ref : Nat, registered : SUBSET Client, released : BOOLEAN]
    BY <1>1, <1>2, <1>3
  <2>2. composite.slot <= Len(composite.vec) + Len(composite.ghost)
    BY <1>1, <1>2 DEF NULL
  <2>3. /\ DOMAIN composite.vec = {}
        /\ composite.masters = {}
    BY <1>1, <1>2
  <2> QED
    BY <1>3, <2>1, <2>2, <2>3 DEF Fine
<1>6. CommTrue(composite, gone)
  BY <1>1, <1>2 DEF CommTrue, ActiveController
<1>7. connected = {} /\ gone = {} /\ nextId = 1 /\ Len(composite.vec) = 0
  BY <1>1, <1>2 DEF Init
<1>8. Sound(composite, connected, gone, nextId)
  BY <1>4, <1>5, <1>6, <1>7 DEF Sound
<1>9. Counted /\ serving \in BOOLEAN /\ Balanced(composite)
  <2>1. 1 \in 1 .. MaxClients + 1
    BY <1>3
  <2>2. serving \in BOOLEAN
    BY DEF Init
  <2>3. Balanced(composite)
    BY <1>1, FS_EmptySet DEF Balanced, Tidy
  <2> QED
    BY <1>7, <2>1, <2>2, <2>3 DEF Counted
<1>10. MisdeliveryNeedsEarlierCrash
  BY DEF Init, MisdeliveryNeedsEarlierCrash, Nothing
<1>11. DownNeedsTwoCrashes
  BY <1>1 DEF DownNeedsTwoCrashes
<1>12. StopsWithLastClient
  BY <1>7 DEF Init, StopsWithLastClient
<1> QED
  BY <1>8, <1>9, <1>10, <1>11, <1>12 DEF IInv

\* A new client.
LEMMA ConnectKeeps == ASSUME IInv, Connect PROVE IInv' /\ Stays
<1> DEFINE c == RegisterController(composite, nextId)
           u == Changed(c, connected')
<1>1. /\ Sound(composite, connected, gone, nextId)
      /\ nextId <= MaxClients /\ nextId \in 1 .. MaxClients + 1
      /\ ~composite.down /\ ~composite.released /\ serving
      /\ gone \subseteq Client /\ Balanced(composite)
  BY DEF IInv, Connect, Counted, Serving
<1>2. /\ connected' = connected \cup {nextId} /\ nextId' = nextId + 1
      /\ composite' = u /\ last' = Nothing
      /\ gone' = gone /\ serving' = serving
  BY DEF Connect
<1>3. nextId \in Client /\ nextId \in Nat /\ nextId + 1 \in 1 .. MaxClients + 1
  BY <1>1, MaxClientsAssumption DEF Client
<1>4. Fine(composite) /\ Len(composite.vec) < MaxClients
  BY <1>1, Bounded
<1>5. /\ Fine(c) /\ Serves(c, nextId) /\ c.comm = nextId /\ c.down = composite.down
      /\ ToSet(c.vec) = ToSet(composite.vec) \cup {nextId}
      /\ Len(c.vec) = Len(composite.vec) + 1 /\ SameManager(composite, c)
  <2>1. \A x \in ToSet(composite.vec) : x < nextId
    BY <1>1 DEF Sound
  <2> QED
    BY <1>3, <1>4, <2>1, Registering
<1> HIDE DEF c
<1>6. Sound(c, connected', gone, nextId + 1)
  <2>1. Len(c.vec) < nextId + 1
    <3>1. Len(composite.vec) < nextId /\ Len(composite.vec) \in Nat
      BY <1>1, Bounded DEF Sound
    <3> QED
      BY <1>3, <1>5, <3>1
  <2>2. ASSUME NEW id \in ToSet(c.vec) PROVE id < nextId + 1
    <3>1. id = nextId \/ id < nextId
      BY <1>1, <1>5 DEF Sound
    <3>2. id \in Nat
      BY <1>5, Cells DEF Client
    <3> QED
      BY <1>3, <3>1, <3>2
  <2>3. CommTrue(c, gone)
    BY <1>5 DEF CommTrue, Serves, ActiveController
  <2>4. connected' \subseteq ToSet(c.vec) /\ ToSet(c.vec) \subseteq connected' \cup gone
    BY <1>1, <1>2, <1>5 DEF Sound
  <2> QED
    BY <1>5, <2>1, <2>2, <2>3, <2>4 DEF Sound
<1>7. Follows(c, connected', u) /\ Tidy(u) /\ Headed(u)
  BY <1>5, Changing
<1> HIDE DEF u
<1>8. Sound(u, connected', gone, nextId + 1)
  BY <1>3, <1>6, <1>7, SoundOn
<1>9. Sound(composite, connected, gone, nextId)' /\ Balanced(composite)'
  <2>1. u.ref <= Cardinality(u.registered)
    BY <1>1, <1>5, <1>7, Balancing DEF Balanced, SameManager
  <2> QED
    BY <1>2, <1>7, <1>8, <2>1 DEF Balanced
<1>10. DownNeedsTwoCrashes'
  <2>1. ASSUME ~(Cardinality(gone) >= 2) PROVE ~u.down
    <3>1. PICK d : gone \subseteq {d}
      BY <1>1, <2>1, OneCrash
    <3>2. NonConnected(c, connected') \subseteq {d}
      BY <1>6, <3>1 DEF Sound, NonConnected
    <3>3. nextId \in connected'
      BY <1>2
    <3>4. Ready(c, connected')
      BY <1>1, <1>5, <3>2, <3>3 DEF Ready
    <3> QED
      BY <1>7, <3>4 DEF Follows, Ready
  <2>2. u.released => gone # {}
    BY <1>1, <1>5, <1>6, <1>7 DEF Follows, Accounts, SameManager, Sound, NonConnected
  <2> QED
    BY <1>2, <2>1, <2>2 DEF DownNeedsTwoCrashes
<1>11. MisdeliveryNeedsEarlierCrash'
  BY <1>2 DEF MisdeliveryNeedsEarlierCrash, Nothing
<1>12. StopsWithLastClient'
  BY <1>1, <1>2 DEF StopsWithLastClient, Serving
<1>13. Counted' /\ serving' \in BOOLEAN
  BY <1>1, <1>2, <1>3 DEF Counted
<1>14. Stays
  <2>1. connected' \subseteq ToSet(c.vec)
    BY <1>6 DEF Sound
  <2> QED
    BY <1>2, <1>5, <1>7, <2>1, Balancing DEF Stays, AllCounted, SameManager
<1> QED
  BY <1>9, <1>10, <1>11, <1>12, <1>13, <1>14 DEF IInv

\* A message to be relayed.
LEMMA PushEnds ==
  ASSUME IInv, NEW src, Push(src)
  PROVE  TurnEnds(src) /\ Stays
<1> DEFINE a == ActivateController(composite, src)
<1>1. /\ Serving /\ src \in connected /\ gone \subseteq Client
      /\ nextId \in Nat /\ NotifyOtherClients(src, a) /\ connected' = connected
  BY Bounded DEF Push, IInv, Counted
<1>2. /\ Sound(a, connected, gone, nextId) /\ Serves(a, src) /\ ~a.down
      /\ a.masters = composite.masters /\ a.vec = composite.vec
      /\ SameManager(composite, a) /\ ~a.released /\ Balanced(a)
      /\ Follows(a, connected, a)
  BY <1>1, Begins
<1> HIDE DEF a
<1>3. Headed(composite) => Headed(a)
  BY <1>1, <1>2 DEF Headed, Serving, SameManager
<1>4. Tidy(a)
  BY <1>2 DEF Balanced
<1>5. /\ TurnEnds(src) /\ (Headed(a) => Headed(composite'))
      /\ a.ref = Cardinality(a.registered) /\ composite'.ref = 0 =>
           a.registered \cap connected = {}
  BY <1>1, <1>2, <1>4, Notifying
<1> QED
  BY <1>1, <1>2, <1>3, <1>5 DEF Stays, AllCounted, SameManager

\* The registration of the manager.
LEMMA RegisterEnds ==
  ASSUME IInv, NEW src, Register(src)
  PROVE  TurnEnds(src) /\ Stays
<1> DEFINE a == ActivateController(composite, src)
           more == a.registered \cup {src}
           count == IF a.ref = 0 THEN 0 ELSE a.ref + 1
           u == [a EXCEPT !.registered = more, !.ref = count]
<1>1. /\ Serving /\ src \in connected /\ src \notin composite.registered
      /\ composite' = u /\ last' = Nothing /\ connected' = connected
  BY DEF Register
<1>2. /\ Sound(a, connected, gone, nextId) /\ Serves(a, src) /\ ~a.down
      /\ a.masters = composite.masters /\ a.vec = composite.vec
      /\ SameManager(composite, a) /\ ~a.released /\ Balanced(a) /\ Fine(a)
  BY <1>1, Begins
<1>3. /\ src \in ToSet(a.vec) /\ src \in Client
  BY <1>1, <1>2, Cells DEF Sound
<1>4. /\ more \subseteq Client /\ count \in Nat
      /\ Cardinality(more) = Cardinality(a.registered) + 1
      /\ Cardinality(a.registered) \in Nat
  <2>1. src \notin a.registered /\ a.registered \subseteq Client /\ a.ref \in Nat
    BY <1>1, <1>2 DEF SameManager, Fine
  <2> QED
    BY <1>3, <2>1, FS_AddElement, Counting
<1>5. a.ref \in Nat /\ a.ref <= Cardinality(a.registered)
  BY <1>2 DEF Fine, Balanced
<1>6. /\ count <= Cardinality(more) /\ (a.ref > 0 => count > 0)
      /\ a.ref = 0 => count = 0
  BY <1>4, <1>5
<1>7. more \subseteq ToSet(a.vec) \/ a.vec = <<>>
  BY <1>2, <1>3 DEF Balanced, Tidy
<1> HIDE DEF a, more, count
<1>8. /\ u.vec = a.vec /\ u.ghost = a.ghost /\ u.slot = a.slot /\ u.comm = a.comm
      /\ u.masters = a.masters /\ u.down = a.down /\ u.released = a.released
      /\ u.registered = more /\ u.ref = count
  BY <1>2 DEF Fine
<1>9. Fine(u)
  <2>1. u \in [vec : Seq(Client), ghost : Seq(Client), slot : 0 .. MaxClients,
               comm : 0 .. MaxClients, masters : SUBSET Client, down : BOOLEAN,
               ref : Nat, registered : SUBSET Client, released : BOOLEAN]
    BY <1>2, <1>4 DEF Fine
  <2> HIDE DEF u
  <2> QED
    BY <1>2, <1>8, <2>1 DEF Fine
<1> HIDE DEF u
<1>10. Sound(u, connected, gone, nextId)
  BY <1>2, <1>8, <1>9 DEF Sound, CommTrue, ActiveController
<1>11. Balanced(u)
  BY <1>6, <1>7, <1>8 DEF Balanced, Tidy
<1>12. TurnEnds(src)
  BY <1>1, <1>2, <1>8, <1>10, <1>11 DEF TurnEnds, Nothing
<1>13. Stays
  <2>1. composite.ref > 0 => composite'.ref > 0
    BY <1>1, <1>2, <1>6, <1>8 DEF SameManager
  <2>2. Headed(composite) => Headed(composite')
    <3>1. /\ composite'.masters = composite.masters /\ composite'.down = a.down
          /\ composite'.vec = composite.vec /\ composite'.ref = count
      BY <1>1, <1>2, <1>8
    <3>2. ~composite.down /\ a.ref = composite.ref
      BY <1>1, <1>2 DEF Serving, SameManager
    <3> QED
      BY <1>2, <1>6, <3>1, <3>2 DEF Headed
  <2>3. composite.ref > 0 => composite'.ref # 0
    BY <1>1, <1>4, <1>8, <2>1
  <2> QED
    BY <2>2, <2>3 DEF Stays
<1> QED
  BY <1>12, <1>13

\* A message that may name a master, and may create the manager.
LEMMA PushCollaborationEnds ==
  ASSUME IInv, NEW src, NEW m, NEW other \in BOOLEAN,
         PushCollaboration(src, m, other)
  PROVE  TurnEnds(src) /\ Stays
<1> DEFINE c0 == ActivateController(composite, src)
           count == IF c0.ref = 0 THEN 1 ELSE c0.ref
           c1 == [c0 EXCEPT !.ref = IF @ = 0 THEN 1 ELSE @]
           c2 == IF m = NULL THEN c1 ELSE GetMasterController(c1)
           c3 == IF m = NULL THEN c1 ELSE SetMasterController(c2, m)
           changes == other \/ (m # NULL /\ c2.masters # {m})
           c4 == IF changes THEN Announce(c3, connected) ELSE c3
<1>1. /\ Serving /\ src \in connected /\ gone \subseteq Client
      /\ nextId \in Nat /\ NotifyOtherClients(src, c4)
      /\ connected' = connected /\ src \in composite.registered
  BY Bounded DEF PushCollaboration, IInv, Counted
<1>2. /\ Sound(c0, connected, gone, nextId) /\ Serves(c0, src) /\ ~c0.down
      /\ c0.masters = composite.masters /\ c0.vec = composite.vec
      /\ SameManager(composite, c0) /\ ~c0.released /\ Balanced(c0)
      /\ Fine(c0)
  BY <1>1, Begins
<1> HIDE DEF c0
<1>3. /\ c1.vec = c0.vec /\ c1.ghost = c0.ghost /\ c1.slot = c0.slot
      /\ c1.comm = c0.comm /\ c1.masters = c0.masters /\ c1.down = c0.down
      /\ c1.released = c0.released /\ c1.registered = c0.registered
      /\ c1.ref = count
  BY <1>2 DEF Fine
<1>4. count \in Nat /\ count # 0 /\ (c0.ref > 0 => count = c0.ref)
  BY <1>2 DEF Fine
<1>5. count <= Cardinality(c0.registered)
  <2>1. /\ Cardinality(c0.registered) \in Nat /\ Cardinality(c0.registered) # 0
        /\ c0.ref \in Nat /\ c0.ref <= Cardinality(c0.registered)
    BY <1>1, <1>2, Counting DEF SameManager, Fine, Balanced
  <2> QED
    BY <2>1
<1>6. Fine(c1)
  <2>1. c1 \in [vec : Seq(Client), ghost : Seq(Client), slot : 0 .. MaxClients,
               comm : 0 .. MaxClients, masters : SUBSET Client, down : BOOLEAN,
               ref : Nat, registered : SUBSET Client, released : BOOLEAN]
    BY <1>2, <1>4 DEF Fine
  <2> HIDE DEF c1
  <2> QED
    BY <1>2, <1>3, <2>1 DEF Fine
<1> HIDE DEF c1, count
<1>7. /\ Sound(c1, connected, gone, nextId) /\ Serves(c1, src) /\ ~c1.down
      /\ ~c1.released /\ Balanced(c1) /\ Tidy(c1)
  BY <1>2, <1>3, <1>5, <1>6 DEF Sound, CommTrue, ActiveController, Serves, Balanced, Tidy
<1>8. /\ Follows(c1, connected, c2) /\ Fine(c2) /\ c2.vec = c1.vec
      /\ SameManager(c1, c2)
  BY <1>6, FollowsItself, GettingMaster DEF Follows, SameManager
<1>9. changes \in BOOLEAN
  OBVIOUS
<1> HIDE DEF c2
<1>10. /\ Follows(c1, connected, c3) /\ Fine(c3) /\ (Headed(c1) => Headed(c3))
       /\ c3.vec = c1.vec /\ SameManager(c1, c3)
  <2>1. CASE m = NULL
    BY <1>6, <2>1, FollowsItself DEF SameManager
  <2>2. CASE m # NULL
    <3> DEFINE s == SetMasterController(c2, m)
    <3>1. Follows(c2, connected, s) /\ Headed(s) /\ s.vec = c2.vec /\ SameManager(c2, s)
      BY <1>8, SettingMaster
    <3>2. c3 = s
      BY <2>2
    <3> HIDE DEF s, c3
    <3>3. Follows(c1, connected, s)
      BY <1>6, <1>8, <3>1, FollowsOn
    <3> QED
      BY <1>8, <3>1, <3>2, <3>3 DEF Follows, SameManager
  <2> QED
    BY <2>1, <2>2
<1> HIDE DEF c3, changes
<1>11. Tidy(c3) /\ c3.ref # 0
  BY <1>3, <1>4, <1>7, <1>10 DEF Tidy, SameManager
<1>12. /\ Follows(c3, connected, c4) /\ (Headed(c3) => Headed(c4)) /\ Tidy(c4)
  <2> DEFINE n == Announce(c3, connected)
  <2>1. Follows(c3, connected, n) /\ Headed(n) /\ Tidy(n)
    BY <1>10, <1>11, Announcing
  <2> HIDE DEF n
  <2>2. CASE changes
    BY <2>1, <2>2 DEF n
  <2>3. CASE ~changes
    BY <1>10, <1>11, <2>3, FollowsItself
  <2> QED
    BY <1>9, <2>2, <2>3
<1> HIDE DEF c4
<1>13. Follows(c1, connected, c4)
  BY <1>6, <1>10, <1>12, FollowsOn
<1>14. /\ TurnEnds(src) /\ (Headed(c4) => Headed(composite'))
       /\ c1.ref = Cardinality(c1.registered) /\ composite'.ref = 0 =>
            c1.registered \cap connected = {}
  BY <1>1, <1>7, <1>12, <1>13, Notifying
<1>15. Stays
  <2> SUFFICES ASSUME composite.ref > 0
               PROVE  /\ Headed(composite) => Headed(composite')
                      /\ AllCounted /\ composite'.ref = 0 =>
                           composite.registered \cap connected' = {}
    BY DEF Stays
  <2>1. SameManager(composite, c1)
    BY <1>2, <1>3, <1>4 DEF SameManager
  <2>2. Headed(composite) => Headed(c1)
    BY <1>1, <1>2, <1>3, <2>1 DEF Headed, Serving, SameManager
  <2> QED
    BY <1>1, <1>10, <1>12, <1>14, <2>1, <2>2 DEF AllCounted, SameManager
<1> QED
  BY <1>14, <1>15

\* A request.
LEMMA RequestEnds ==
  ASSUME IInv, NEW src, Request(src)
  PROVE  TurnEnds(src) /\ Stays
<1> DEFINE a == ActivateController(composite, src)
<1>1. /\ Serving /\ src \in connected /\ gone \subseteq Client /\ nextId \in Nat
      /\ composite' = a /\ Reply(src, composite') /\ connected' = connected
  BY Bounded DEF Request, IInv, Counted
<1>2. /\ Sound(a, connected, gone, nextId) /\ Serves(a, src) /\ ~a.down
      /\ a.comm = src \/ \E d \in gone : d < src
      /\ Follows(a, connected, a) /\ ~a.released /\ Balanced(a) /\ Fine(a)
      /\ a.masters = composite.masters /\ a.vec = composite.vec
      /\ SameManager(composite, a)
  BY <1>1, Begins
<1> HIDE DEF a
<1>3. TurnEnds(src)
  BY <1>1, <1>2, Replying
<1>4. Stays
  <2>1. composite.ref > 0 => composite.ref # 0
    BY <1>1, Bounded DEF Fine
  <2> QED
    BY <1>1, <1>2, <2>1 DEF Stays, Headed, SameManager, Serving
<1> QED
  BY <1>3, <1>4

\* Reading the master elects one if there is none.
LEMMA Reading ==
  ASSUME NEW c, Fine(c)
  PROVE  LET r == ReadMaster(c)
         IN  /\ Follows(c, connected, r) /\ Headed(r)
             /\ Tidy(c) => Tidy(r)
<1> DEFINE g == GetMasterController(c)
           u == Changed(g, connected)
<1>1. CASE c.masters # {}
  BY <1>1, FollowsItself DEF ReadMaster, Headed
<1>2. CASE c.masters = {}
  <2>1. Follows(c, connected, g) /\ Fine(g)
    BY GettingMaster DEF Follows
  <2> HIDE DEF g
  <2>2. Follows(g, connected, u) /\ Tidy(u) /\ Headed(u)
    BY <2>1, Changing
  <2> HIDE DEF u
  <2>3. Follows(c, connected, u)
    BY <2>1, <2>2, FollowsOn
  <2>4. ReadMaster(c) = u
    BY <1>2 DEF ReadMaster, u, g
  <2> QED
    BY <2>2, <2>3, <2>4
<1> QED
  BY <1>1, <1>2

\* A request for the clients and their master.
LEMMA GatherClientsEnds ==
  ASSUME IInv, NEW src, GatherClients(src)
  PROVE  TurnEnds(src) /\ Stays
<1> DEFINE a == ActivateController(composite, src)
           r == ReadMaster(a)
<1>1. /\ Serving /\ src \in connected /\ gone \subseteq Client /\ nextId \in Nat
      /\ composite' = r /\ Reply(src, composite') /\ connected' = connected
  BY Bounded DEF GatherClients, IInv, Counted
<1>2. /\ Sound(a, connected, gone, nextId) /\ Serves(a, src) /\ ~a.down
      /\ a.comm = src \/ \E d \in gone : d < src
      /\ ~a.released /\ Balanced(a) /\ Fine(a) /\ SameManager(composite, a)
  BY <1>1, Begins
<1> HIDE DEF a
<1>3. Follows(a, connected, r) /\ Headed(r) /\ Tidy(r) /\ Fine(r)
  BY <1>2, Reading DEF Balanced, Follows
<1> HIDE DEF r
<1>4. /\ r.ref <= Cardinality(r.registered)
      /\ a.ref = Cardinality(a.registered) /\ r.ref = 0 =>
           a.registered \cap connected = {}
  BY <1>2, <1>3, Balancing DEF Balanced, Sound
<1>5. TurnEnds(src)
  BY <1>1, <1>2, <1>3, <1>4, Replying DEF Balanced
<1>6. Stays
  BY <1>1, <1>2, <1>3, <1>4 DEF Stays, AllCounted, SameManager
<1> QED
  BY <1>5, <1>6

\* A request for the state of the manager, referenced meanwhile.
LEMMA PullCollaborationEnds ==
  ASSUME IInv, NEW src, PullCollaboration(src)
  PROVE  TurnEnds(src) /\ Stays
<1> DEFINE a == ActivateController(composite, src)
           more == a.ref + 1
           c == [a EXCEPT !.ref = @ + 1]
           r == ReadMaster(c)
           less == r.ref - 1
<1>1. /\ Serving /\ src \in connected /\ gone \subseteq Client /\ nextId \in Nat
      /\ composite' = IF a.ref = 0 THEN a
                      ELSE IF r.ref = 0 THEN [r EXCEPT !.released = TRUE]
                      ELSE [r EXCEPT !.ref = @ - 1]
      /\ Reply(src, composite') /\ connected' = connected
  BY Bounded DEF PullCollaboration, IInv, Counted
<1>2. /\ Sound(a, connected, gone, nextId) /\ Serves(a, src) /\ ~a.down
      /\ a.comm = src \/ \E d \in gone : d < src
      /\ Follows(a, connected, a) /\ ~a.released /\ Balanced(a) /\ Fine(a)
      /\ a.masters = composite.masters /\ a.vec = composite.vec
      /\ SameManager(composite, a)
  BY <1>1, Begins
<1> HIDE DEF a
<1>3. CASE a.ref = 0
  <2>1. TurnEnds(src)
    BY <1>1, <1>2, <1>3, Replying
  <2>2. Stays
    BY <1>2, <1>3 DEF Stays, SameManager
  <2> QED
    BY <2>1, <2>2
<1>4. CASE a.ref # 0
  <2>1. /\ c.vec = a.vec /\ c.ghost = a.ghost /\ c.slot = a.slot /\ c.comm = a.comm
        /\ c.masters = a.masters /\ c.down = a.down /\ c.released = a.released
        /\ c.registered = a.registered /\ c.ref = more
    BY <1>2 DEF Fine
  <2>2. a.ref \in Nat /\ more \in Nat
    BY <1>2 DEF Fine
  <2>3. Fine(c)
    <3>1. c \in [vec : Seq(Client), ghost : Seq(Client), slot : 0 .. MaxClients,
                 comm : 0 .. MaxClients, masters : SUBSET Client, down : BOOLEAN,
                 ref : Nat, registered : SUBSET Client, released : BOOLEAN]
      BY <1>2, <2>2 DEF Fine
    <3> HIDE DEF c, more
    <3> QED
      BY <1>2, <2>1, <3>1 DEF Fine
  <2> HIDE DEF c
  <2>4. /\ Sound(c, connected, gone, nextId) /\ Serves(c, src) /\ ~c.down
        /\ ~c.released /\ Tidy(c) /\ (c.comm = src \/ \E d \in gone : d < src)
    BY <1>2, <2>1, <2>3
       DEF Sound, CommTrue, ActiveController, Serves, Balanced, Tidy
  <2>5. Follows(c, connected, r) /\ Headed(r) /\ Tidy(r) /\ Fine(r)
    BY <2>3, <2>4, Reading DEF Follows
  <2> HIDE DEF r
  <2>6. r.ref \in Nat /\ r.released \in BOOLEAN
    BY <2>5 DEF Fine
  <2>7. /\ Cardinality(r.registered) \in Nat /\ Cardinality(a.registered) \in Nat
        /\ r.ref <= Cardinality(r.registered) + 1
        /\ a.ref = Cardinality(a.registered) => r.ref = Cardinality(r.registered) + 1
    <3>1. Cardinality(r.registered) \in Nat /\ Cardinality(a.registered) \in Nat
      BY <1>2, <2>5, Counting DEF Fine
    <3>2. /\ c.ref <= Cardinality(c.registered) + 1 =>
               r.ref <= Cardinality(r.registered) + 1
          /\ c.ref = Cardinality(c.registered) + 1 =>
               r.ref = Cardinality(r.registered) + 1
      BY <2>5 DEF Follows, Accounts
    <3>3. a.ref <= Cardinality(a.registered)
      BY <1>2 DEF Balanced
    <3> QED
      BY <2>1, <2>2, <3>1, <3>2, <3>3
  <2>8. r.ref = 0 => gone # {}
    <3>1. NonConnected(c, connected) = {} => r.ref = c.ref
      BY <2>4, <2>5 DEF Follows, Accounts
    <3>2. NonConnected(c, connected) \subseteq gone
      BY <2>4 DEF Sound, NonConnected
    <3> QED
      BY <2>1, <2>2, <3>1, <3>2
  <2>9. /\ composite'.vec = r.vec /\ composite'.ghost = r.ghost
        /\ composite'.slot = r.slot /\ composite'.comm = r.comm
        /\ composite'.masters = r.masters /\ composite'.down = r.down
        /\ composite'.registered = r.registered
        /\ composite'.released = (r.released \/ r.ref = 0)
        /\ composite'.ref = IF r.ref = 0 THEN 0 ELSE less
    <3>1. CASE r.ref = 0
      <4>1. composite' = [r EXCEPT !.released = TRUE]
        BY <1>1, <1>4, <3>1
      <4> QED
        BY <2>5, <3>1, <4>1 DEF Fine
    <3>2. CASE r.ref # 0
      <4>1. composite' = [r EXCEPT !.ref = @ - 1]
        BY <1>1, <1>4, <3>2
      <4> QED
        BY <2>5, <2>6, <3>2, <4>1 DEF Fine
    <3> QED
      BY <3>1, <3>2
  <2>10. Fine(composite')
    <3>1. less \in Nat \/ r.ref = 0
      BY <2>6
    <3>2. composite' \in [vec : Seq(Client), ghost : Seq(Client), slot : 0 .. MaxClients,
                 comm : 0 .. MaxClients, masters : SUBSET Client, down : BOOLEAN,
                 ref : Nat, registered : SUBSET Client, released : BOOLEAN]
      BY <1>1, <1>4, <2>5, <3>1 DEF Fine
    <3> QED
      BY <2>5, <2>9, <3>2 DEF Fine
  <2>11. Balanced(composite')
    <3>1. composite'.ref <= Cardinality(r.registered)
      BY <2>6, <2>7, <2>9
    <3> QED
      BY <2>5, <2>9, <3>1 DEF Balanced, Tidy
  <2>12. TurnEnds(src)
    BY <1>1, <2>4, <2>5, <2>8, <2>9, <2>10, <2>11, Replying
  <2>13. Headed(composite')
    BY <2>5, <2>9 DEF Headed
  <2>14. ASSUME AllCounted, composite'.ref = 0
         PROVE  composite.registered \cap connected = {}
    <3>1. Cardinality(r.registered) = 0
      BY <1>2, <2>6, <2>7, <2>9, <2>14 DEF AllCounted, SameManager
    <3>2. r.registered = {}
      BY <2>5, <3>1, Counting DEF Fine
    <3>3. c.registered \cap connected \cap ToSet(c.vec) = {}
      BY <2>5, <3>2 DEF Follows, Accounts
    <3> QED
      BY <1>2, <2>1, <2>4, <3>3 DEF SameManager, Sound
  <2> QED
    BY <1>1, <2>12, <2>13, <2>14 DEF Stays
<1> QED
  BY <1>3, <1>4

\* A client that closes its session.
LEMMA CloseSessionKeeps ==
  ASSUME IInv, NEW src, CloseSession(src)
  PROVE  IInv' /\ Stays
<1> DEFINE c == UnRegisterController(ActivateController(composite, src), src)
           u == Changed(c, connected')
<1>1. /\ Sound(composite, connected, gone, nextId) /\ Fine(composite)
      /\ Len(composite.vec) <= MaxClients /\ nextId \in Nat
      /\ ~composite.down /\ ~composite.released /\ Balanced(composite)
      /\ gone \subseteq Client /\ src \in connected /\ src \in ToSet(composite.vec)
  BY Bounded DEF IInv, CloseSession, Counted, Serving, Sound
<1>2. /\ connected' = connected \ {src} /\ composite' = u
      /\ serving' = (composite'.vec # <<>>) /\ last' = Nothing
      /\ gone' = gone /\ nextId' = nextId
  BY DEF CloseSession
<1>3. /\ Fine(c) /\ c.slot = NULL /\ c.down = composite.down
      /\ ToSet(c.vec) = ToSet(composite.vec) \ {src}
      /\ Len(c.vec) <= Len(composite.vec) /\ SameManager(composite, c)
      /\ CommTrue(c, gone)
  BY <1>1, Closing
<1> HIDE DEF c
<1>4. Sound(c, connected', gone, nextId)
  <2>1. Len(c.vec) < nextId
    <3>1. /\ Len(composite.vec) < nextId /\ Len(composite.vec) \in Nat
          /\ Len(c.vec) \in Nat
      BY <1>1, <1>3, Cells DEF Sound
    <3> QED
      BY <1>1, <1>3, <3>1
  <2>2. connected' \subseteq ToSet(c.vec) /\ ToSet(c.vec) \subseteq connected' \cup gone
    BY <1>1, <1>2, <1>3 DEF Sound
  <2> QED
    BY <1>1, <1>3, <2>1, <2>2 DEF Sound
<1>5. /\ Follows(c, connected', u) /\ Tidy(u) /\ Headed(u)
      /\ u.ref # 0 => ToSet(u.vec) \subseteq connected'
  BY <1>1, <1>3, Changing
<1> HIDE DEF u
<1>6. Sound(u, connected', gone, nextId)
  BY <1>1, <1>4, <1>5, SoundOn
<1>7. Sound(composite, connected, gone, nextId)' /\ Balanced(composite)'
  <2>1. u.ref <= Cardinality(u.registered)
    BY <1>1, <1>3, <1>5, Balancing DEF Balanced, SameManager
  <2> QED
    BY <1>2, <1>5, <1>6, <2>1 DEF Balanced
<1>8. DownNeedsTwoCrashes'
  <2>1. ASSUME ~(Cardinality(gone) >= 2) PROVE ~u.down
    <3>1. PICK d : gone \subseteq {d}
      BY <1>1, <2>1, OneCrash
    <3>2. NonConnected(c, connected') \subseteq {d}
      BY <1>4, <3>1 DEF Sound, NonConnected
    <3>3. Ready(c, connected')
      BY <1>1, <1>3, <3>2 DEF Ready
    <3> QED
      BY <1>5, <3>3 DEF Ready, Follows
  <2>2. u.released => gone # {}
    BY <1>1, <1>3, <1>4, <1>5 DEF Follows, Accounts, SameManager, Sound, NonConnected
  <2> QED
    BY <1>2, <2>1, <2>2 DEF DownNeedsTwoCrashes
<1>9. MisdeliveryNeedsEarlierCrash'
  BY <1>2 DEF MisdeliveryNeedsEarlierCrash, Nothing
<1>10. StopsWithLastClient'
  <2>1. u.vec = <<>> <=> ToSet(u.vec) = {}
    <3>1. /\ u.vec \in Seq(Client) /\ DOMAIN u.vec = 1 .. Len(u.vec)
          /\ Len(u.vec) \in Nat
      BY <1>6, Cells DEF Sound, Fine
    <3>2. u.vec = <<>> <=> Len(u.vec) = 0
      BY <3>1, EmptySeq
    <3>3. Len(u.vec) = 0 <=> ToSet(u.vec) = {}
      <4>1. Len(u.vec) = 0 => DOMAIN u.vec = {}
        BY <3>1
      <4>2. Len(u.vec) # 0 => 1 \in DOMAIN u.vec
        BY <3>1
      <4>3. ToSet(u.vec) = {} <=> DOMAIN u.vec = {}
        BY DEF ToSet
      <4> QED
        BY <4>1, <4>2, <4>3
    <3> QED
      BY <3>2, <3>3
  <2>2. connected' \subseteq ToSet(u.vec) /\ ToSet(u.vec) \subseteq connected' \cup gone
    BY <1>6 DEF Sound
  <2> QED
    BY <1>2, <1>5, <2>1, <2>2 DEF StopsWithLastClient, Serving
<1>11. Counted' /\ serving' \in BOOLEAN
  BY <1>2 DEF Counted, IInv
<1>12. Stays
  <2>1. connected' \subseteq ToSet(c.vec)
    BY <1>4 DEF Sound
  <2> QED
    BY <1>2, <1>3, <1>5, <2>1, Balancing DEF Stays, AllCounted, SameManager
<1> QED
  BY <1>7, <1>8, <1>9, <1>10, <1>11, <1>12 DEF IInv

\* A crash: nothing the server knows of changes.
LEMMA ClientCrashKeeps ==
  ASSUME IInv, NEW src, src \in Client, ClientCrash(src)
  PROVE  IInv' /\ Stays
<1>1. /\ gone' = gone \cup {src} /\ last' = Nothing /\ src \in connected
      /\ UNCHANGED <<composite, connected, nextId, serving>>
  BY DEF ClientCrash
<1>2. CommTrue(composite, gone) => CommTrue(composite, gone')
  BY <1>1 DEF CommTrue
<1>3. Sound(composite, connected, gone, nextId)' /\ Balanced(composite)'
  BY <1>1, <1>2 DEF IInv, Sound
<1>4. Counted' /\ serving' \in BOOLEAN
  BY <1>1 DEF IInv, Counted
<1>5. DownNeedsTwoCrashes'
  <2>1. gone' \subseteq Client /\ gone \subseteq gone'
    BY <1>1 DEF IInv, Counted
  <2> QED
    BY <1>1, <2>1, MoreCrashes DEF IInv, DownNeedsTwoCrashes
<1>6. MisdeliveryNeedsEarlierCrash'
  BY <1>1 DEF MisdeliveryNeedsEarlierCrash, Nothing
<1>7. StopsWithLastClient'
  BY <1>1 DEF IInv, StopsWithLastClient, Serving
<1>8. Stays
  <2>1. composite.ref > 0 => composite.ref # 0
    BY Bounded DEF Fine
  <2> QED
    BY <1>1, <2>1 DEF Stays
<1> QED
  BY <1>3, <1>4, <1>5, <1>6, <1>7, <1>8 DEF IInv

\* The socket of a crashed client is closed; its controller stays.
LEMMA ReadErrorKeeps ==
  ASSUME IInv, NEW src, ReadError(src)
  PROVE  IInv' /\ Stays
<1> DEFINE a == ActivateController(composite, src)
<1>1. /\ Serving /\ src \in connected /\ src \in gone
      /\ composite' = a /\ connected' = connected \ {src}
      /\ serving' = (connected # {src}) /\ last' = Nothing
      /\ gone' = gone /\ nextId' = nextId
  BY DEF ReadError
<1>2. /\ Sound(a, connected, gone, nextId) /\ ~a.down /\ ~a.released
      /\ a.masters = composite.masters /\ a.vec = composite.vec
      /\ SameManager(composite, a) /\ Balanced(a)
  BY <1>1, Begins
<1> HIDE DEF a
<1>3. Sound(a, connected', gone, nextId)
  BY <1>1, <1>2 DEF Sound
<1>4. Sound(composite, connected, gone, nextId)' /\ Balanced(composite)'
  BY <1>1, <1>2, <1>3
<1>5. Counted' /\ serving' \in BOOLEAN
  BY <1>1 DEF IInv, Counted
<1>6. DownNeedsTwoCrashes' /\ MisdeliveryNeedsEarlierCrash'
  BY <1>1, <1>2 DEF DownNeedsTwoCrashes, MisdeliveryNeedsEarlierCrash, Nothing
<1>7. StopsWithLastClient'
  BY <1>1 DEF StopsWithLastClient, Serving
<1>8. Stays
  <2>1. composite.ref > 0 => composite.ref # 0
    BY Bounded DEF Fine
  <2> QED
    BY <1>1, <1>2, <2>1 DEF Stays, Headed, SameManager, Serving
<1> QED
  BY <1>1, <1>2, <1>4, <1>5, <1>6, <1>7, <1>8 DEF IInv

-----------------------------------------------------------------------------
(* Theorems                                                                *)

\* Every operation of the event loop keeps the invariant: the controllers
\* stay registered in the order of their Ids, all connected clients among
\* them and otherwise only crashed ones, and the Communicator that replies go
\* to is that of the active controller unless an earlier client crashed.
THEOREM Inductive == Spec => []IInv
<1>1. IInv /\ [Next]_vars => IInv'
  <2> SUFFICES ASSUME IInv, [Next]_vars PROVE IInv'
    OBVIOUS
  <2> DEFINE Served(src) == /\ Serving /\ src \in connected
                          /\ UNCHANGED <<connected, gone, nextId, serving>>
  <2>1. CASE Connect
    BY <2>1, ConnectKeeps
  <2>2. ASSUME NEW src \in Client, Push(src) PROVE IInv'
    BY <2>2, PushEnds, TurnKeeps DEF Push
  <2>3. ASSUME NEW src \in Client, NEW m \in 0 .. nextId - 1, NEW other \in BOOLEAN,
               PushCollaboration(src, m, other)
        PROVE  IInv'
    <3>1. Served(src)
      BY <2>3 DEF PushCollaboration
    <3> QED
      BY <2>3, <3>1, PushCollaborationEnds, TurnKeeps
  <2>4. ASSUME NEW src \in Client, Request(src) PROVE IInv'
    BY <2>4, RequestEnds, TurnKeeps DEF Request
  <2>5. ASSUME NEW src \in Client, Register(src) PROVE IInv'
    <3>1. Served(src)
      BY <2>5 DEF Register
    <3> QED
      BY <2>5, <3>1, RegisterEnds, TurnKeeps
  <2>6. ASSUME NEW src \in Client, GatherClients(src) PROVE IInv'
    BY <2>6, GatherClientsEnds, TurnKeeps DEF GatherClients
  <2>7. ASSUME NEW src \in Client, PullCollaboration(src) PROVE IInv'
    <3>1. Served(src)
      BY <2>7 DEF PullCollaboration
    <3> QED
      BY <2>7, <3>1, PullCollaborationEnds, TurnKeeps
  <2>8. ASSUME NEW src \in Client, CloseSession(src) PROVE IInv'
    BY <2>8, CloseSessionKeeps
  <2>9. ASSUME NEW src \in Client, ClientCrash(src) PROVE IInv'
    BY <2>9, ClientCrashKeeps
  <2>10. ASSUME NEW src \in Client, ReadError(src) PROVE IInv'
    BY <2>10, ReadErrorKeeps
  <2>11. CASE UNCHANGED vars
    BY <2>11 DEF vars, IInv, Counted, MisdeliveryNeedsEarlierCrash,
                 DownNeedsTwoCrashes, StopsWithLastClient, Serving
  <2> QED
    BY <2>1, <2>2, <2>3, <2>4, <2>5, <2>6, <2>7, <2>8, <2>9, <2>10, <2>11 DEF Next
<1> QED
  BY <1>1, InitIInv, PTL DEF Spec

\* Controllers, slots and Ids stay what they are: no controller is erased
\* while its socket is connected, and the slot stays within what was there.
THEOREM TypeCorrect == Spec => []TypeOK
<1>1. IInv => TypeOK
  <2> SUFFICES ASSUME IInv PROVE TypeOK
    OBVIOUS
  <2>1. composite.ref \in 0 .. MaxClients
    <3>1. /\ composite.ref \in Nat /\ composite.registered \subseteq Client
          /\ composite.ref <= Cardinality(composite.registered)
      BY DEF IInv, Sound, Fine, Balanced
    <3>2. /\ Cardinality(composite.registered) \in Nat
          /\ Cardinality(composite.registered) <= MaxClients
      BY <3>1, Counting
    <3> QED
      BY <3>1, <3>2, MaxClientsAssumption
  <2> QED
    BY <2>1 DEF IInv, Sound, Fine, Counted, TypeOK
<1> QED
  BY <1>1, Inductive, PTL

\* For any number of clients and crashes, a notification reaches exactly the
\* other clients and a reply exactly the one that asked, unless a client that
\* crashed preceded the author in the vector, or the collaboration manager was
\* used after its release.
THEOREM Delivery == Spec => []MisdeliveryNeedsEarlierCrash
<1>1. IInv => MisdeliveryNeedsEarlierCrash
  BY DEF IInv
<1> QED
  BY <1>1, Inductive, PTL

\* For any number of clients, no single crash makes an election endless or
\* the active slot null while a message is relayed, and without a crash the
\* collaboration manager is not released in its own broadcast.
THEOREM OneCrashIsSurvived == Spec => []DownNeedsTwoCrashes
<1>1. IInv => DownNeedsTwoCrashes
  BY DEF IInv
<1> QED
  BY <1>1, Inductive, PTL

\* The event loop is left only when the last client goes, and always then,
\* unless one crashed and the collaboration manager, which would have cleaned
\* up its controller, was collected before.
THEOREM LoopEndsWithLastClient == Spec => []StopsWithLastClient
<1>1. IInv => StopsWithLastClient
  BY DEF IInv
<1> QED
  BY <1>1, Inductive, PTL

\* Once elected, there is always one master, and a registered one, while
\* anybody is registered and the collaboration manager lives; and that is for
\* as long as one of the clients that registered it stays, if each of their
\* registrations was counted.
THEOREM MasterStays == Spec => MasterNeverLost
<1> DEFINE Kept == (composite.ref > 0 /\ composite.masters # {}) =>
                     \/ composite'.vec = <<>>
                     \/ composite'.down \/ composite'.released
                     \/ /\ Cardinality(composite'.masters) = 1
                        /\ composite'.masters \subseteq ToSet(composite'.vec)
                     \/ /\ composite'.ref = 0
                        /\ AllCounted => composite.registered \cap connected' = {}
<1>1. ASSUME Fine(composite)', Stays PROVE Kept
  <2> SUFFICES ASSUME composite.ref > 0, composite.masters # {}
               PROVE  \/ composite'.vec = <<>> \/ composite'.down
                      \/ /\ Cardinality(composite'.masters) = 1
                         /\ composite'.masters \subseteq ToSet(composite'.vec)
                      \/ /\ composite'.ref = 0
                         /\ AllCounted => composite.registered \cap connected' = {}
    OBVIOUS
  <2>1. Headed(composite')
    BY <1>1 DEF Stays, Headed
  <2>2. PICK m \in Client : composite'.masters \subseteq {m}
    BY <1>1 DEF Fine
  <2>3. composite'.masters # {} => Cardinality(composite'.masters) = 1
    <3>1. composite'.masters # {} => composite'.masters = {m}
      BY <2>2
    <3> QED
      BY <3>1, FS_Singleton
  <2>4. composite'.masters \subseteq ToSet(composite'.vec)
    BY <1>1 DEF Fine
  <2>5. composite'.ref = 0 => (AllCounted => composite.registered \cap connected' = {})
    BY <1>1 DEF Stays
  <2> QED
    BY <2>1, <2>3, <2>4, <2>5 DEF Headed
<1>2. IInv /\ IInv' /\ [Next]_vars => [Kept]_vars
  <2> SUFFICES ASSUME IInv, IInv', Next PROVE Stays
    BY <1>1 DEF IInv, Sound
  <2> QED
    BY ConnectKeeps, PushEnds, RegisterEnds, PushCollaborationEnds, RequestEnds,
       GatherClientsEnds, PullCollaborationEnds, CloseSessionKeeps, ClientCrashKeeps,
       ReadErrorKeeps DEF Next
<1> QED
  BY <1>2, Inductive, PTL DEF Spec, MasterNeverLost

=============================================================================
