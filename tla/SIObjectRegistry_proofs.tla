----------------------- MODULE SIObjectRegistry_proofs -----------------------
(***************************************************************************)
(* For every number of clients and ids and every queue bound: a live       *)
(* object has exactly the references of the clients that registered it,    *)
(* less those that registered before it was created; nothing leaks.        *)
(*                                                                         *)
(* Counting is easy once a definition is known to come from a client that  *)
(* has registered the id by the time the server reads it.  That is a       *)
(* property of the FIFO: QueueOK says that every definition (and every     *)
(* UNREGISTER) in a queue finds its client registered when its turn comes. *)
(***************************************************************************)
EXTENDS SIObjectRegistry, FiniteSetTheorems, TLAPS

-----------------------------------------------------------------------------
(* Queues                                                                  *)

\* Once the first n messages of q are handled, a client that had registered
\* own has registered g.
RegAfter(q, own, g, n) ==
  \/ \E j \in 1 .. n : /\ q[j] = Msg("register", g)
                       /\ \A k \in j + 1 .. n : q[k] # Msg("unregister", g)
  \/ g \in own /\ \A k \in 1 .. n : q[k] # Msg("unregister", g)

QueueOK(q, own) ==
  \A i \in 1 .. Len(q) :
    q[i].op \in {"define", "unregister"} => RegAfter(q, own, q[i].gid, i - 1)

\* What the client has registered after the server handled message m.
Handled(own, m) ==
  CASE m.op = "register" -> own \cup {m.gid}
    [] m.op = "unregister" -> own \ {m.gid}
    [] OTHER -> own

\* Sending a message that comes after the right ones keeps a queue in order.
LEMMA AppendOK ==
  ASSUME NEW q \in Seq(Message), NEW own, NEW m \in Message, QueueOK(q, own),
         m.op \in {"define", "unregister"} => RegAfter(q, own, m.gid, Len(q))
  PROVE  QueueOK(Append(q, m), own)
  <1> DEFINE p == Append(q, m)
  <1>1. /\ Len(p) = Len(q) + 1
        /\ \A i \in 1 .. Len(q) : p[i] = q[i]
        /\ p[Len(q) + 1] = m
    OBVIOUS
  <1>2. ASSUME NEW g, NEW n \in 0 .. Len(q), RegAfter(q, own, g, n)
        PROVE  RegAfter(p, own, g, n)
    BY <1>1, <1>2 DEF RegAfter
  <1> HIDE DEF p
  <1> SUFFICES QueueOK(p, own)
    BY DEF p
  <1>3. ASSUME NEW i \in 1 .. Len(p), p[i].op \in {"define", "unregister"}
        PROVE  RegAfter(p, own, p[i].gid, i - 1)
    <2>1. CASE i = Len(q) + 1
      BY <1>1, <1>2, <1>3, <2>1
    <2>2. CASE i \in 1 .. Len(q)
      <3>1. RegAfter(q, own, q[i].gid, i - 1)
        BY <1>1, <1>3, <2>2 DEF QueueOK
      <3> QED
        BY <1>1, <1>2, <2>2, <3>1
    <2> QED
      BY <1>1, <2>1, <2>2
  <1> QED
    BY <1>3 DEF QueueOK

\* After a REGISTER the id is registered, and only an UNREGISTER ends that.
LEMMA AppendReg ==
  ASSUME NEW q \in Seq(Message), NEW own, NEW g, NEW m \in Message,
         \/ m = Msg("register", g)
         \/ RegAfter(q, own, g, Len(q)) /\ m # Msg("unregister", g)
  PROVE  RegAfter(Append(q, m), own, g, Len(Append(q, m)))
  <1> DEFINE p == Append(q, m)
  <1>1. /\ Len(p) = Len(q) + 1
        /\ \A i \in 1 .. Len(q) : p[i] = q[i]
        /\ p[Len(q) + 1] = m
    OBVIOUS
  <1> HIDE DEF p
  <1> SUFFICES RegAfter(p, own, g, Len(q) + 1)
    BY <1>1 DEF p
  <1>2. CASE m = Msg("register", g)
    BY <1>1, <1>2 DEF RegAfter
  <1>3. CASE RegAfter(q, own, g, Len(q)) /\ m # Msg("unregister", g)
    BY <1>1, <1>3 DEF RegAfter
  <1> QED
    BY <1>2, <1>3

\* Handling the first message moves its effect from the queue to the server.
LEMMA TailReg ==
  ASSUME NEW q \in Seq(Message), q # <<>>, NEW own, NEW g,
         NEW n \in 1 .. Len(q), RegAfter(q, own, g, n)
  PROVE  RegAfter(Tail(q), Handled(own, Head(q)), g, n - 1)
  <1> DEFINE p == Tail(q)
             h == Handled(own, Head(q))
  <1>1. /\ Len(p) = Len(q) - 1
        /\ \A i \in 1 .. Len(q) - 1 : p[i] = q[i + 1]
        /\ q[1] = Head(q) /\ Head(q) \in Message
        /\ h = Handled(own, Head(q))
    OBVIOUS
  <1> HIDE DEF p, h
  <1> SUFFICES RegAfter(p, h, g, n - 1)
    BY DEF p, h
  <1>2. \A k \in 1 .. n - 1 : k \in 1 .. Len(q) - 1 /\ p[k] = q[k + 1]
    BY <1>1
  <1>3. CASE \E j \in 2 .. n : /\ q[j] = Msg("register", g)
                               /\ \A k \in j + 1 .. n : q[k] # Msg("unregister", g)
    <2>1. PICK j \in 2 .. n : /\ q[j] = Msg("register", g)
                              /\ \A k \in j + 1 .. n : q[k] # Msg("unregister", g)
      BY <1>3
    <2>2. p[j - 1] = Msg("register", g) /\ j - 1 \in 1 .. n - 1
      BY <1>2, <2>1
    <2>3. \A k \in (j - 1) + 1 .. n - 1 : p[k] # Msg("unregister", g)
      BY <1>2, <2>1
    <2> QED
      BY <2>2, <2>3 DEF RegAfter
  <1>4. ASSUME g \in h, \A k \in 1 .. n - 1 : p[k] # Msg("unregister", g)
        PROVE  RegAfter(p, h, g, n - 1)
    BY <1>4 DEF RegAfter
  <1>5. CASE \E j \in 1 .. n : /\ q[j] = Msg("register", g)
                               /\ \A k \in j + 1 .. n : q[k] # Msg("unregister", g)
    <2>1. PICK j \in 1 .. n : /\ q[j] = Msg("register", g)
                              /\ \A k \in j + 1 .. n : q[k] # Msg("unregister", g)
      BY <1>5
    <2>2. CASE j = 1
      <3>1. g \in h
        BY <1>1, <2>1, <2>2 DEF Handled, Msg
      <3>2. \A k \in 1 .. n - 1 : p[k] # Msg("unregister", g)
        BY <1>2, <2>1, <2>2
      <3> QED
        BY <1>4, <3>1, <3>2
    <2>3. CASE j \in 2 .. n
      BY <1>3, <2>1, <2>3
    <2> QED
      BY <2>2, <2>3
  <1>6. CASE g \in own /\ \A k \in 1 .. n : q[k] # Msg("unregister", g)
    <2>1. g \in h
      BY <1>1, <1>6 DEF Handled, Msg, Message
    <2>2. \A k \in 1 .. n - 1 : p[k] # Msg("unregister", g)
      BY <1>2, <1>6
    <2> QED
      BY <1>4, <2>1, <2>2
  <1> QED
    BY <1>5, <1>6 DEF RegAfter

\* A queue that is in order is so without its head.
LEMMA TailOK ==
  ASSUME NEW q \in Seq(Message), q # <<>>, NEW own, QueueOK(q, own)
  PROVE  QueueOK(Tail(q), Handled(own, Head(q)))
  <1> DEFINE p == Tail(q)
             h == Handled(own, Head(q))
  <1>1. /\ Len(p) = Len(q) - 1
        /\ \A i \in 1 .. Len(q) - 1 : p[i] = q[i + 1]
    OBVIOUS
  <1>2. ASSUME NEW i \in 1 .. Len(p), p[i].op \in {"define", "unregister"}
        PROVE  RegAfter(p, h, p[i].gid, i - 1)
    <2>1. i + 1 \in 1 .. Len(q) /\ p[i] = q[i + 1]
      BY <1>1
    <2>2. RegAfter(q, own, p[i].gid, i)
      BY <1>2, <2>1 DEF QueueOK
    <2> QED
      BY <2>1, <2>2, TailReg
  <1> QED
    BY <1>2 DEF QueueOK

\* Losing the end of a queue does not hurt what comes before it.
LEMMA PrefixOK ==
  ASSUME NEW q \in Seq(Message), NEW own, QueueOK(q, own), NEW n \in 0 .. Len(q)
  PROVE  QueueOK(SubSeq(q, 1, n), own)
  <1> DEFINE p == SubSeq(q, 1, n)
  <1>1. Len(p) = n /\ \A i \in 1 .. n : p[i] = q[i]
    OBVIOUS
  <1> HIDE DEF p
  <1>2. ASSUME NEW i \in 1 .. Len(p), p[i].op \in {"define", "unregister"}
        PROVE  RegAfter(p, own, p[i].gid, i - 1)
    <2>1. RegAfter(q, own, q[i].gid, i - 1)
      BY <1>1, <1>2 DEF QueueOK
    <2> QED
      BY <1>1, <2>1 DEF RegAfter
  <1> QED
    BY <1>2 DEF QueueOK, p

-----------------------------------------------------------------------------
(* The invariant                                                           *)

\* The queue of a client is in order: each definition and UNREGISTER finds the
\* id registered; what a connected client holds will be; nothing follows a
\* CLOSE_SESSION, and nothing is left to read once the socket is closed.
Ordered(q, own, has, st) ==
  /\ QueueOK(q, own)
  /\ st = "up" => \A g \in has : RegAfter(q, own, g, Len(q))
  /\ \A i \in 1 .. Len(q) : q[i].op = "close" => i = Len(q) /\ st # "up"
  /\ st \in {"absent", "lost", "gone"} => q = <<>>
  /\ st = "absent" => has = {}

InOrder(c) == Ordered(queue[c], registered[c], proxies[c], status[c])

QInv == \A c \in Client : InOrder(c)

\* Registrations are those of known clients.
RegistrationsKnown ==
  \A c \in Client : registered[c] # {} => c \in known

IInv ==
  /\ TypeOK
  /\ QInv
  /\ RegistrationsKnown
  /\ RefsAreRegistrations
  /\ NoOrphans

-----------------------------------------------------------------------------
(* What becomes of a queue that is in order                                *)

\* Sending: a definition or UNREGISTER of what the client holds; it may hold
\* less from then on, or what it registers with this message.
LEMMA SendOrdered ==
  ASSUME NEW q \in Seq(Message), NEW own, NEW has, Ordered(q, own, has, "up"),
         NEW m \in Message, m.op # "close", NEW has2,
         m.op \in {"define", "unregister"} => m.gid \in has,
         \A g \in has2 : \/ m = Msg("register", g)
                         \/ g \in has /\ m # Msg("unregister", g)
  PROVE  Ordered(Append(q, m), own, has2, "up")
  <1>1. QueueOK(Append(q, m), own)
    BY AppendOK DEF Ordered
  <1>2. \A g \in has2 : RegAfter(Append(q, m), own, g, Len(Append(q, m)))
    BY AppendReg DEF Ordered
  <1>3. \A i \in 1 .. Len(Append(q, m)) : Append(q, m)[i].op # "close"
    <2>1. \A i \in 1 .. Len(q) : q[i].op # "close"
      BY DEF Ordered
    <2> QED
      BY <2>1
  <1> QED
    BY <1>1, <1>2, <1>3 DEF Ordered

\* Reading, unless it is the CLOSE_SESSION.
LEMMA ReadOrdered ==
  ASSUME NEW q \in Seq(Message), q # <<>>, NEW own, NEW has, NEW st,
         Ordered(q, own, has, st)
  PROVE  Ordered(Tail(q), Handled(own, Head(q)), has, st)
  <1>1. QueueOK(Tail(q), Handled(own, Head(q)))
    BY TailOK DEF Ordered
  <1>2. Len(q) \in 1 .. Len(q) /\ Len(Tail(q)) = Len(q) - 1
    OBVIOUS
  <1>3. ASSUME st = "up", NEW g \in has
        PROVE  RegAfter(Tail(q), Handled(own, Head(q)), g, Len(Tail(q)))
    <2>1. RegAfter(q, own, g, Len(q))
      BY <1>3 DEF Ordered
    <2>2. RegAfter(Tail(q), Handled(own, Head(q)), g, Len(q) - 1)
      BY <1>2, <2>1, TailReg
    <2> QED
      BY <1>2, <2>2
  <1>4. ASSUME NEW i \in 1 .. Len(Tail(q)), Tail(q)[i].op = "close"
        PROVE  i = Len(Tail(q)) /\ st # "up"
    <2>1. i + 1 \in 1 .. Len(q) /\ q[i + 1].op = "close"
      BY <1>4
    <2>2. i + 1 = Len(q) /\ st # "up"
      BY <2>1 DEF Ordered
    <2>3. Len(q) \in Nat /\ i \in Int
      OBVIOUS
    <2>4. i = Len(q) - 1
      BY <2>2, <2>3
    <2>5. i = Len(Tail(q))
      BY <1>2, <2>4
    <2> QED
      BY <2>2, <2>5
  <1>5. st \notin {"absent", "lost", "gone"}
    BY DEF Ordered
  <1> QED
    BY <1>1, <1>3, <1>4, <1>5 DEF Ordered

\* A client with nothing to read, and no socket.
LEMMA IdleOrdered ==
  ASSUME NEW own, NEW has, NEW st, st \in {"absent", "lost", "gone"},
         st = "absent" => has = {}
  PROVE  Ordered(<<>>, own, has, st)
  BY DEF Ordered, QueueOK

-----------------------------------------------------------------------------
(* Counting                                                                *)

\* A set of clients is finite, so its cardinality is a number.
LEMMA ClientsCount ==
  ASSUME NEW S \in SUBSET Client
  PROVE  IsFiniteSet(S) /\ Cardinality(S) \in Nat
  BY ClientAssumption, FS_Subset, FS_CardinalityType

\* Adding or removing one client moves the count by one.
LEMMA OneMore ==
  ASSUME NEW S \in SUBSET Client, NEW c \in Client, c \notin S
  PROVE  Cardinality(S \cup {c}) = Cardinality(S) + 1
  BY ClientsCount, FS_AddElement

\* A set without one of its elements has one element less.
LEMMA OneLess ==
  ASSUME NEW S \in SUBSET Client, NEW c \in S
  PROVE  /\ Cardinality(S) \in Nat \ {0}
         /\ Cardinality(S \ {c}) = Cardinality(S) - 1
         /\ Cardinality(S) = 1 => S \ {c} = {}
  <1>1. /\ IsFiniteSet(S \ {c})
        /\ Cardinality(S \ {c}) = Cardinality(S) - 1
        /\ Cardinality(S) \in Nat /\ Cardinality(S \ {c}) \in Nat
    BY ClientsCount, FS_RemoveElement
  <1>2. Cardinality(S \ {c}) = 0 => S \ {c} = {}
    BY <1>1, FS_EmptySet
  <1> QED
    BY <1>1, <1>2
\* GarbageCollect keeps the counts right, and the registrations of all but the
\* known clients that are not among those left.
LEMMA CollectKeepsCounts ==
  ASSUME TypeOK, NEW r \in [Gid -> Nat], NEW s \in [Gid -> Nat],
         NEW left \in SUBSET Client,
         \A g \in Gid : r[g] > 0 => r[g] + s[g] = Cardinality(Registrants(g)),
         GarbageCollect(r, left)
  PROVE  /\ ref' \in [Gid -> Nat]
         /\ registered' \in [Client -> SUBSET Gid]
         /\ \A g \in Gid :
              /\ ref'[g] > 0 => ref'[g] + s[g] = Cardinality(Registrants(g)')
              /\ r[g] > 0 /\ ref'[g] = 0 /\ s[g] = 0 => Registrants(g)' = {}
         /\ \A c \in Client :
              registered'[c] = IF left # {} /\ c \in known \ left THEN {}
                               ELSE registered[c]
  <1> DEFINE dead == IF left = {} THEN {} ELSE known \ left
  <1>1. /\ dead \in SUBSET Client
        /\ registered' = [c \in Client |-> IF c \in dead THEN {} ELSE registered[c]]
        /\ ref' = [g \in Gid |-> Less(r[g], Cardinality(dead \cap Registrants(g)))]
    BY DEF GarbageCollect, TypeOK
  <1>2. \A c \in Client :
          registered'[c] = IF left # {} /\ c \in known \ left THEN {} ELSE registered[c]
    BY <1>1 DEF TypeOK
  <1>3. registered' \in [Client -> SUBSET Gid]
    BY <1>1 DEF TypeOK
  <1> HIDE DEF dead
  <1>4. ASSUME NEW g \in Gid
        PROVE  /\ ref'[g] \in Nat
               /\ ref'[g] > 0 => ref'[g] + s[g] = Cardinality(Registrants(g)')
               /\ r[g] > 0 /\ ref'[g] = 0 /\ s[g] = 0 => Registrants(g)' = {}
    <2>1. Registrants(g) \in SUBSET Client
      BY DEF Registrants
    <2>2. Registrants(g)' = Registrants(g) \ dead
      BY <1>1 DEF Registrants
    <2>3. ref'[g] = Less(r[g], Cardinality(dead \cap Registrants(g)))
      BY <1>1
    <2>4. /\ r[g] \in Nat /\ s[g] \in Nat
          /\ r[g] > 0 => r[g] + s[g] = Cardinality(Registrants(g))
      OBVIOUS
    <2> DEFINE total == Cardinality(Registrants(g))
               dropped == Cardinality(dead \cap Registrants(g))
               rest == Cardinality(Registrants(g) \ dead)
    <2>5. /\ rest = total - dropped
          /\ total \in Nat /\ dropped \in Nat /\ rest \in Nat
      <3>1. Registrants(g) \cap dead = dead \cap Registrants(g)
        OBVIOUS
      <3>2. dead \cap Registrants(g) \in SUBSET Client /\ Registrants(g) \ dead \in SUBSET Client
        BY <2>1
      <3>3. IsFiniteSet(Registrants(g)) /\ IsFiniteSet(dead)
        BY <1>1, <2>1, ClientsCount
      <3>4. rest = total - Cardinality(Registrants(g) \cap dead)
        BY <3>3, FS_Difference
      <3> QED
        BY <2>1, <3>1, <3>2, <3>4, ClientsCount
    <2>6. rest = 0 => Registrants(g) \ dead = {}
      <3>1. IsFiniteSet(Registrants(g) \ dead)
        BY <2>1, ClientsCount
      <3> QED
        BY <3>1, FS_EmptySet
    <2>7. /\ ref'[g] \in Nat
          /\ ref'[g] > 0 => ref'[g] + s[g] = rest
          /\ r[g] > 0 /\ ref'[g] = 0 /\ s[g] = 0 => rest = 0
      <3> HIDE DEF total, dropped, rest
      <3>1. ref'[g] = Less(r[g], dropped) /\ (r[g] > 0 => r[g] + s[g] = total)
        BY <2>3, <2>4 DEF total, dropped
      <3> QED
        BY <2>4, <2>5, <3>1 DEF Less
    <2> QED
      BY <2>2, <2>6, <2>7
  <1>5. ref' \in [Gid -> Nat]
    BY <1>1, <1>4
  <1> QED
    BY <1>2, <1>3, <1>4, <1>5

-----------------------------------------------------------------------------
(* Types                                                                   *)

\* The message that the server reads has a gid, except for CLOSE_SESSION.
LEMMA HeadHasGid ==
  ASSUME TypeOK, NEW c \in Client, queue[c] # <<>>, Head(queue[c]).op # "close"
  PROVE  /\ Head(queue[c]) \in Message
         /\ Head(queue[c]).gid \in Gid
         /\ Head(queue[c]) = Msg(Head(queue[c]).op, Head(queue[c]).gid)
  BY DEF TypeOK, Message, Msg

\* Collecting keeps the types.
LEMMA CollectKeepsTypes ==
  ASSUME TypeOK, NEW r \in [Gid -> Nat], NEW left, GarbageCollect(r, left)
  PROVE  ref' \in [Gid -> Nat] /\ registered' \in [Client -> SUBSET Gid]
  <1>1. ASSUME NEW g \in Gid, NEW D \in SUBSET Client
        PROVE  Less(r[g], Cardinality(D \cap Registrants(g))) \in Nat
    <2>1. Cardinality(D \cap Registrants(g)) \in Nat
      BY ClientsCount
    <2> QED
      BY <2>1 DEF Less
  <1> QED
    BY <1>1 DEF GarbageCollect, TypeOK

\* A change of controllers keeps the types.
LEMMA ChangedKeepsTypes ==
  ASSUME TypeOK, NEW st \in [Client -> Status], ControllersChanged(st)
  PROVE  /\ status' \in [Client -> Status]
         /\ ref' \in [Gid -> Nat] /\ registered' \in [Client -> SUBSET Gid]
  <1>1. Cleaned(st) \in [Client -> Status]
    BY DEF Cleaned, Status
  <1>2. ref \in [Gid -> Nat]
    BY DEF TypeOK
  <1>3. \E left : GarbageCollect(ref, left)
    BY DEF ControllersChanged
  <1> QED
    BY <1>1, <1>2, <1>3, CollectKeepsTypes DEF ControllersChanged

\* Every step keeps the types.
LEMMA StepKeepsTypes ==
  TypeOK /\ [Next]_vars => TypeOK'
  <1> SUFFICES ASSUME TypeOK, [Next]_vars
               PROVE  TypeOK'
    OBVIOUS
  <1>1. ASSUME NEW c \in Client, NEW g \in Gid, Attach(c, g)
        PROVE  TypeOK'
    BY <1>1 DEF TypeOK, Attach, Acquire, Msg, Message, serverVars
  <1>2. ASSUME NEW c \in Client, NEW g \in Gid, Create(c, g)
        PROVE  TypeOK'
    BY <1>2 DEF TypeOK, Create, Acquire, Msg, Message, serverVars
  <1>3. ASSUME NEW c \in Client, NEW g \in Gid, Update(c, g)
        PROVE  TypeOK'
    BY <1>3 DEF TypeOK, Update, Msg, Message, serverVars, clientVars
  <1>4. ASSUME NEW c \in Client, NEW g \in Gid, Delete(c, g)
        PROVE  TypeOK'
    BY <1>4 DEF TypeOK, Delete, Msg, Message, serverVars
  <1>5. ASSUME NEW c \in Client, NEW g \in Gid, Discover(c, g)
        PROVE  TypeOK'
    BY <1>5 DEF TypeOK, Discover, Msg, Message, serverVars
  <1>6. ASSUME NEW c \in Client, Leave(c)
        PROVE  TypeOK'
    BY <1>6 DEF TypeOK, Leave, Msg, Message, Status, serverVars, clientVars
  <1>7. ASSUME NEW c \in Client, Crash(c)
        PROVE  TypeOK'
    BY <1>7 DEF TypeOK, Crash, Status, serverVars, clientVars
  <1>8. ASSUME NEW c \in Client, Connect(c)
        PROVE  TypeOK'
    <2>1. ControllersChanged([status EXCEPT ![c] = "up"])
      BY <1>8 DEF Connect
    <2>2. [status EXCEPT ![c] = "up"] \in [Client -> Status]
      BY DEF TypeOK, Status
    <2>3. /\ status' \in [Client -> Status]
          /\ ref' \in [Gid -> Nat] /\ registered' \in [Client -> SUBSET Gid]
      BY <2>1, <2>2, ChangedKeepsTypes
    <2> QED
      BY <1>8, <2>3 DEF TypeOK, Connect, clientVars
  <1>9. ASSUME NEW c \in Client, HandleRegister(c)
        PROVE  TypeOK'
    <2>1. Head(queue[c]).gid \in Gid
      BY <1>9, HeadHasGid DEF HandleRegister, Receive
    <2> QED
      BY <1>9, <2>1 DEF TypeOK, HandleRegister, Receive, RegisterSI, clientVars
  <1>10. ASSUME NEW c \in Client, HandleUnRegister(c)
         PROVE  TypeOK'
    <2>1. Head(queue[c]).gid \in Gid
      BY <1>10, HeadHasGid DEF HandleUnRegister, Receive
    <2> QED
      BY <1>10, <2>1
      DEF TypeOK, HandleUnRegister, Receive, UnRegisterSI, Less, clientVars
  <1>11. ASSUME NEW c \in Client, NEW op \in {"define", "update"}, HandlePush(c, op)
         PROVE  TypeOK'
    <2> DEFINE g == Head(queue[c]).gid
    <2>1. g \in Gid
      BY <1>11, HeadHasGid DEF HandlePush, Receive
    <2>2. Created(g, op) \in [Gid -> Nat]
      BY <2>1 DEF Created, TypeOK
    <2>3. ref' \in [Gid -> Nat] /\ registered' \in [Client -> SUBSET Gid]
      BY <1>11, <2>2, CollectKeepsTypes DEF HandlePush, TypeOK
    <2>4. Cardinality(Registrants(g) \ {c}) \in Nat
      BY ClientsCount DEF Registrants
    <2>5. surplus' \in [Gid -> Nat]
      BY <1>11, <2>1, <2>4 DEF HandlePush, TypeOK
    <2>6. status' \in [Client -> Status]
      BY <1>11 DEF HandlePush, Cleaned, TypeOK, Status
    <2>7. queue' \in [Client -> Seq(Message)]
      BY <1>11 DEF HandlePush, Receive, TypeOK
    <2>8. announced' \subseteq Gid /\ UNCHANGED <<known, serving, proxies, held, pulling>>
      BY <1>11, <2>1 DEF HandlePush, TypeOK, clientVars
    <2> QED
      BY <2>3, <2>5, <2>6, <2>7, <2>8 DEF TypeOK
  <1>12. ASSUME NEW c \in Client, HandlePull(c)
         PROVE  TypeOK'
    <2> DEFINE g == Head(queue[c]).gid
    <2>1. g \in Gid
      BY <1>12, HeadHasGid DEF HandlePull
    <2>2. Tail(queue[c]) \in Seq(Message) /\ Msg("register", g) \in Message
      BY <1>12, <2>1 DEF TypeOK, HandlePull, Message, Msg
    <2>3. queue' \in [Client -> Seq(Message)]
      <3>1. Append(Tail(queue[c]), Msg("register", g)) \in Seq(Message)
        BY <2>2
      <3>2. \/ queue' = [queue EXCEPT ![c] = Append(Tail(@), Msg("register", g))]
            \/ queue' = [queue EXCEPT ![c] = Tail(@)]
        BY <1>12 DEF HandlePull
      <3> QED
        BY <2>2, <3>1, <3>2 DEF TypeOK
    <2>4. proxies' \in [Client -> SUBSET Gid] /\ held' \in [Client -> SUBSET Gid]
      <3>1. \/ /\ proxies' = [proxies EXCEPT ![c] = @ \cup {g}]
               /\ held' = [held EXCEPT ![c] = @ \cup {g}]
            \/ UNCHANGED <<proxies, held>>
        BY <1>12 DEF HandlePull, Acquire
      <3> HIDE DEF g
      <3>2. [proxies EXCEPT ![c] = @ \cup {g}] \in [Client -> SUBSET Gid]
        BY <2>1 DEF TypeOK
      <3>3. [held EXCEPT ![c] = @ \cup {g}] \in [Client -> SUBSET Gid]
        BY <2>1 DEF TypeOK
      <3> QED
        BY <3>1, <3>2, <3>3 DEF TypeOK
    <2>5. pulling' \in [Client -> Gid \cup {None}]
      BY <1>12 DEF TypeOK, HandlePull
    <2>6. UNCHANGED <<serverVars, status, serving, announced>>
      BY <1>12 DEF HandlePull
    <2> QED
      BY <2>3, <2>4, <2>5, <2>6 DEF TypeOK, serverVars
  <1>13. ASSUME NEW c \in Client, HandleClose(c)
         PROVE  TypeOK'
    <2>1. ControllersChanged([status EXCEPT ![c] = "gone"])
      BY <1>13 DEF HandleClose
    <2>2. [status EXCEPT ![c] = "gone"] \in [Client -> Status]
      BY DEF TypeOK, Status
    <2>3. /\ status' \in [Client -> Status]
          /\ ref' \in [Gid -> Nat] /\ registered' \in [Client -> SUBSET Gid]
      BY <2>1, <2>2, ChangedKeepsTypes
    <2>4. queue' \in [Client -> Seq(Message)] /\ serving' \in BOOLEAN
      BY <1>13 DEF HandleClose, Receive, TypeOK
    <2> QED
      BY <1>13, <2>3, <2>4 DEF TypeOK, HandleClose, clientVars
  <1>14. ASSUME NEW c \in Client, ReadError(c)
         PROVE  TypeOK'
    BY <1>14 DEF TypeOK, ReadError, Status, serverVars, clientVars
  <1>15. ASSUME NEW c \in Client, NotifyAllClients(c)
         PROVE  TypeOK'
    <2>1. ref' \in [Gid -> Nat] /\ registered' \in [Client -> SUBSET Gid]
      BY <1>15, CollectKeepsTypes DEF NotifyAllClients, TypeOK
    <2>2. status' \in [Client -> Status]
      BY <1>15 DEF NotifyAllClients, Cleaned, TypeOK, Status
    <2> QED
      BY <1>15, <2>1, <2>2 DEF TypeOK, NotifyAllClients, clientVars
  <1>16. CASE UNCHANGED vars
    BY <1>16 DEF TypeOK, vars
  <1> QED
    BY <1>1, <1>2, <1>3, <1>4, <1>5, <1>6, <1>7, <1>8, <1>9, <1>10, <1>11,
       <1>12, <1>13, <1>14, <1>15, <1>16 DEF Next

-----------------------------------------------------------------------------
(* The order of the queues                                                 *)

\* A client whose part of the state does not change stays in order.
LEMMA SameInOrder ==
  ASSUME NEW d \in Client, InOrder(d),
         UNCHANGED <<queue[d], registered[d], proxies[d], status[d]>>
  PROVE  InOrder(d)'
  BY DEF InOrder

\* So does one that is not collected, and one that has no socket.
LEMMA CollectKeepsOrder ==
  ASSUME TypeOK, NEW d \in Client, InOrder(d), NEW r, NEW left,
         GarbageCollect(r, left), UNCHANGED <<queue[d], proxies[d]>>,
         \/ d \in left /\ UNCHANGED status[d]
         \/ /\ status[d] \in {"absent", "lost", "gone"}
            /\ status'[d] = status[d] \/ status'[d] = "gone"
  PROVE  InOrder(d)'
  <1>1. CASE d \in left /\ UNCHANGED status[d]
    <2>1. UNCHANGED registered[d]
      BY <1>1 DEF GarbageCollect, TypeOK
    <2> QED
      BY <1>1, <2>1, SameInOrder
  <1>2. CASE /\ status[d] \in {"absent", "lost", "gone"}
             /\ status'[d] = status[d] \/ status'[d] = "gone"
    <2>1. queue'[d] = <<>> /\ (status[d] = "absent" => proxies'[d] = {})
      BY <1>2 DEF InOrder, Ordered
    <2>2. Ordered(<<>>, registered'[d], proxies'[d], status'[d])
      BY <1>2, <2>1, IdleOrdered
    <2> QED
      BY <2>1, <2>2 DEF InOrder
  <1> QED
    BY <1>1, <1>2

\* CompositeMultiProcessControllerChanged, for a client whose connection is
\* not the one that changes.
LEMMA ChangedKeepsOrder ==
  ASSUME TypeOK, NEW st \in [Client -> Status], ControllersChanged(st),
         NEW d \in Client, InOrder(d), UNCHANGED <<queue[d], proxies[d]>>,
         st[d] = status[d]
  PROVE  InOrder(d)'
  <1>1. PICK after \in {st, Cleaned(st)} :
          /\ status' = after
          /\ GarbageCollect(ref, IF Controllers(after) # {} THEN Controllers(after)
                                 ELSE Controllers(st))
    BY DEF ControllersChanged
  <1>2. after[d] = st[d] \/ (st[d] = "lost" /\ after[d] = "gone")
    BY <1>1 DEF Cleaned
  <1>3. CASE d \in Controllers(after) /\ UNCHANGED status[d]
    <2>1. GarbageCollect(ref, Controllers(after))
      BY <1>1, <1>3
    <2> QED
      BY <1>3, <2>1, CollectKeepsOrder
  <1>4. CASE /\ status[d] \in {"absent", "lost", "gone"}
             /\ status'[d] = status[d] \/ status'[d] = "gone"
    BY <1>1, <1>4, CollectKeepsOrder
  <1>5. \/ d \in Controllers(after) /\ UNCHANGED status[d]
        \/ /\ status[d] \in {"absent", "lost", "gone"}
           /\ status'[d] = status[d] \/ status'[d] = "gone"
    BY <1>1, <1>2 DEF Controllers
  <1> QED
    BY <1>3, <1>4, <1>5

\* Every step keeps the queues in order.
LEMMA StepKeepsQueues ==
  TypeOK /\ QInv /\ [Next]_vars => QInv'
  <1> SUFFICES ASSUME TypeOK, QInv, [Next]_vars
               PROVE  QInv'
    OBVIOUS
  <1> USE DEF QInv
  <1>0. ASSUME NEW c \in Client, InOrder(c)',
               \A d \in Client \ {c} :
                 UNCHANGED <<queue[d], registered[d], proxies[d], status[d]>>
        PROVE  QInv'
    BY <1>0, SameInOrder
  <1>1. ASSUME NEW c \in Client, NEW g \in Gid, Attach(c, g)
        PROVE  QInv'
    <2>1. Ordered(Append(queue[c], Msg("register", g)), registered[c],
                  proxies[c] \cup {g}, "up")
      <3>1. Ordered(queue[c], registered[c], proxies[c], "up")
        BY <1>1 DEF InOrder, Attach, CanSend
      <3>2. Msg("register", g) \in Message /\ Msg("register", g).op = "register"
        BY DEF Msg, Message
      <3>3. \A h \in proxies[c] : Msg("register", g) # Msg("unregister", h)
        BY DEF Msg
      <3> QED
        BY <3>1, <3>2, <3>3, SendOrdered DEF TypeOK
    <2>2. /\ queue' = [queue EXCEPT ![c] = Append(@, Msg("register", g))]
          /\ proxies' = [proxies EXCEPT ![c] = @ \cup {g}]
          /\ status[c] = "up" /\ UNCHANGED <<registered, status>>
      BY <1>1 DEF Attach, Acquire, CanSend, serverVars
    <2> QED
      BY <1>0, <2>1, <2>2 DEF InOrder, TypeOK
  <1>2. ASSUME NEW c \in Client, NEW g \in Gid, Create(c, g)
        PROVE  QInv'
    <2> DEFINE mid == Append(queue[c], Msg("register", g))
    <2>1. Ordered(queue[c], registered[c], proxies[c], "up")
      BY <1>2 DEF InOrder, Create, CanSend
    <2>2. /\ Msg("register", g) \in Message /\ Msg("register", g).op = "register"
          /\ Msg("define", g) \in Message
          /\ Msg("define", g).op = "define" /\ Msg("define", g).gid = g
          /\ \A h : Msg("register", g) # Msg("unregister", h)
          /\ \A h : Msg("define", g) # Msg("unregister", h)
      BY DEF Msg, Message
    <2>3. Ordered(mid, registered[c], proxies[c] \cup {g}, "up")
      BY <2>1, <2>2, SendOrdered DEF TypeOK
    <2>4. mid \in Seq(Message)
      BY <2>2 DEF TypeOK
    <2>5. Ordered(Append(mid, Msg("define", g)), registered[c],
                  proxies[c] \cup {g}, "up")
      <3> HIDE DEF mid
      <3> QED
        BY <2>2, <2>3, <2>4, SendOrdered
    <2>6. /\ queue' = [queue EXCEPT ![c] = @ \o <<Msg("register", g), Msg("define", g)>>]
          /\ proxies' = [proxies EXCEPT ![c] = @ \cup {g}]
          /\ status[c] = "up" /\ UNCHANGED <<registered, status>>
      BY <1>2 DEF Create, Acquire, CanSend, serverVars
    <2>7. queue[c] \o <<Msg("register", g), Msg("define", g)>>
            = Append(mid, Msg("define", g))
      BY <2>2 DEF TypeOK
    <2> HIDE DEF mid
    <2>8. /\ queue'[c] = Append(mid, Msg("define", g))
          /\ proxies'[c] = proxies[c] \cup {g}
      BY <2>6, <2>7 DEF TypeOK
    <2>9. InOrder(c)'
      BY <2>5, <2>6, <2>8 DEF InOrder
    <2> QED
      BY <1>0, <2>6, <2>9 DEF TypeOK
  <1>3. ASSUME NEW c \in Client, NEW g \in Gid, Update(c, g)
        PROVE  QInv'
    <2> DEFINE m == Msg(IF g \in Shared THEN "define" ELSE "update", g)
    <2>1. Ordered(queue[c], registered[c], proxies[c], "up") /\ g \in proxies[c]
      BY <1>3 DEF InOrder, Update, CanSend
    <2>2. /\ m \in Message /\ m.op \in {"define", "update"} /\ m.gid = g
          /\ \A h : m # Msg("unregister", h)
      BY DEF Msg, Message
    <2> HIDE DEF m
    <2>3. Ordered(Append(queue[c], m), registered[c], proxies[c], "up")
      BY <2>1, <2>2, SendOrdered DEF TypeOK
    <2>4. /\ queue' = [queue EXCEPT ![c] = Append(@, m)]
          /\ status[c] = "up" /\ UNCHANGED <<registered, status, proxies>>
      BY <1>3 DEF Update, CanSend, serverVars, clientVars, m
    <2> QED
      BY <1>0, <2>3, <2>4 DEF InOrder, TypeOK
  <1>4. ASSUME NEW c \in Client, NEW g \in Gid, Delete(c, g)
        PROVE  QInv'
    <2> DEFINE m == Msg("unregister", g)
    <2>1. Ordered(queue[c], registered[c], proxies[c], "up") /\ g \in proxies[c]
      BY <1>4 DEF InOrder, Delete, CanSend
    <2>2. /\ m \in Message /\ m.op = "unregister" /\ m.gid = g
          /\ \A h \in proxies[c] \ {g} : m # Msg("unregister", h)
      BY DEF Msg, Message
    <2> HIDE DEF m
    <2>3. Ordered(Append(queue[c], m), registered[c], proxies[c] \ {g}, "up")
      BY <2>1, <2>2, SendOrdered DEF TypeOK
    <2>4. /\ queue' = [queue EXCEPT ![c] = Append(@, m)]
          /\ proxies' = [proxies EXCEPT ![c] = @ \ {g}]
          /\ status[c] = "up" /\ UNCHANGED <<registered, status>>
      BY <1>4 DEF Delete, CanSend, serverVars, m
    <2> QED
      BY <1>0, <2>3, <2>4 DEF InOrder, TypeOK
  <1>5. ASSUME NEW c \in Client, NEW g \in Gid, Discover(c, g)
        PROVE  QInv'
    <2> DEFINE m == Msg("pull", g)
    <2>1. Ordered(queue[c], registered[c], proxies[c], "up")
      BY <1>5 DEF InOrder, Discover, CanSend
    <2>2. m \in Message /\ m.op = "pull" /\ \A h : m # Msg("unregister", h)
      BY DEF Msg, Message
    <2> HIDE DEF m
    <2>3. Ordered(Append(queue[c], m), registered[c], proxies[c], "up")
      BY <2>1, <2>2, SendOrdered DEF TypeOK
    <2>4. /\ queue' = [queue EXCEPT ![c] = Append(@, m)]
          /\ status[c] = "up" /\ UNCHANGED <<registered, status, proxies>>
      BY <1>5 DEF Discover, CanSend, serverVars, m
    <2> QED
      BY <1>0, <2>3, <2>4 DEF InOrder, TypeOK
  <1>6. ASSUME NEW c \in Client, Leave(c)
        PROVE  QInv'
    <2> DEFINE m == Msg("close", None)
               q == queue[c]
    <2>1. Ordered(q, registered[c], proxies[c], "up") /\ q \in Seq(Message)
      BY <1>6 DEF InOrder, Leave, CanSend, TypeOK
    <2>2. m \in Message /\ m.op = "close"
      BY DEF Msg, Message
    <2>3. /\ queue' = [queue EXCEPT ![c] = Append(@, m)]
          /\ status' = [status EXCEPT ![c] = "leaving"]
          /\ UNCHANGED <<registered, proxies>>
      BY <1>6 DEF Leave, serverVars, clientVars
    <2> HIDE DEF m, q
    <2>4. QueueOK(Append(q, m), registered[c])
      BY <2>1, <2>2, AppendOK DEF Ordered
    <2>5. \A i \in 1 .. Len(Append(q, m)) :
            Append(q, m)[i].op = "close" => i = Len(Append(q, m))
      <3>1. \A i \in 1 .. Len(q) : q[i].op # "close"
        BY <2>1 DEF Ordered
      <3> QED
        BY <2>1, <3>1
    <2>6. Ordered(Append(q, m), registered[c], proxies[c], "leaving")
      BY <2>4, <2>5 DEF Ordered
    <2>7. InOrder(c)'
      BY <2>3, <2>6 DEF InOrder, TypeOK, q
    <2> QED
      BY <1>0, <2>3, <2>7 DEF TypeOK
  <1>7. ASSUME NEW c \in Client, Crash(c)
        PROVE  QInv'
    <2>1. PICK n \in 0 .. Len(queue[c]) : queue' = [queue EXCEPT ![c] = SubSeq(@, 1, n)]
      BY <1>7 DEF Crash
    <2>2. status' = [status EXCEPT ![c] = "dead"] /\ UNCHANGED <<registered, proxies>>
      BY <1>7 DEF Crash, serverVars, clientVars
    <2> DEFINE q == queue[c]
               p == SubSeq(q, 1, n)
    <2>3. q \in Seq(Message) /\ Ordered(q, registered[c], proxies[c], status[c])
      BY DEF InOrder, TypeOK
    <2>4. QueueOK(p, registered[c])
      BY <2>3, PrefixOK DEF Ordered
    <2>5. \A i \in 1 .. Len(p) : p[i].op = "close" => i = Len(p)
      <3>1. Len(p) = n /\ \A i \in 1 .. n : p[i] = q[i]
        BY <2>3
      <3>2. \A i \in 1 .. Len(q) : q[i].op = "close" => i = Len(q)
        BY <2>3 DEF Ordered
      <3> QED
        BY <2>3, <3>1, <3>2
    <2>6. Ordered(p, registered[c], proxies[c], "dead")
      BY <2>4, <2>5 DEF Ordered
    <2>7. InOrder(c)'
      BY <2>1, <2>2, <2>6 DEF InOrder, TypeOK
    <2> QED
      BY <1>0, <2>1, <2>2, <2>7 DEF TypeOK
  <1>8. ASSUME NEW c \in Client, Connect(c)
        PROVE  QInv'
    <2> DEFINE st == [status EXCEPT ![c] = "up"]
    <2>1. status[c] = "absent" /\ ControllersChanged(st) /\ UNCHANGED <<queue, proxies>>
      BY <1>8 DEF Connect, clientVars
    <2>2. InOrder(c)'
      <3>1. queue'[c] = <<>> /\ proxies'[c] = {} /\ status'[c] = "up"
        BY <2>1 DEF InOrder, Ordered, TypeOK, ControllersChanged, Cleaned
      <3>2. Ordered(<<>>, registered'[c], {}, "up")
        BY DEF Ordered, QueueOK
      <3> QED
        BY <3>1, <3>2 DEF InOrder
    <2>3. ASSUME NEW d \in Client \ {c}
          PROVE  InOrder(d)'
      <3>1. st \in [Client -> Status] /\ st[d] = status[d]
        BY DEF TypeOK, Status
      <3> QED
        BY <2>1, <3>1, ChangedKeepsOrder
    <2> QED
      BY <2>2, <2>3
  <1>9. ASSUME NEW c \in Client, HandleRegister(c)
        PROVE  QInv'
    <2>1. /\ queue[c] # <<>> /\ Head(queue[c]).op = "register"
          /\ queue' = [queue EXCEPT ![c] = Tail(@)]
          /\ registered' = [registered EXCEPT ![c] = @ \cup {Head(queue[c]).gid}]
          /\ UNCHANGED <<status, proxies>>
      BY <1>9 DEF HandleRegister, Receive, RegisterSI, clientVars
    <2>2. Ordered(Tail(queue[c]), Handled(registered[c], Head(queue[c])),
                  proxies[c], status[c])
      BY <2>1, ReadOrdered DEF InOrder, TypeOK
    <2>3. Handled(registered[c], Head(queue[c])) = registered'[c]
      BY <2>1 DEF Handled, TypeOK
    <2>4. InOrder(c)'
      BY <2>1, <2>2, <2>3 DEF InOrder, TypeOK
    <2> QED
      BY <1>0, <2>1, <2>4 DEF TypeOK
  <1>10. ASSUME NEW c \in Client, HandleUnRegister(c)
         PROVE  QInv'
    <2>1. /\ queue[c] # <<>> /\ Head(queue[c]).op = "unregister"
          /\ queue' = [queue EXCEPT ![c] = Tail(@)]
          /\ registered' = [registered EXCEPT ![c] = @ \ {Head(queue[c]).gid}]
          /\ UNCHANGED <<status, proxies>>
      BY <1>10 DEF HandleUnRegister, Receive, UnRegisterSI, clientVars
    <2>2. Ordered(Tail(queue[c]), Handled(registered[c], Head(queue[c])),
                  proxies[c], status[c])
      BY <2>1, ReadOrdered DEF InOrder, TypeOK
    <2>3. Handled(registered[c], Head(queue[c])) = registered'[c]
      BY <2>1 DEF Handled, TypeOK
    <2>4. InOrder(c)'
      BY <2>1, <2>2, <2>3 DEF InOrder, TypeOK
    <2> QED
      BY <1>0, <2>1, <2>4 DEF TypeOK
  <1>11. ASSUME NEW c \in Client, NEW op \in {"define", "update"}, HandlePush(c, op)
         PROVE  QInv'
    <2> DEFINE cleaned == Cleaned(status)
    <2>1. /\ queue[c] # <<>> /\ Head(queue[c]).op \in {"define", "update"}
          /\ c \in Connected(status)
          /\ queue' = [queue EXCEPT ![c] = Tail(@)]
          /\ status' = cleaned
          /\ UNCHANGED proxies
          /\ \/ cleaned = status /\ UNCHANGED registered
             \/ GarbageCollect(Created(Head(queue[c]).gid, op), Controllers(cleaned))
      BY <1>11 DEF HandlePush, Receive, clientVars
    <2>2. c \in Controllers(cleaned) /\ status'[c] = status[c]
      BY <2>1 DEF Controllers, Connected, Cleaned
    <2>3. UNCHANGED registered[c]
      BY <2>1, <2>2 DEF GarbageCollect, TypeOK
    <2>4. Ordered(Tail(queue[c]), registered[c], proxies[c], status[c])
      <3>1. Ordered(Tail(queue[c]), Handled(registered[c], Head(queue[c])),
                    proxies[c], status[c])
        BY <2>1, ReadOrdered DEF InOrder, TypeOK
      <3>2. Handled(registered[c], Head(queue[c])) = registered[c]
        BY <2>1 DEF Handled
      <3> QED
        BY <3>1, <3>2
    <2>5. InOrder(c)'
      BY <2>1, <2>2, <2>3, <2>4 DEF InOrder, TypeOK
    <2>6. ASSUME NEW d \in Client \ {c}
          PROVE  InOrder(d)'
      <3>1. UNCHANGED <<queue[d], proxies[d]>> /\ status'[d] = cleaned[d]
        BY <2>1 DEF TypeOK
      <3>2. CASE cleaned = status /\ UNCHANGED registered
        BY <3>1, <3>2, SameInOrder
      <3>3. CASE GarbageCollect(Created(Head(queue[c]).gid, op), Controllers(cleaned))
        <4>1. \/ d \in Controllers(cleaned) /\ status'[d] = status[d]
              \/ /\ status[d] \in {"absent", "lost", "gone"}
                 /\ status'[d] = status[d] \/ status'[d] = "gone"
          BY <3>1 DEF Controllers, Cleaned, TypeOK, Status
        <4> QED
          BY <3>1, <3>3, <4>1, CollectKeepsOrder
      <3> QED
        BY <2>1, <3>2, <3>3
    <2> QED
      BY <2>5, <2>6
  <1>12. ASSUME NEW c \in Client, HandlePull(c)
         PROVE  QInv'
    <2> DEFINE g == Head(queue[c]).gid
               q == queue[c]
    <2>1. /\ q \in Seq(Message) /\ q # <<>> /\ Head(q).op = "pull" /\ g \in Gid
          /\ UNCHANGED <<status, registered>>
          /\ \/ /\ status[c] = "up"
                /\ queue' = [queue EXCEPT ![c] = Append(Tail(@), Msg("register", g))]
                /\ proxies' = [proxies EXCEPT ![c] = @ \cup {g}]
             \/ /\ queue' = [queue EXCEPT ![c] = Tail(@)]
                /\ UNCHANGED proxies
      BY <1>12, HeadHasGid DEF HandlePull, Acquire, serverVars, TypeOK
    <2> HIDE DEF g
    <2>2. Ordered(Tail(q), registered[c], proxies[c], status[c])
      <3>1. Ordered(Tail(q), Handled(registered[c], Head(q)), proxies[c], status[c])
        BY <2>1, ReadOrdered DEF InOrder
      <3>2. Handled(registered[c], Head(q)) = registered[c]
        BY <2>1 DEF Handled
      <3> QED
        BY <3>1, <3>2
    <2>3. CASE UNCHANGED proxies /\ queue' = [queue EXCEPT ![c] = Tail(@)]
      <3>1. InOrder(c)'
        BY <2>1, <2>2, <2>3 DEF InOrder, TypeOK
      <3> QED
        BY <1>0, <2>1, <2>3, <3>1 DEF TypeOK
    <2>4. CASE /\ status[c] = "up"
               /\ queue' = [queue EXCEPT ![c] = Append(Tail(@), Msg("register", g))]
               /\ proxies' = [proxies EXCEPT ![c] = @ \cup {g}]
      <3> DEFINE p == Tail(q)
      <3>1. p \in Seq(Message)
        BY <2>1
      <3>2. /\ Msg("register", g) \in Message /\ Msg("register", g).op = "register"
            /\ \A h : Msg("register", g) # Msg("unregister", h)
        BY <2>1 DEF Msg, Message
      <3>3. /\ queue'[c] = Append(p, Msg("register", g))
            /\ proxies'[c] = proxies[c] \cup {g}
        BY <2>4 DEF TypeOK
      <3> HIDE DEF p
      <3>4. Ordered(Append(p, Msg("register", g)), registered[c],
                    proxies[c] \cup {g}, "up")
        BY <2>2, <2>4, <3>1, <3>2, SendOrdered DEF p
      <3>5. InOrder(c)'
        BY <2>1, <2>4, <3>3, <3>4 DEF InOrder
      <3> QED
        BY <1>0, <2>1, <2>4, <3>5 DEF TypeOK
    <2> QED
      BY <2>1, <2>3, <2>4
  <1>13. ASSUME NEW c \in Client, HandleClose(c)
         PROVE  QInv'
    <2> DEFINE st == [status EXCEPT ![c] = "gone"]
    <2>1. /\ queue[c] # <<>> /\ Head(queue[c]).op = "close"
          /\ queue' = [queue EXCEPT ![c] = Tail(@)]
          /\ ControllersChanged(st)
          /\ UNCHANGED proxies
      BY <1>13 DEF HandleClose, Receive, clientVars
    <2>2. Tail(queue[c]) = <<>>
      <3> DEFINE q == queue[c]
      <3>1. q \in Seq(Message) /\ 1 \in 1 .. Len(q) /\ q[1].op = "close"
        BY <2>1 DEF TypeOK
      <3>2. Len(q) = 1
        BY <3>1 DEF InOrder, Ordered
      <3> HIDE DEF q
      <3>3. Tail(q) \in Seq(Message) /\ Len(Tail(q)) = 0
        BY <3>1, <3>2
      <3>4. ASSUME NEW s \in Seq(Message), Len(s) = 0
            PROVE  s = <<>>
        BY <3>4
      <3>5. Tail(q) = <<>>
        BY <3>3, <3>4
      <3> QED
        BY <3>5 DEF q
    <2>3. InOrder(c)'
      <3>1. queue'[c] = <<>> /\ status'[c] = "gone"
        BY <2>1, <2>2 DEF TypeOK, ControllersChanged, Cleaned
      <3>2. Ordered(<<>>, registered'[c], proxies'[c], "gone")
        BY IdleOrdered
      <3> QED
        BY <3>1, <3>2 DEF InOrder
    <2>4. ASSUME NEW d \in Client \ {c}
          PROVE  InOrder(d)'
      <3>1. st \in [Client -> Status] /\ st[d] = status[d] /\ queue'[d] = queue[d]
        BY <2>1 DEF TypeOK, Status
      <3> QED
        BY <2>1, <3>1, ChangedKeepsOrder
    <2> QED
      BY <2>3, <2>4
  <1>14. ASSUME NEW c \in Client, ReadError(c)
         PROVE  QInv'
    <2>1. /\ queue[c] = <<>> /\ status' = [status EXCEPT ![c] = "lost"]
          /\ UNCHANGED <<queue, registered, proxies>>
      BY <1>14 DEF ReadError, serverVars, clientVars
    <2>2. Ordered(<<>>, registered[c], proxies[c], "lost")
      BY IdleOrdered
    <2>3. InOrder(c)'
      BY <2>1, <2>2 DEF InOrder, TypeOK
    <2> QED
      BY <1>0, <2>1, <2>3 DEF TypeOK
  <1>15. ASSUME NEW c \in Client, NotifyAllClients(c)
         PROVE  QInv'
    <2>1. /\ status' = Cleaned(status) /\ GarbageCollect(ref, Controllers(status'))
          /\ UNCHANGED <<queue, proxies>>
      BY <1>15 DEF NotifyAllClients, clientVars
    <2>2. ASSUME NEW d \in Client
          PROVE  InOrder(d)'
      <3>1. \/ d \in Controllers(status') /\ status'[d] = status[d]
            \/ /\ status[d] \in {"absent", "lost", "gone"}
               /\ status'[d] = status[d] \/ status'[d] = "gone"
        BY <2>1 DEF Controllers, Cleaned, TypeOK, Status
      <3> QED
        BY <2>1, <3>1, CollectKeepsOrder
    <2> QED
      BY <2>2
  <1>16. CASE UNCHANGED vars
    BY <1>16, SameInOrder DEF vars
  <1> QED
    BY <1>1, <1>2, <1>3, <1>4, <1>5, <1>6, <1>7, <1>8, <1>9, <1>10, <1>11,
       <1>12, <1>13, <1>14, <1>15, <1>16 DEF Next

-----------------------------------------------------------------------------
(* The counts                                                              *)

\* The part of the invariant that is about references and registrations.
Counted == RegistrationsKnown /\ RefsAreRegistrations /\ NoOrphans

\* The step deletes no object that is still used, its surplus apart.
KeptAlive ==
  \A g \in Gid :
    ref[g] > 0 /\ surplus[g] = 0 /\ ref'[g] = 0 => Registrants(g)' = {}

\* A step that touches neither references nor registrations nor controllers.
LEMMA QuietStep ==
  ASSUME Counted, TypeOK, UNCHANGED serverVars,
         Controllers(status') = Controllers(status), serving' => serving
  PROVE  Counted' /\ KeptAlive
  <1>1. UNCHANGED <<ref, registered, known, surplus>>
    BY DEF serverVars
  <1>2. \A g : Registrants(g)' = Registrants(g)
    BY <1>1 DEF Registrants
  <1>3. RefsAreRegistrations'
    BY <1>1, <1>2 DEF Counted, RefsAreRegistrations
  <1>4. RegistrationsKnown' /\ NoOrphans'
    BY <1>1 DEF Counted, RegistrationsKnown, NoOrphans
  <1> QED
    BY <1>1, <1>3, <1>4 DEF Counted, KeptAlive

\* A step that collects those that are not among the controllers left.
LEMMA CollectingStep ==
  ASSUME Counted, TypeOK, NEW r \in [Gid -> Nat], NEW s \in [Gid -> Nat],
         \A g \in Gid : r[g] > 0 => r[g] + s[g] = Cardinality(Registrants(g)),
         \A g \in Gid : ref[g] > 0 => r[g] = ref[g] /\ s[g] = surplus[g],
         surplus' = s, known' = known,
         NEW left \in SUBSET Client, GarbageCollect(r, left),
         serving' => Controllers(status') # {} /\ left = Controllers(status')
  PROVE  Counted' /\ KeptAlive
  <1>1. /\ ref' \in [Gid -> Nat]
        /\ \A g \in Gid :
             /\ ref'[g] > 0 => ref'[g] + s[g] = Cardinality(Registrants(g)')
             /\ r[g] > 0 /\ ref'[g] = 0 /\ s[g] = 0 => Registrants(g)' = {}
        /\ \A c \in Client :
             registered'[c] = IF left # {} /\ c \in known \ left THEN {}
                              ELSE registered[c]
    BY CollectKeepsCounts
  <1>3. RefsAreRegistrations'
    BY <1>1 DEF RefsAreRegistrations
  <1>4. RegistrationsKnown'
    BY <1>1 DEF RegistrationsKnown, Counted
  <1>5. NoOrphans'
    BY <1>1 DEF NoOrphans, RegistrationsKnown, Counted
  <1>6. KeptAlive
    BY <1>1 DEF KeptAlive
  <1> QED
    BY <1>3, <1>4, <1>5, <1>6 DEF Counted

\* CompositeMultiProcessControllerChanged, where the server stops without
\* controllers.
LEMMA ChangedStep ==
  ASSUME Counted, TypeOK, NEW st, ControllersChanged(st),
         surplus' = surplus, known' = known,
         serving' => Controllers(status') # {}
  PROVE  Counted' /\ KeptAlive
  <1> DEFINE left == IF Controllers(status') # {} THEN Controllers(status')
                     ELSE Controllers(st)
  <1>1. GarbageCollect(ref, left)
    BY DEF ControllersChanged
  <1>2. /\ left \in SUBSET Client
        /\ serving' => Controllers(status') # {} /\ left = Controllers(status')
    BY DEF Controllers
  <1>3. /\ ref \in [Gid -> Nat] /\ surplus \in [Gid -> Nat]
        /\ \A g \in Gid : ref[g] > 0 => ref[g] + surplus[g] = Cardinality(Registrants(g))
    BY DEF TypeOK, Counted, RefsAreRegistrations
  <1> HIDE DEF left
  <1> QED
    BY <1>1, <1>2, <1>3, CollectingStep

\* Every step keeps the counts right and the used objects alive.
LEMMA StepKeepsCounts ==
  TypeOK /\ QInv /\ Counted /\ [Next]_vars => Counted' /\ KeptAlive
  <1> SUFFICES ASSUME TypeOK, QInv, Counted, [Next]_vars
               PROVE  Counted' /\ KeptAlive
    OBVIOUS
  <1>1. ASSUME NEW c \in Client, NEW g \in Gid,
               Attach(c, g) \/ Create(c, g) \/ Update(c, g) \/ Delete(c, g)
                 \/ Discover(c, g)
        PROVE  Counted' /\ KeptAlive
    <2>1. UNCHANGED <<serverVars, status, serving>>
      BY <1>1 DEF Attach, Create, Update, Delete, Discover
    <2> QED
      BY <2>1, QuietStep
  <1>2. ASSUME NEW c \in Client, Leave(c) \/ Crash(c) \/ ReadError(c)
        PROVE  Counted' /\ KeptAlive
    <2>1. UNCHANGED serverVars /\ (serving' => serving)
      BY <1>2 DEF Leave, Crash, ReadError
    <2>2. /\ status[c] \in {"up", "leaving", "dead"}
          /\ \E st \in {"leaving", "dead", "lost"} : status' = [status EXCEPT ![c] = st]
      BY <1>2 DEF Leave, Crash, ReadError, CanSend
    <2>3. Controllers(status') = Controllers(status)
      BY <2>2 DEF Controllers, TypeOK
    <2> QED
      BY <2>1, <2>3, QuietStep
  <1>3. ASSUME NEW c \in Client, Connect(c)
        PROVE  Counted' /\ KeptAlive
    <2> DEFINE st == [status EXCEPT ![c] = "up"]
    <2>1. /\ ControllersChanged(st) /\ known' = known /\ surplus' = surplus
          /\ c \in Controllers(st) /\ c \in Controllers(Cleaned(st))
      BY <1>3 DEF Connect, Controllers, Cleaned, TypeOK
    <2> HIDE DEF st
    <2>3. Controllers(status') # {}
      BY <2>1 DEF ControllersChanged
    <2> QED
      BY <2>1, <2>3, ChangedStep
  <1>4. ASSUME NEW c \in Client, HandleRegister(c)
        PROVE  Counted' /\ KeptAlive
    <2> DEFINE g == Head(queue[c]).gid
    <2>1. /\ known' = known \cup {c}
          /\ registered' = [registered EXCEPT ![c] = @ \cup {g}]
          /\ ref' = IF g \notin registered[c] /\ ref[g] > 0
                    THEN [ref EXCEPT ![g] = @ + 1] ELSE ref
          /\ UNCHANGED <<surplus, status, serving>>
          /\ c \in Controllers(status)
      BY <1>4 DEF HandleRegister, Receive, RegisterSI, Controllers, Connected
    <2>2. g \in Gid
      BY <1>4, HeadHasGid DEF HandleRegister, Receive
    <2> HIDE DEF g
    <2>3. ASSUME NEW h \in Gid
          PROVE  /\ ref'[h] > 0 => ref'[h] + surplus'[h] = Cardinality(Registrants(h)')
                 /\ ref[h] > 0 => ref'[h] > 0
      <3>1. Registrants(h) \in SUBSET Client
        BY DEF Registrants
      <3>2. Registrants(h)' = IF h = g THEN Registrants(h) \cup {c} ELSE Registrants(h)
        BY <2>1, <2>2 DEF Registrants, TypeOK
      <3>3. /\ Cardinality(Registrants(h)) \in Nat
            /\ c \notin Registrants(h) =>
                 Cardinality(Registrants(h) \cup {c}) = Cardinality(Registrants(h)) + 1
        BY <3>1, ClientsCount, OneMore
      <3>4. ref'[h] = IF h = g /\ c \notin Registrants(h) /\ ref[h] > 0
                      THEN ref[h] + 1 ELSE ref[h]
        BY <2>1, <2>2 DEF Registrants, TypeOK
      <3>5. /\ ref[h] \in Nat /\ surplus'[h] = surplus[h] /\ surplus[h] \in Nat
            /\ ref[h] > 0 => ref[h] + surplus[h] = Cardinality(Registrants(h))
        BY <2>1 DEF TypeOK, Counted, RefsAreRegistrations
      <3>6. CASE h = g /\ c \notin Registrants(h)
        BY <3>2, <3>3, <3>4, <3>5, <3>6
      <3>7. CASE ~ (h = g /\ c \notin Registrants(h))
        <4>1. Registrants(h)' = Registrants(h)
          BY <3>2, <3>7
        <4> QED
          BY <3>4, <3>5, <3>7, <4>1
      <3> QED
        BY <3>6, <3>7
    <2>4. RefsAreRegistrations' /\ KeptAlive
      BY <2>3 DEF RefsAreRegistrations, KeptAlive, TypeOK
    <2>5. \A d \in Client : registered'[d] = IF d = c THEN registered[d] \cup {g}
                                             ELSE registered[d]
      BY <2>1 DEF TypeOK
    <2>6. RegistrationsKnown' /\ NoOrphans'
      BY <2>1, <2>5 DEF RegistrationsKnown, NoOrphans, Counted
    <2> QED
      BY <2>4, <2>6 DEF Counted
  <1>5. ASSUME NEW c \in Client, HandleUnRegister(c)
        PROVE  Counted' /\ KeptAlive
    <2> DEFINE g == Head(queue[c]).gid
    <2>1. /\ registered' = [registered EXCEPT ![c] = @ \ {g}]
          /\ ref' = IF g \in registered[c] THEN [ref EXCEPT ![g] = Less(@, 1)] ELSE ref
          /\ UNCHANGED <<known, surplus, status, serving>>
      BY <1>5 DEF HandleUnRegister, UnRegisterSI
    <2>2. g \in Gid
      BY <1>5, HeadHasGid DEF HandleUnRegister, Receive
    <2> HIDE DEF g
    <2>3. ASSUME NEW h \in Gid
          PROVE  /\ ref'[h] > 0 => ref'[h] + surplus'[h] = Cardinality(Registrants(h)')
                 /\ ref[h] > 0 /\ surplus[h] = 0 /\ ref'[h] = 0 => Registrants(h)' = {}
      <3>1. Registrants(h) \in SUBSET Client
        BY DEF Registrants
      <3>2. Registrants(h)' = IF h = g THEN Registrants(h) \ {c} ELSE Registrants(h)
        BY <2>1, <2>2 DEF Registrants, TypeOK
      <3>3. ref'[h] = IF h = g /\ c \in Registrants(h) THEN Less(ref[h], 1) ELSE ref[h]
        BY <2>1, <2>2 DEF Registrants, TypeOK
      <3>4. /\ ref[h] \in Nat /\ surplus'[h] = surplus[h] /\ surplus[h] \in Nat
            /\ ref[h] > 0 => ref[h] + surplus[h] = Cardinality(Registrants(h))
        BY <2>1 DEF TypeOK, Counted, RefsAreRegistrations
      <3>5. CASE h = g /\ c \in Registrants(h)
        <4>1. /\ Cardinality(Registrants(h)) \in Nat \ {0}
              /\ Cardinality(Registrants(h) \ {c}) = Cardinality(Registrants(h)) - 1
              /\ Cardinality(Registrants(h)) = 1 => Registrants(h) \ {c} = {}
          BY <3>1, <3>5, OneLess
        <4>2. Registrants(h)' = Registrants(h) \ {c} /\ ref'[h] = Less(ref[h], 1)
          BY <3>2, <3>3, <3>5
        <4> QED
          BY <3>4, <4>1, <4>2 DEF Less
      <3>6. CASE ~ (h = g /\ c \in Registrants(h))
        <4>1. Registrants(h)' = Registrants(h) /\ ref'[h] = ref[h]
          BY <3>2, <3>3, <3>6
        <4> QED
          BY <3>4, <4>1
      <3> QED
        BY <3>5, <3>6
    <2>4. RefsAreRegistrations' /\ KeptAlive
      BY <2>3 DEF RefsAreRegistrations, KeptAlive
    <2>5. \A d \in Client : registered'[d] \subseteq registered[d]
      BY <2>1 DEF TypeOK
    <2>6. RegistrationsKnown' /\ NoOrphans'
      BY <2>1, <2>5 DEF RegistrationsKnown, NoOrphans, Counted
    <2> QED
      BY <2>4, <2>6 DEF Counted
  <1>6. ASSUME NEW c \in Client, NEW op \in {"define", "update"}, HandlePush(c, op)
        PROVE  Counted' /\ KeptAlive
    <2> DEFINE g == Head(queue[c]).gid
               r == Created(g, op)
               s == surplus'
               cleaned == Cleaned(status)
    <2>1. /\ Receive(c, op)
          /\ s = IF op = "define" /\ ref[g] = 0
                 THEN [surplus EXCEPT ![g] = Cardinality(Registrants(g) \ {c})]
                 ELSE surplus
          /\ status' = cleaned /\ UNCHANGED <<known, serving>>
          /\ \/ cleaned = status /\ ref' = r /\ UNCHANGED registered
             \/ GarbageCollect(r, Controllers(cleaned))
      BY <1>6 DEF HandlePush
    <2>2. g \in Gid
      BY <2>1, HeadHasGid DEF Receive
    <2>3. op = "define" => c \in Registrants(g)
      <3> DEFINE q == queue[c]
      <3>1. q \in Seq(Message) /\ 1 \in 1 .. Len(q) /\ q[1] = Head(q) /\ q[1].op = op
        BY <2>1 DEF Receive, TypeOK
      <3>2. QueueOK(q, registered[c])
        BY DEF QInv, InOrder, Ordered
      <3> HIDE DEF q
      <3>3. op = "define" => RegAfter(q, registered[c], q[1].gid, 0)
        BY <3>1, <3>2 DEF QueueOK
      <3>4. op = "define" => q[1].gid \in registered[c]
        BY <3>3 DEF RegAfter
      <3> QED
        BY <3>1, <3>4 DEF Registrants, q
    <2>4. ASSUME NEW h \in Gid
          PROVE  /\ r[h] \in Nat /\ s[h] \in Nat
                 /\ r[h] > 0 => r[h] + s[h] = Cardinality(Registrants(h))
                 /\ ref[h] > 0 => r[h] = ref[h] /\ s[h] = surplus[h]
      <3>1. /\ ref[h] \in Nat /\ surplus[h] \in Nat
            /\ ref[h] > 0 => ref[h] + surplus[h] = Cardinality(Registrants(h))
        BY DEF TypeOK, Counted, RefsAreRegistrations
      <3> DEFINE new == h = g /\ op = "define" /\ ref[h] = 0
      <3>2. /\ r[h] = IF new THEN 1 ELSE ref[h]
            /\ s[h] = IF new THEN Cardinality(Registrants(h) \ {c}) ELSE surplus[h]
        BY <2>1, <2>2 DEF Created, TypeOK
      <3>3. CASE new
        <4>1. Registrants(h) \in SUBSET Client /\ c \in Registrants(h)
          BY <2>3, <3>3 DEF Registrants
        <4>2. /\ Cardinality(Registrants(h)) \in Nat \ {0}
              /\ Cardinality(Registrants(h) \ {c}) = Cardinality(Registrants(h)) - 1
          BY <4>1, OneLess
        <4>3. r[h] = 1 /\ s[h] = Cardinality(Registrants(h) \ {c}) /\ ref[h] = 0
          BY <3>2, <3>3
        <4> HIDE DEF r, s
        <4> QED
          BY <4>2, <4>3
      <3>4. CASE ~ new
        <4>1. r[h] = ref[h] /\ s[h] = surplus[h]
          BY <3>2, <3>4
        <4> QED
          BY <3>1, <4>1
      <3> QED
        BY <3>3, <3>4
    <2>5. r \in [Gid -> Nat] /\ s \in [Gid -> Nat]
      <3>1. TypeOK'
        BY StepKeepsTypes
      <3> QED
        BY <2>4, <3>1 DEF Created, TypeOK
    <2>6. c \in Controllers(status')
      BY <2>1 DEF Receive, Controllers, Connected, Cleaned
    <2>7. CASE cleaned = status /\ ref' = r /\ UNCHANGED registered
      <3>1. UNCHANGED <<registered, known, status, serving>> /\ ref' = r
        BY <2>1, <2>7
      <3>2. \A h : Registrants(h)' = Registrants(h)
        BY <3>1 DEF Registrants
      <3>3. RefsAreRegistrations' /\ KeptAlive
        BY <2>4, <3>1, <3>2 DEF RefsAreRegistrations, KeptAlive, TypeOK
      <3>4. RegistrationsKnown' /\ NoOrphans'
        BY <3>1 DEF RegistrationsKnown, NoOrphans, Counted
      <3> QED
        BY <3>3, <3>4 DEF Counted
    <2>8. CASE GarbageCollect(r, Controllers(cleaned))
      <3>1. GarbageCollect(r, Controllers(status')) /\ known' = known /\ surplus' = s
        BY <2>1, <2>8
      <3>2. Controllers(status') \in SUBSET Client
        BY DEF Controllers
      <3> HIDE DEF r, s
      <3> QED
        BY <2>4, <2>5, <2>6, <3>1, <3>2, CollectingStep
    <2> QED
      BY <2>1, <2>7, <2>8
  <1>7. ASSUME NEW c \in Client, HandlePull(c)
        PROVE  Counted' /\ KeptAlive
    <2>1. UNCHANGED <<serverVars, status, serving>>
      BY <1>7 DEF HandlePull
    <2> QED
      BY <2>1, QuietStep
  <1>8. ASSUME NEW c \in Client, HandleClose(c)
        PROVE  Counted' /\ KeptAlive
    <2> DEFINE st == [status EXCEPT ![c] = "gone"]
    <2>1. /\ ControllersChanged(st) /\ known' = known /\ surplus' = surplus
          /\ serving' = (Controllers(status') # {})
      BY <1>8 DEF HandleClose
    <2> HIDE DEF st
    <2> QED
      BY <2>1, ChangedStep
  <1>9. ASSUME NEW c \in Client, NotifyAllClients(c)
        PROVE  Counted' /\ KeptAlive
    <2>1. /\ GarbageCollect(ref, Controllers(status')) /\ known' = known
          /\ surplus' = surplus
      BY <1>9 DEF NotifyAllClients
    <2>2. /\ ref \in [Gid -> Nat] /\ surplus \in [Gid -> Nat]
          /\ \A g \in Gid : ref[g] > 0 => ref[g] + surplus[g] = Cardinality(Registrants(g))
      BY DEF TypeOK, Counted, RefsAreRegistrations
    <2>3. c \in Controllers(status') /\ Controllers(status') \in SUBSET Client
      BY <1>9 DEF NotifyAllClients, Controllers, Connected, Cleaned
    <2> QED
      BY <2>1, <2>2, <2>3, CollectingStep
  <1>10. CASE UNCHANGED vars
    <2>1. UNCHANGED <<serverVars, status, serving>>
      BY <1>10 DEF vars, serverVars
    <2> QED
      BY <2>1, QuietStep
  <1> QED
    BY <1>1, <1>2, <1>3, <1>4, <1>5, <1>6, <1>7, <1>8, <1>9, <1>10 DEF Next

-----------------------------------------------------------------------------
(* The theorems                                                            *)

\* The invariant holds at the start.
LEMMA InitIInv == Init => IInv
  <1> SUFFICES ASSUME Init
               PROVE  IInv
    OBVIOUS
  <1>1. TypeOK
    BY DEF Init, TypeOK, Status
  <1>2. QInv
    BY IdleOrdered DEF Init, QInv, InOrder
  <1>3. RegistrationsKnown /\ RefsAreRegistrations /\ NoOrphans
    BY DEF Init, RegistrationsKnown, RefsAreRegistrations, NoOrphans
  <1> QED
    BY <1>1, <1>2, <1>3 DEF IInv

\* The state a step starts from and the step give everything about the next.
LEMMA StepKeepsIInv == IInv /\ [Next]_vars => IInv' /\ KeptAlive
  BY StepKeepsTypes, StepKeepsQueues, StepKeepsCounts DEF IInv, Counted

\* Types, ordered queues and right counts hold in every reachable state.
THEOREM Inductive == Spec => []IInv
  <1>1. IInv /\ [Next]_vars => IInv'
    BY StepKeepsIInv
  <1> QED
    BY InitIInv, <1>1, PTL DEF Spec

\* Type correctness.
THEOREM TypeCorrect == Spec => []TypeOK
  BY Inductive, PTL DEF IInv

\* vtkPVSessionCore: while an object lives, its reference count is the number
\* of clients that registered it, less those that did before it was created.
THEOREM CountsAreRegistrations == Spec => []RefsAreRegistrations
  BY Inductive, PTL DEF IInv

\* GarbageCollectSIObject: no registration outlives the controller of its client.
THEOREM NothingIsOrphaned == Spec => []NoOrphans
  BY Inductive, PTL DEF IInv

\* UnRegisterSI: what a client unregisters is in ClientSIRegistrationMap.
THEOREM UnRegistersItsOwn == Spec => []OwnReferencesOnly
  <1>1. IInv => OwnReferencesOnly
    <2> SUFFICES ASSUME IInv, NEW c \in Client, queue[c] # <<>>,
                        Head(queue[c]).op = "unregister"
                 PROVE  Head(queue[c]).gid \in registered[c]
      BY DEF OwnReferencesOnly
    <2> DEFINE q == queue[c]
    <2>1. q \in Seq(Message) /\ 1 \in 1 .. Len(q) /\ q[1] = Head(q)
      BY DEF IInv, TypeOK
    <2>2. QueueOK(q, registered[c])
      BY DEF IInv, QInv, InOrder, Ordered
    <2> HIDE DEF q
    <2>3. q[1].op = "unregister"
      BY <2>1 DEF q
    <2>4. RegAfter(q, registered[c], q[1].gid, 0)
      BY <2>1, <2>2, <2>3 DEF QueueOK
    <2>5. q[1].gid \in registered[c]
      BY <2>4 DEF RegAfter
    <2> QED
      BY <2>1, <2>5 DEF q
  <1> QED
    BY Inductive, <1>1, PTL

\* UnRegisterSI and GarbageCollectSIObject: an object that no client registered
\* too early is deleted only when no client has it registered any more.
THEOREM UsedObjectsAreKept == Spec => UsedObjectsStayWithoutSurplus
  <1>1. IInv /\ [Next]_vars =>
          [\A g \in Gid :
             ref[g] > 0 /\ surplus[g] = 0 /\ ref'[g] = 0 => Registrants(g)' = {}]_vars
    BY StepKeepsIInv DEF KeptAlive
  <1> QED
    BY Inductive, <1>1, PTL DEF Spec, UsedObjectsStayWithoutSurplus

=============================================================================
