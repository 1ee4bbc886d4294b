------------------------- MODULE Collaboration_proofs -------------------------
(***************************************************************************)
(* Proofs about Collaboration, for every number of clients, names, settings *)
(* and cameras, and from every start.                                       *)
(*                                                                          *)
(* The steps of clients are of three kinds: a user acts, the server serves  *)
(* a message, a client loads one.  What a kind of step does is found once,  *)
(* and what it keeps is shown once for each of the invariants.              *)
(*                                                                          *)
(* There is a master while the server has its object: every departure is    *)
(* announced then, hence followed by an election.  An object that was lost  *)
(* comes back with a push.  If the list pushed is empty nobody is elected,  *)
(* but only a client that is about to pull pushes one.                      *)
(***************************************************************************)
EXTENDS Collaboration, FiniteSetTheorems, SequenceTheorems, TLAPS

-----------------------------------------------------------------------------
(* Clients                                                                 *)

\* There is a first one among clients that are connected: by the well-founded
\* ordering of finite sets, one that the fewest clients precede.
LEMMA FirstClient ==
  ASSUME NEW S, S \subseteq Client, S # {}
  PROVE  Min(S) \in S
<1> DEFINE Upto(x) == {y \in S : y <= x}
           T == {Upto(x) : x \in S}
           Less == StrictSubsetOrdering(S)
<1>1. S \subseteq Int /\ IsFiniteSet(S)
  <2>1. IsFiniteSet(Client)
    BY NClientsAssumption, FS_Interval DEF Client
  <2>2. S \subseteq Int
    BY NClientsAssumption DEF Client
  <2>3. QED
    BY <2>1, <2>2, FS_Subset
<1>2. T \subseteq FiniteSubsetsOf(S) /\ T # {}
  <2>1. \A x \in S : Upto(x) \in SUBSET S
    OBVIOUS
  <2>2. FiniteSubsetsOf(S) = SUBSET S
    BY <1>1, FS_FiniteSubsetsOfFinite
  <2> HIDE DEF Upto
  <2>3. QED
    BY <2>1, <2>2
<1>3. IsWellFoundedOn(Less, FiniteSubsetsOf(S))
  BY FS_StrictSubsetOrderingWellFounded
<1> HIDE DEF T, Less
<1>4. PICK X \in T : \A Y \in T : ~(<<Y, X>> \in Less)
  BY <1>2, <1>3, WFMin
<1> USE DEF T, Less
<1>5. PICK x \in S : X = Upto(x)
  OBVIOUS
<1>6. ASSUME NEW y \in S, y < x PROVE FALSE
  <2>1. Upto(y) \subseteq Upto(x) /\ x \in Upto(x) /\ x \notin Upto(y)
    <3>1. \A z \in S : z <= y => z <= x
      BY <1>1, <1>6
    <3>2. x <= x /\ ~(x <= y)
      BY <1>1, <1>6
    <3>3. QED
      BY <3>1, <3>2
  <2>2. <<Upto(y), X>> \in Less
    BY <1>5, <2>1 DEF StrictSubsetOrdering
  <2>3. QED
    BY <1>4, <2>2
<1>7. \A y \in S : x <= y
  BY <1>1, <1>6
<1>8. QED
  BY <1>7 DEF Min

\* Clients are numbers, and NULL is none of them.
LEMMA ClientsAreNotNull == NULL \notin Client
BY DEF NULL, Client

-----------------------------------------------------------------------------
(* The clients' copies                                                     *)

\* Lists as they are sent: every user has a name, and the flags are users'.
GoodList(list) ==
  /\ list \in Lists
  /\ \A u \in list.users : list.names[u] \in Name
  /\ list.master \in list.users \cup {NULL}
  /\ list.follow \in list.users \cup {NULL}

IsCopy(k) ==
  k \in [users : SUBSET Client, names : [Client -> Name \cup {Unnamed}],
         master : Client \cup {NULL}, follow : Client \cup {NULL, Stop},
         settings : BOOLEAN, state : Lists, cached : SUBSET Client,
         shown : Client \cup {NULL}]

\* Every user has a name; the message, if they have, is one to be sent, and is
\* not empty if the copy is not.
Complete(k) == \A u \in k.users : k.names[u] \in Name
Sendable(k) ==
  Complete(k) => GoodList(k.state) /\ (k.state.users = {} => k.users = {})

\* The camera of the user followed, if there is one, is shown.
Shows(k) == k.follow \in k.cached => k.shown = k.follow

\* Nobody receives cameras before following somebody.
Ready(k) == k.follow # NULL \/ k.cached = {}

\* What any change keeps of a copy.
Evolves(k, u) ==
  /\ IsCopy(u)
  /\ u.users = k.users /\ u.cached = k.cached
  /\ Sendable(k) => Sendable(u)
  /\ Ready(k) => Ready(u)
  /\ Ready(k) /\ Shows(k) => Shows(u)
  /\ k.follow # NULL => u.follow # NULL

\* The numbers that stand for nobody are no clients.
LEMMA Nobody == Stop \notin Client /\ NULL \notin Client /\ Stop # NULL
BY DEF Stop, NULL, Client

\* The message a copy is turned into.
LEMMA ListBuilt ==
  ASSUME NEW users \in SUBSET Client, NEW names \in [Client -> Name \cup {Unnamed}],
         NEW master, NEW follow, NEW settings \in BOOLEAN
  PROVE  LET l == UserList(users, names, master, follow, settings) IN
         /\ l \in Lists
         /\ l.users = users
         /\ l.master = Flagged(master, users) /\ l.follow = Flagged(follow, users)
         /\ l.settings = (users # {} /\ settings)
         /\ \A u \in users : l.names[u] = names[u]
         /\ (\A u \in users : names[u] \in Name) => GoodList(l)
<1> DEFINE l == UserList(users, names, master, follow, settings)
           shown == [u \in Client |-> IF u \in users THEN names[u] ELSE Unnamed]
<1>1. l = [users |-> users, names |-> shown, master |-> Flagged(master, users),
           follow |-> Flagged(follow, users), settings |-> (users # {} /\ settings)]
  BY DEF UserList
<1>2. shown \in [Client -> Name \cup {Unnamed}]
  OBVIOUS
<1>3. /\ Flagged(master, users) \in users \cup {NULL}
      /\ Flagged(follow, users) \in users \cup {NULL}
  BY DEF Flagged
<1>4. \A u \in users : shown[u] = names[u]
  OBVIOUS
<1>5. (users # {} /\ settings) \in BOOLEAN
  OBVIOUS
<1> HIDE DEF shown, l
<1>6. l \in Lists
  BY <1>1, <1>2, <1>3, <1>5 DEF Lists
<1> QED
  BY <1>1, <1>3, <1>4, <1>6 DEF GoodList, l

\* UpdateState.
LEMMA StateUpdated ==
  ASSUME NEW k, IsCopy(k), NEW f \in Client \cup {NULL, Stop}
  PROVE  LET u == UpdateState(k, f) IN
         /\ IsCopy(u) /\ Sendable(u)
         /\ u.users = k.users /\ u.names = k.names /\ u.master = k.master
         /\ u.settings = k.settings /\ u.cached = k.cached /\ u.shown = k.shown
         /\ u.follow = f
         /\ u.state = UserList(k.users, k.names, k.master, f, k.settings)
<1> DEFINE l == UserList(k.users, k.names, k.master, f, k.settings)
           u == UpdateState(k, f)
<1>1. l \in Lists /\ ((\A c \in k.users : k.names[c] \in Name) => GoodList(l))
  BY ListBuilt DEF IsCopy
<1>5. l.users = k.users
  BY DEF UserList
<1>2. u = [k EXCEPT !.follow = f, !.state = l]
  BY DEF UpdateState
<1> HIDE DEF l, u
<1>3. /\ u.users = k.users /\ u.names = k.names /\ u.master = k.master
      /\ u.settings = k.settings /\ u.cached = k.cached /\ u.shown = k.shown
      /\ u.follow = f /\ u.state = l /\ IsCopy(u)
  BY <1>1, <1>2 DEF IsCopy
<1>4. Sendable(u)
  BY <1>1, <1>3, <1>5 DEF Sendable, Complete
<1> QED
  BY <1>3, <1>4 DEF l, u

\* FollowUser: the camera of the one followed is shown if there is one.
LEMMA Following ==
  ASSUME NEW k, IsCopy(k), NEW me, NEW id \in Client \cup {Stop}
  PROVE  LET u == FollowUser(k, me, id) IN
         /\ Evolves(k, u)
         /\ u.names = k.names /\ u.master = k.master /\ u.settings = k.settings
         /\ u.follow = id
         /\ u.shown = k.shown \/ u.shown = id
         /\ id \notin k.cached => u.shown = k.shown
         /\ \/ u.state = k.state /\ (k.master # me \/ k.follow = id)
            \/ u.state = UserList(k.users, k.names, k.master, id, k.settings)
<1> DEFINE u == FollowUser(k, me, id)
           s == UpdateState(k, id)
           chosen == IF k.master = me THEN s ELSE [k EXCEPT !.follow = id]
<1>1. /\ IsCopy(s) /\ Sendable(s)
      /\ s.users = k.users /\ s.names = k.names /\ s.master = k.master
      /\ s.settings = k.settings /\ s.cached = k.cached /\ s.shown = k.shown
      /\ s.follow = id
      /\ s.state = UserList(k.users, k.names, k.master, id, k.settings)
  BY StateUpdated
<1>2. id # NULL
  BY Nobody
<1>7. u = IF k.follow = id THEN k
          ELSE IF id \in k.cached THEN [chosen EXCEPT !.shown = id]
          ELSE chosen
  BY DEF FollowUser
<1> HIDE DEF s, u
<1>3. /\ IsCopy(chosen) /\ (Sendable(k) => Sendable(chosen))
      /\ chosen.users = k.users /\ chosen.names = k.names
      /\ chosen.master = k.master /\ chosen.settings = k.settings
      /\ chosen.cached = k.cached /\ chosen.shown = k.shown
      /\ chosen.follow = id
      /\ \/ chosen.state = k.state /\ k.master # me
         \/ chosen.state = UserList(k.users, k.names, k.master, id, k.settings)
  <2>1. CASE k.master = me
    BY <1>1, <2>1
  <2>2. CASE k.master # me
    <3>1. chosen = [k EXCEPT !.follow = id]
      BY <2>2
    <3> HIDE DEF chosen
    <3>2. /\ IsCopy(chosen) /\ chosen.users = k.users /\ chosen.names = k.names
          /\ chosen.master = k.master /\ chosen.settings = k.settings
          /\ chosen.cached = k.cached /\ chosen.shown = k.shown
          /\ chosen.follow = id /\ chosen.state = k.state
      BY <3>1 DEF IsCopy
    <3> QED
      BY <2>2, <3>2 DEF Sendable, Complete
  <2> QED
    BY <2>1, <2>2
<1>4. CASE k.follow = id
  <2>1. u = k
    BY <1>4, <1>7
  <2> HIDE DEF chosen
  <2> QED
    BY <1>4, <2>1 DEF Evolves, u
<1>5. CASE k.follow # id /\ id \in k.cached
  <2>1. u = [chosen EXCEPT !.shown = id]
    BY <1>5, <1>7
  <2>2. id \in Client
    BY <1>5 DEF IsCopy
  <2> HIDE DEF chosen
  <2>3. /\ IsCopy(u) /\ u.users = k.users /\ u.names = k.names
        /\ u.master = k.master /\ u.settings = k.settings
        /\ u.cached = k.cached /\ u.shown = id
        /\ u.follow = id /\ u.state = chosen.state
    BY <1>3, <2>1, <2>2 DEF IsCopy
  <2>4. Sendable(k) => Sendable(u)
    BY <1>3, <2>3 DEF Sendable, Complete
  <2>5. Evolves(k, u)
    BY <1>2, <2>3, <2>4 DEF Evolves, Ready, Shows
  <2> QED
    BY <1>3, <1>5, <2>3, <2>5 DEF u
<1>6. CASE k.follow # id /\ id \notin k.cached
  <2>1. u = chosen
    BY <1>6, <1>7
  <2> HIDE DEF chosen
  <2>2. Evolves(k, u)
    BY <1>2, <1>3, <1>6, <2>1 DEF Evolves, Ready, Shows
  <2> QED
    BY <1>3, <1>6, <2>1, <2>2 DEF u
<1> QED
  BY <1>4, <1>5, <1>6

\* The message says what the copy says, but for whom its user follows.
Current(u) ==
  \E f : u.state = UserList(u.users, u.names, u.master, f, u.settings)

Matches(list, k) ==
  /\ list.users = k.users
  /\ list.master = k.master /\ list.settings = k.settings
  /\ \A c \in k.users : list.names[c] = k.names[c]

\* A message that was rebuilt matches the copy, if its master is in its list.
LEMMA CurrentMatches ==
  ASSUME NEW u, IsCopy(u), Current(u), u.master \in u.users
  PROVE  Matches(u.state, u)
<1>1. PICK f : u.state = UserList(u.users, u.names, u.master, f, u.settings)
  BY DEF Current
<1>2. u.users # {} /\ Flagged(u.master, u.users) = u.master
  BY DEF Flagged
<1>4. u.settings \in BOOLEAN
  BY DEF IsCopy
<1>3. /\ u.users \in SUBSET Client /\ u.names \in [Client -> Name \cup {Unnamed}]
  BY DEF IsCopy
<1> DEFINE l == UserList(u.users, u.names, u.master, f, u.settings)
<1>5. /\ l.users = u.users /\ l.master = Flagged(u.master, u.users)
      /\ l.settings = (u.users # {} /\ u.settings)
      /\ \A c \in u.users : l.names[c] = u.names[c]
  BY <1>3 DEF UserList
<1> HIDE DEF l
<1>6. l.settings = u.settings
  BY <1>2, <1>4, <1>5
<1>7. u.state = l
  BY <1>1 DEF l
<1> QED
  BY <1>2, <1>5, <1>6, <1>7 DEF Matches

\* Whom the copy and its message name as master or as followed.
Within(k, S) ==
  /\ NULL \in S
  /\ k.master \in S /\ k.follow \in S
  /\ k.state.master \in S /\ k.state.follow \in S

\* A message names whom the copy names, or nobody.
LEMMA FlagsWithin ==
  ASSUME NEW S, NULL \in S, NEW users \in SUBSET Client,
         NEW names \in [Client -> Name \cup {Unnamed}], NEW master \in S,
         NEW follow \in S, NEW settings \in BOOLEAN
  PROVE  /\ UserList(users, names, master, follow, settings).master \in S
         /\ UserList(users, names, master, follow, settings).follow \in S
<1> DEFINE l == UserList(users, names, master, follow, settings)
<1>1. l.master = Flagged(master, users) /\ l.follow = Flagged(follow, users)
  BY DEF UserList
<1> HIDE DEF l
<1>2. Flagged(master, users) \in S /\ Flagged(follow, users) \in S
  BY DEF Flagged
<1> QED
  BY <1>1, <1>2 DEF l

\* UpdateMaster: the new master is followed.
LEMMA MakingMaster ==
  ASSUME NEW k, IsCopy(k), NEW me, NEW id \in Client
  PROVE  LET u == UpdateMaster(k, me, id) IN
         /\ Evolves(k, u)
         /\ u.names = k.names /\ u.settings = k.settings /\ u.master = id
         /\ IF k.master = id THEN u = k ELSE u.follow = id /\ Current(u)
         /\ id \notin k.cached => u.shown = k.shown
         /\ \A S : Within(k, S) /\ id \in S => Within(u, S)
<1> DEFINE u == UpdateMaster(k, me, id)
           first == IF k.follow = NULL THEN id ELSE k.follow
           m == [k EXCEPT !.master = id]
           s == UpdateState(m, first)
<1>1. CASE k.master = id
  <2>1. u = k
    BY <1>1 DEF UpdateMaster
  <2>2. Evolves(k, k)
    BY DEF Evolves
  <2> HIDE DEF u
  <2> QED
    BY <1>1, <2>1, <2>2 DEF u
<1>2. CASE k.master # id
  <2>1. u = FollowUser(s, me, id)
    BY <1>2 DEF UpdateMaster
  <2>2. /\ IsCopy(m) /\ m.users = k.users /\ m.names = k.names /\ m.master = id
        /\ m.settings = k.settings /\ m.cached = k.cached /\ m.shown = k.shown
    BY DEF IsCopy
  <2>3. first \in Client \cup {NULL, Stop} /\ first # NULL
    BY Nobody DEF IsCopy
  <2>4. k.follow # NULL => first = k.follow
    OBVIOUS
  <2>5. first = k.follow \/ first = id
    OBVIOUS
  <2> HIDE DEF m, first
  <2>6. /\ IsCopy(s) /\ Sendable(s)
        /\ s.users = k.users /\ s.names = k.names /\ s.master = id
        /\ s.settings = k.settings /\ s.cached = k.cached /\ s.shown = k.shown
        /\ s.follow = first
        /\ s.state = UserList(k.users, k.names, id, first, k.settings)
    BY <2>2, <2>3, StateUpdated
  <2> HIDE DEF s
  <2>7. /\ Evolves(s, u)
        /\ u.names = s.names /\ u.master = s.master /\ u.settings = s.settings
        /\ u.follow = id
        /\ id \notin s.cached => u.shown = s.shown
        /\ \/ u.state = s.state
           \/ u.state = UserList(s.users, s.names, s.master, id, s.settings)
    BY <2>1, <2>6, Following
  <2> HIDE DEF u
  <2>8. Ready(k) /\ Shows(k) => Shows(s)
    BY <2>3, <2>4, <2>6 DEF Ready, Shows
  <2>9. Ready(s)
    BY <2>3, <2>6 DEF Ready
  <2>10. id # NULL
    BY Nobody
  <2>11. Evolves(k, u)
    BY <2>6, <2>7, <2>8, <2>9, <2>10 DEF Evolves, Ready
  <2>12. Current(u)
    BY <2>6, <2>7 DEF Current, Evolves
  <2>13. ASSUME NEW S, Within(k, S), id \in S PROVE Within(u, S)
    <3>1. NULL \in S /\ first \in S
      BY <2>5, <2>13 DEF Within
    <3>2. /\ k.users \in SUBSET Client /\ k.names \in [Client -> Name \cup {Unnamed}]
          /\ k.settings \in BOOLEAN
      BY DEF IsCopy
    <3>3. s.state.master \in S /\ s.state.follow \in S
      BY <2>6, <2>13, <3>1, <3>2, FlagsWithin
    <3>4. /\ UserList(k.users, k.names, id, id, k.settings).master \in S
          /\ UserList(k.users, k.names, id, id, k.settings).follow \in S
      BY <2>13, <3>1, <3>2, FlagsWithin
    <3>5. u.state.master \in S /\ u.state.follow \in S
      BY <2>6, <2>7, <3>3, <3>4
    <3> QED
      BY <2>6, <2>7, <2>13, <3>1, <3>5 DEF Within
  <2> QED
    BY <1>2, <2>6, <2>7, <2>11, <2>12, <2>13 DEF u
<1> QED
  BY <1>1, <1>2

\* FollowUser names nobody else.
LEMMA FollowingWithin ==
  ASSUME NEW k, IsCopy(k), NEW me, NEW id \in Client \cup {Stop}, NEW S,
         Within(k, S), id \in S
  PROVE  Within(FollowUser(k, me, id), S)
<1> DEFINE u == FollowUser(k, me, id)
<1>1. /\ u.master = k.master /\ u.follow = id
      /\ \/ u.state = k.state
         \/ u.state = UserList(k.users, k.names, k.master, id, k.settings)
  BY Following
<1> HIDE DEF u
<1>2. /\ k.users \in SUBSET Client /\ k.names \in [Client -> Name \cup {Unnamed}]
      /\ k.settings \in BOOLEAN /\ k.master \in S /\ NULL \in S
  BY DEF IsCopy, Within
<1>3. u.state.master \in S /\ u.state.follow \in S
  BY <1>1, <1>2, FlagsWithin DEF Within
<1> QED
  BY <1>1, <1>2, <1>3 DEF Within, u

\* UpdateUserName.
LEMMA Naming ==
  ASSUME NEW k, IsCopy(k), NEW id \in Client, NEW name \in Name \cup {Unnamed}
  PROVE  LET u == UpdateUserName(k, id, name) IN
         /\ Evolves(k, u)
         /\ u.names = [k.names EXCEPT ![id] = name]
         /\ u.master = k.master /\ u.settings = k.settings
         /\ u.follow = k.follow /\ u.shown = k.shown
         /\ IF k.names[id] = name THEN u = k ELSE Current(u)
         /\ \A S : Within(k, S) => Within(u, S)
<1> DEFINE u == UpdateUserName(k, id, name)
           m == [k EXCEPT !.names[id] = name]
           names == [k.names EXCEPT ![id] = name]
<1>1. k.names \in [Client -> Name \cup {Unnamed}] /\ names \in [Client -> Name \cup {Unnamed}]
  BY DEF IsCopy
<1>2. CASE k.names[id] = name
  <2>1. u = k /\ names = k.names
    BY <1>1, <1>2 DEF UpdateUserName
  <2>2. Evolves(k, k)
    BY DEF Evolves
  <2> HIDE DEF u, names
  <2> QED
    BY <1>2, <2>1, <2>2 DEF u, names
<1>3. CASE k.names[id] # name
  <2>1. u = UpdateState(m, k.follow)
    BY <1>3 DEF UpdateUserName
  <2>2. m = [k EXCEPT !.names = names]
    BY <1>1 DEF IsCopy
  <2> HIDE DEF m, names
  <2>3. /\ IsCopy(m) /\ m.users = k.users /\ m.names = names /\ m.master = k.master
        /\ m.settings = k.settings /\ m.cached = k.cached /\ m.shown = k.shown
        /\ k.follow \in Client \cup {NULL, Stop}
    BY <1>1, <2>2 DEF IsCopy
  <2>4. /\ IsCopy(u) /\ Sendable(u)
        /\ u.users = k.users /\ u.names = names /\ u.master = k.master
        /\ u.settings = k.settings /\ u.cached = k.cached /\ u.shown = k.shown
        /\ u.follow = k.follow
        /\ u.state = UserList(k.users, names, k.master, k.follow, k.settings)
    BY <2>1, <2>3, StateUpdated
  <2> HIDE DEF u
  <2>5. Evolves(k, u)
    BY <2>4 DEF Evolves, Ready, Shows
  <2>6. Current(u)
    BY <2>4 DEF Current
  <2>7. ASSUME NEW S, Within(k, S) PROVE Within(u, S)
    <3>1. /\ k.users \in SUBSET Client /\ k.settings \in BOOLEAN
          /\ k.master \in S /\ k.follow \in S /\ NULL \in S
      BY <2>7 DEF IsCopy, Within
    <3>2. u.state.master \in S /\ u.state.follow \in S
      BY <1>1, <2>4, <3>1, FlagsWithin
    <3> QED
      BY <2>4, <3>1, <3>2 DEF Within
  <2> QED
    BY <1>3, <2>4, <2>5, <2>6, <2>7 DEF u, names
<1> QED
  BY <1>2, <1>3

\* UpdateSettings.
LEMMA Setting ==
  ASSUME NEW k, IsCopy(k), NEW settings \in BOOLEAN
  PROVE  LET u == UpdateSettings(k, settings) IN
         /\ Evolves(k, u)
         /\ u.names = k.names /\ u.master = k.master /\ u.settings = settings
         /\ u.follow = k.follow \/ (k.follow = NULL /\ u.follow = k.master)
         /\ u.shown = k.shown
         /\ IF k.settings = settings THEN u = k ELSE Current(u)
         /\ \A S : Within(k, S) => Within(u, S)
<1> DEFINE u == UpdateSettings(k, settings)
           m == [k EXCEPT !.settings = settings]
           f == IF k.follow = NULL THEN k.master ELSE k.follow
<1>1. CASE k.settings = settings
  <2>1. u = k
    BY <1>1 DEF UpdateSettings
  <2>2. Evolves(k, k)
    BY DEF Evolves
  <2> HIDE DEF u
  <2> QED
    BY <1>1, <2>1, <2>2 DEF u
<1>2. CASE k.settings # settings
  <2>1. u = UpdateState(m, f)
    BY <1>2 DEF UpdateSettings
  <2>2. /\ IsCopy(m) /\ m.users = k.users /\ m.names = k.names /\ m.master = k.master
        /\ m.settings = settings /\ m.cached = k.cached /\ m.shown = k.shown
    BY DEF IsCopy
  <2>3. f \in Client \cup {NULL, Stop}
    BY DEF IsCopy
  <2>4. f = k.follow \/ (k.follow = NULL /\ f = k.master)
    OBVIOUS
  <2> HIDE DEF m, f
  <2>5. /\ IsCopy(u) /\ Sendable(u)
        /\ u.users = k.users /\ u.names = k.names /\ u.master = k.master
        /\ u.settings = settings /\ u.cached = k.cached /\ u.shown = k.shown
        /\ u.follow = f
        /\ u.state = UserList(k.users, k.names, k.master, f, settings)
    BY <2>1, <2>2, <2>3, StateUpdated
  <2> HIDE DEF u
  <2>6. Evolves(k, u)
    BY <2>4, <2>5 DEF Evolves, Ready, Shows
  <2>7. Current(u)
    BY <2>5 DEF Current
  <2>8. ASSUME NEW S, Within(k, S) PROVE Within(u, S)
    <3>1. /\ k.users \in SUBSET Client /\ k.names \in [Client -> Name \cup {Unnamed}]
          /\ k.master \in S /\ f \in S /\ NULL \in S
      BY <2>4, <2>8 DEF IsCopy, Within
    <3>2. u.state.master \in S /\ u.state.follow \in S
      BY <2>5, <3>1, FlagsWithin
    <3> QED
      BY <2>5, <3>1, <3>2 DEF Within
  <2> QED
    BY <1>2, <2>4, <2>5, <2>6, <2>7, <2>8 DEF u
<1> QED
  BY <1>1, <1>2

-----------------------------------------------------------------------------
(* Loading a list                                                          *)

\* One entry: its name is taken, its flags make a master and somebody to
\* follow.
Loaded(k, list, id, u) ==
  /\ Evolves(k, u)
  /\ u.names = [k.names EXCEPT ![id] = list.names[id]]
  /\ u.master = IF id = list.master THEN id ELSE k.master
  /\ u.settings = list.settings
  /\ id = list.follow => u.follow = id
  /\ id = list.master /\ k.master # id => u.follow # NULL
  /\ k.follow = k.master /\ list.follow \in {NULL, list.master} =>
       u.follow = u.master
  /\ id # list.follow /\ (id # list.master \/ id = k.master \/ id \notin k.cached) =>
       u.shown = k.shown
  /\ \A S : Within(k, S) /\ list.master \in S /\ list.follow \in S => Within(u, S)

\* LoadUser does so.
LEMMA LoadingUser ==
  ASSUME NEW k, IsCopy(k), NEW me, NEW list, GoodList(list), NEW id \in list.users
  PROVE  Loaded(k, list, id, LoadUser(k, me, list, id))
<1> DEFINE a == UpdateUserName(k, id, list.names[id])
           b == IF id = list.master THEN UpdateMaster(a, me, id) ELSE a
           d == UpdateSettings(b, list.settings)
           u == IF id = list.follow THEN FollowUser(d, me, id) ELSE d
<1>1. u = LoadUser(k, me, list, id)
  BY DEF LoadUser
<1>2. /\ id \in Client /\ list.names[id] \in Name \cup {Unnamed}
      /\ list.settings \in BOOLEAN /\ id # NULL
  BY Nobody DEF GoodList, Lists
<1>3. /\ Evolves(k, a) /\ IsCopy(a)
      /\ a.names = [k.names EXCEPT ![id] = list.names[id]]
      /\ a.master = k.master /\ a.follow = k.follow /\ a.shown = k.shown
      /\ \A S : Within(k, S) => Within(a, S)
  BY <1>2, Naming DEF Evolves
<1> HIDE DEF a
<1>4. /\ Evolves(a, b) /\ IsCopy(b) /\ b.names = a.names
      /\ b.master = IF id = list.master THEN id ELSE a.master
      /\ (id # list.master \/ a.master = id) => b = a
      /\ id = list.master /\ a.master # id => b.follow = id
      /\ id \notin a.cached => b.shown = a.shown
      /\ \A S : Within(a, S) /\ list.master \in S => Within(b, S)
  <2>1. CASE id = list.master
    <3> DEFINE m == UpdateMaster(a, me, id)
    <3>1. /\ Evolves(a, m) /\ m.names = a.names /\ m.master = id
          /\ IF a.master = id THEN m = a ELSE m.follow = id
          /\ id \notin a.cached => m.shown = a.shown
          /\ \A S : Within(a, S) /\ id \in S => Within(m, S)
      BY <1>2, <1>3, MakingMaster
    <3> HIDE DEF m
    <3>2. b = m
      BY <2>1 DEF m
    <3> QED
      BY <2>1, <3>1, <3>2 DEF Evolves
  <2>2. CASE id # list.master
    <3>1. b = a /\ Evolves(a, a)
      BY <1>3, <2>2 DEF Evolves
    <3> QED
      BY <1>3, <2>2, <3>1
  <2> QED
    BY <2>1, <2>2
<1> HIDE DEF b
<1>5. /\ Evolves(b, d) /\ IsCopy(d)
      /\ d.names = b.names /\ d.master = b.master /\ d.settings = list.settings
      /\ d.follow = b.follow \/ (b.follow = NULL /\ d.follow = b.master)
      /\ d.shown = b.shown
      /\ \A S : Within(b, S) => Within(d, S)
  BY <1>2, <1>4, Setting DEF Evolves
<1> HIDE DEF d
<1>6. /\ Evolves(d, u) /\ u.names = d.names /\ u.master = d.master
      /\ u.settings = d.settings
      /\ u.follow = IF id = list.follow THEN id ELSE d.follow
      /\ id # list.follow => u.shown = d.shown
      /\ \A S : Within(d, S) /\ list.follow \in S => Within(u, S)
  <2>1. CASE id = list.follow
    <3> DEFINE f == FollowUser(d, me, id)
    <3>1. /\ Evolves(d, f) /\ f.names = d.names /\ f.master = d.master
          /\ f.settings = d.settings /\ f.follow = id
      BY <1>2, <1>5, Following
    <3>2. \A S : Within(d, S) /\ id \in S => Within(f, S)
      BY <1>2, <1>5, FollowingWithin
    <3> HIDE DEF f
    <3>3. u = f
      BY <2>1 DEF f
    <3> QED
      BY <2>1, <3>1, <3>2, <3>3
  <2>2. CASE id # list.follow
    <3>1. u = d /\ Evolves(d, d)
      BY <1>5, <2>2 DEF Evolves
    <3> QED
      BY <2>2, <3>1
  <2> QED
    BY <2>1, <2>2
<1> HIDE DEF u
<1>7. Evolves(k, u)
  BY <1>3, <1>4, <1>5, <1>6 DEF Evolves
<1>8. /\ u.names = [k.names EXCEPT ![id] = list.names[id]]
      /\ u.master = IF id = list.master THEN id ELSE k.master
      /\ u.settings = list.settings
      /\ id = list.follow => u.follow = id
  BY <1>3, <1>4, <1>5, <1>6
<1>9. id = list.master /\ k.master # id => u.follow # NULL
  BY <1>2, <1>3, <1>4, <1>5, <1>6
<1>10. k.follow = k.master /\ list.follow \in {NULL, list.master} =>
         u.follow = u.master
  <2> SUFFICES ASSUME k.follow = k.master, list.follow \in {NULL, list.master}
               PROVE  u.follow = u.master
    OBVIOUS
  <2>1. b.follow = b.master
    BY <1>3, <1>4
  <2>2. d.follow = d.master
    BY <1>5, <2>1
  <2>3. CASE id = list.follow
    BY <1>2, <1>4, <1>5, <1>6, <2>3
  <2>4. CASE id # list.follow
    BY <1>6, <2>2, <2>4
  <2> QED
    BY <2>3, <2>4
<1>11. id # list.follow /\ (id # list.master \/ id = k.master \/ id \notin k.cached) =>
         u.shown = k.shown
  <2>1. a.cached = k.cached
    BY <1>3 DEF Evolves
  <2> QED
    BY <1>3, <1>4, <1>5, <1>6, <2>1
<1>12. \A S : Within(k, S) /\ list.master \in S /\ list.follow \in S => Within(u, S)
  BY <1>3, <1>4, <1>5, <1>6
<1> QED
  BY <1>1, <1>7, <1>8, <1>9, <1>10, <1>11, <1>12 DEF Loaded

\* What holds of 0, and of every number after one of which it holds, holds of
\* all up to n: stated for the set of those of which it does not.
LEMMA NoLeastExample ==
  ASSUME NEW n \in Nat, NEW S \in SUBSET (0 .. n), 0 \notin S,
         \A i \in 1 .. n : i \in S => i - 1 \in S
  PROVE  S = {}
<1> SUFFICES ASSUME S # {} PROVE FALSE
  OBVIOUS
<1> DEFINE Less == OpToRel(<, Nat)
<1>1. IsWellFoundedOn(Less, Nat)
  BY NatLessThanWellFounded
<1>2. S \subseteq Nat
  OBVIOUS
<1>3. \A x, y \in Nat : y < x => <<y, x>> \in Less
  BY DEF OpToRel
<1> HIDE DEF Less
<1>4. PICK i \in S : \A j \in S : ~(<<j, i>> \in Less)
  BY <1>1, <1>2, WFMin
<1>5. i \in 1 .. n /\ i - 1 \in S
  BY <1>2
<1>6. i - 1 < i /\ i - 1 \in Nat /\ i \in Nat
  BY <1>5
<1> QED
  BY <1>3, <1>4, <1>5, <1>6

\* One turn of the loop of LoadState.
Turn(k, me, list, f, n) ==
  IF n = 0 THEN k
  ELSE IF n \in list.users THEN LoadUser(f[n - 1], me, list, n)
  ELSE f[n - 1]

\* The loop has its turns, and LoadUsers is what is there after the last.
LEMMA LoopRuns ==
  ASSUME NEW k, NEW me, NEW list
  PROVE  \E f : /\ f = [i \in 0 .. NClients |-> Turn(k, me, list, f, i)]
                /\ LoadUsers(k, me, list) = f[NClients]
<1> DEFINE N == NClients
           Run(n) == \E f : f = [i \in 0 .. n |-> Turn(k, me, list, f, i)]
           S == {n \in 0 .. N : ~Run(n)}
<1>1. N \in Nat
  BY NClientsAssumption
<1>2. Run(0)
  <2> DEFINE f == [i \in 0 .. 0 |-> k]
  <2>1. f = [i \in 0 .. 0 |-> Turn(k, me, list, f, i)]
    BY DEF Turn
  <2> QED
    BY <2>1
<1>3. ASSUME NEW n \in 1 .. N, Run(n - 1) PROVE Run(n)
  <2>1. PICK f : f = [i \in 0 .. n - 1 |-> Turn(k, me, list, f, i)]
    BY <1>3
  <2> DEFINE g == [i \in 0 .. n |-> IF i < n THEN f[i] ELSE Turn(k, me, list, f, n)]
  <2>2. ASSUME NEW i \in 0 .. n PROVE g[i] = Turn(k, me, list, g, i)
    <3>1. CASE i = 0
      <4>1. 0 < n /\ 0 \in 0 .. n - 1 /\ 0 \in 0 .. n
        BY <1>1
      <4>2. g[0] = f[0] /\ f[0] = Turn(k, me, list, f, 0)
        BY <2>1, <4>1
      <4> QED
        BY <3>1, <4>2 DEF Turn
    <3>2. CASE i # 0
      <4>1. i - 1 \in 0 .. n /\ i - 1 < n
        BY <1>1, <3>2
      <4>2. g[i - 1] = f[i - 1]
        BY <4>1
      <4>3. g[i] = Turn(k, me, list, f, i)
        <5>1. CASE i < n
          <6>1. i \in 0 .. n - 1
            BY <1>1, <5>1
          <6> QED
            BY <2>1, <5>1, <6>1
        <5>2. CASE ~(i < n)
          <6>1. i = n
            BY <1>1, <5>2
          <6> QED
            BY <5>2, <6>1
        <5> QED
          BY <5>1, <5>2
      <4> HIDE DEF g
      <4> QED
        BY <3>2, <4>2, <4>3 DEF Turn
    <3> QED
      BY <3>1, <3>2
  <2>3. g = [i \in 0 .. n |-> g[i]]
    OBVIOUS
  <2> HIDE DEF g
  <2>4. g = [i \in 0 .. n |-> Turn(k, me, list, g, i)]
    BY <2>2, <2>3
  <2> QED
    BY <2>4
<1>4. S = {}
  <2>1. \A n \in 1 .. N : n \in S => n - 1 \in S
    BY <1>1, <1>3
  <2>2. 0 \notin S /\ S \in SUBSET (0 .. N)
    BY <1>2
  <2> HIDE DEF S
  <2> QED
    BY <1>1, <2>1, <2>2, NoLeastExample
<1>5. Run(N)
  <2>1. N \in 0 .. N
    BY <1>1
  <2> QED
    BY <1>4, <2>1
<1> DEFINE h == CHOOSE f : f = [i \in 0 .. N |-> Turn(k, me, list, f, i)]
<1>6. h = [i \in 0 .. N |-> Turn(k, me, list, h, i)]
  BY <1>5
<1>7. LoadUsers(k, me, list) = h[N]
  BY DEF LoadUsers, Turn
<1> QED
  BY <1>6, <1>7

\* What the loop has done to a copy k when it has been through the entries of
\* users 1 to n.
Sofar(k, list, n, u) ==
  /\ IsCopy(u) /\ u.users = k.users /\ u.cached = k.cached
  /\ Sendable(u)
  /\ \A c \in Client :
       u.names[c] = IF c \in list.users /\ c <= n THEN list.names[c] ELSE k.names[c]
  /\ u.master = IF list.master # NULL /\ list.master <= n THEN list.master
                ELSE k.master
  /\ (\E c \in list.users : c <= n) => u.settings = list.settings
  /\ Ready(k) => Ready(u)
  /\ k.follow # NULL => u.follow # NULL
  /\ Ready(k) /\ Shows(k) => Shows(u)
  /\ (/\ list.master # NULL /\ list.master <= n
      /\ k.master # list.master) => u.follow # NULL
  /\ k.follow = k.master /\ list.follow \in {NULL, list.master} =>
       u.follow = u.master
  /\ (/\ list.follow # NULL /\ list.follow <= n /\ list.follow \in k.cached
      /\ list.master \in {NULL, k.master} \/ list.master \notin k.cached
      /\ Ready(k) /\ Shows(k)) => u.shown = list.follow
  /\ \A S : Within(k, S) /\ list.master \in S /\ list.follow \in S => Within(u, S)

\* One more entry.
LEMMA SofarOn ==
  ASSUME NEW k, IsCopy(k), NEW me, NEW list, GoodList(list),
         NEW n \in 1 .. NClients, NEW u, Sofar(k, list, n - 1, u)
  PROVE  Sofar(k, list, n, IF n \in list.users THEN LoadUser(u, me, list, n) ELSE u)
<1> DEFINE v == IF n \in list.users THEN LoadUser(u, me, list, n) ELSE u
<1>1. /\ n \in Client /\ n # NULL /\ NClients \in Nat
      /\ list.users \subseteq Client
      /\ list.master \in Client \cup {NULL} /\ list.follow \in Client \cup {NULL}
      /\ list.master # NULL => list.master \in list.users
      /\ list.follow # NULL => list.follow \in list.users
      /\ NULL \notin Client
  BY NClientsAssumption, Nobody DEF GoodList, Lists, Client
<1>2. \A c \in Client : c <= n <=> (c <= n - 1 \/ c = n)
  BY <1>1 DEF Client
<1>3. ~(n <= n - 1)
  BY <1>1
<1>4. CASE n \notin list.users
  <2>1. v = u
    BY <1>4
  <2>2. list.master # n /\ list.follow # n
    BY <1>1, <1>4
  <2>3. \A c \in list.users : c <= n <=> c <= n - 1
    BY <1>1, <1>2, <1>4
  <2>4. list.master # NULL => (list.master <= n <=> list.master <= n - 1)
    BY <1>1, <2>3
  <2>5. list.follow # NULL => (list.follow <= n <=> list.follow <= n - 1)
    BY <1>1, <2>3
  <2> HIDE DEF v
  <2>6. Sofar(k, list, n, u)
    BY <1>1, <2>3, <2>4, <2>5 DEF Sofar
  <2> QED
    BY <2>1, <2>6 DEF v
<1>5. CASE n \in list.users
  <2>1. v = LoadUser(u, me, list, n)
    BY <1>5
  <2>2. Loaded(u, list, n, v)
    <3>1. IsCopy(u)
      BY DEF Sofar
    <3> QED
      BY <1>5, <2>1, <3>1, LoadingUser
  <2> HIDE DEF v
  <2>3. /\ IsCopy(v) /\ v.users = k.users /\ v.cached = k.cached /\ Sendable(v)
        /\ Ready(k) => Ready(v)
        /\ k.follow # NULL => v.follow # NULL
        /\ Ready(k) /\ Shows(k) => Shows(v)
    BY <2>2 DEF Sofar, Loaded, Evolves
  <2>4. ASSUME NEW c \in Client
        PROVE  v.names[c] = IF c \in list.users /\ c <= n THEN list.names[c]
                            ELSE k.names[c]
    <3>1. u.names[c] = IF c \in list.users /\ c <= n - 1 THEN list.names[c]
                       ELSE k.names[c]
      BY DEF Sofar
    <3>2. v.names[c] = IF c = n THEN list.names[n] ELSE u.names[c]
      <4>1. u.names \in [Client -> Name \cup {Unnamed}]
        BY DEF Sofar, IsCopy
      <4> QED
        BY <1>1, <2>2, <4>1 DEF Loaded
    <3>3. c <= n <=> (c <= n - 1 \/ c = n)
      BY <1>2
    <3> QED
      BY <1>5, <3>1, <3>2, <3>3
  <2>5. v.master = IF list.master # NULL /\ list.master <= n THEN list.master
                   ELSE k.master
    <3>1. v.master = IF n = list.master THEN n ELSE u.master
      BY <2>2 DEF Loaded
    <3>2. u.master = IF list.master # NULL /\ list.master <= n - 1 THEN list.master
                     ELSE k.master
      BY DEF Sofar
    <3>3. list.master # NULL =>
            (list.master <= n <=> (list.master <= n - 1 \/ list.master = n))
      BY <1>1, <1>2
    <3> QED
      BY <1>1, <3>1, <3>2, <3>3
  <2>6. v.settings = list.settings
    BY <2>2 DEF Loaded
  <2>7. list.master # NULL /\ list.master <= n /\ k.master # list.master =>
          v.follow # NULL
    <3> SUFFICES ASSUME list.master # NULL, list.master <= n, k.master # list.master
                 PROVE  v.follow # NULL
      OBVIOUS
    <3>1. CASE list.master = n
      <4>1. u.master = k.master
        BY <1>3, <3>1 DEF Sofar
      <4> QED
        BY <2>2, <3>1, <4>1 DEF Loaded
    <3>2. CASE list.master <= n - 1
      <4>1. u.follow # NULL
        BY <3>2 DEF Sofar
      <4> QED
        BY <2>2, <4>1 DEF Loaded, Evolves
    <3> QED
      BY <1>1, <1>2, <3>1, <3>2
  <2>8. k.follow = k.master /\ list.follow \in {NULL, list.master} =>
          v.follow = v.master
    BY <2>2 DEF Sofar, Loaded
  <2>9. ASSUME list.follow # NULL, list.follow <= n, list.follow \in k.cached,
               list.master \in {NULL, k.master} \/ list.master \notin k.cached,
               Ready(k), Shows(k)
        PROVE  v.shown = list.follow
    <3>1. CASE list.follow = n
      <4>1. v.follow = n /\ v.cached = k.cached /\ Shows(v)
        BY <2>2, <2>3, <2>9, <3>1 DEF Loaded
      <4> QED
        BY <2>9, <3>1, <4>1 DEF Shows
    <3>2. CASE list.follow # n
      <4>1. list.follow <= n - 1
        BY <1>1, <1>2, <2>9, <3>2
      <4>2. u.shown = list.follow /\ u.cached = k.cached
        BY <2>9, <4>1 DEF Sofar
      <4>3. n = list.master => n = u.master \/ n \notin u.cached
        <5> SUFFICES ASSUME n = list.master, list.master \in {NULL, k.master}
                     PROVE  n = u.master
          BY <2>9, <4>2
        <5>1. u.master = k.master
          BY <1>3 DEF Sofar
        <5> QED
          BY <1>1, <5>1
      <4> QED
        BY <2>2, <3>2, <4>2, <4>3 DEF Loaded
    <3> QED
      BY <3>1, <3>2
  <2>10. \A S : Within(k, S) /\ list.master \in S /\ list.follow \in S => Within(v, S)
    BY <2>2 DEF Loaded, Sofar
  <2>11. Sofar(k, list, n, v)
    BY <2>3, <2>4, <2>5, <2>6, <2>7, <2>8, <2>9, <2>10 DEF Sofar
  <2> QED
    BY <2>11 DEF v
<1> QED
  BY <1>4, <1>5

\* The loop goes through all entries.
LEMMA LoadingUsers ==
  ASSUME NEW k, IsCopy(k), NEW me, NEW list, GoodList(list), Sendable(k)
  PROVE  Sofar(k, list, NClients, LoadUsers(k, me, list))
<1> DEFINE N == NClients
<1>1. N \in Nat
  BY NClientsAssumption
<1>2. PICK f : /\ f = [i \in 0 .. N |-> Turn(k, me, list, f, i)]
               /\ LoadUsers(k, me, list) = f[N]
  BY LoopRuns
<1> HIDE DEF N
<1> DEFINE S == {n \in 0 .. N : ~Sofar(k, list, n, f[n])}
<1>3. Sofar(k, list, 0, f[0])
  <2>1. f[0] = k
    BY <1>1, <1>2 DEF Turn
  <2>2. \A c \in Client : ~(c <= 0)
    BY NClientsAssumption DEF Client
  <2>3. /\ list.users \subseteq Client
        /\ list.master # NULL => ~(list.master <= 0)
        /\ list.follow # NULL => ~(list.follow <= 0)
    BY <2>2 DEF GoodList, Lists
  <2>4. Sofar(k, list, 0, k)
    BY <2>2, <2>3 DEF Sofar
  <2> QED
    BY <2>1, <2>4
<1>4. ASSUME NEW n \in 1 .. N, Sofar(k, list, n - 1, f[n - 1])
      PROVE  Sofar(k, list, n, f[n])
  <2>1. n \in 0 .. N /\ n # 0
    BY <1>1
  <2>2. f[n] = IF n \in list.users THEN LoadUser(f[n - 1], me, list, n) ELSE f[n - 1]
    BY <1>2, <2>1 DEF Turn
  <2>3. n \in 1 .. NClients
    BY DEF N
  <2> QED
    BY <1>4, <2>2, <2>3, SofarOn
<1>5. S = {}
  <2>1. \A n \in 1 .. N : n \in S => n - 1 \in S
    <3>1. \A n \in 1 .. N : n - 1 \in 0 .. N
      BY <1>1
    <3> QED
      BY <1>4, <3>1
  <2>2. 0 \notin S /\ S \in SUBSET (0 .. N)
    BY <1>3
  <2> HIDE DEF S
  <2> QED
    BY <1>1, <2>1, <2>2, NoLeastExample
<1>6. N \in 0 .. N
  BY <1>1
<1>7. Sofar(k, list, N, f[N])
  BY <1>5, <1>6
<1> QED
  BY <1>2, <1>7 DEF N

\* A copy at rest, of client me: while it knows nobody, it has no name and no
\* master.
AtRest(k, me) ==
  /\ IsCopy(k) /\ Complete(k) /\ GoodList(k.state)
  /\ k.state.users = {} => k.users = {}
  /\ k.users = {} => k.master = NULL /\ \A c \in Client : k.names[c] \notin Name
  /\ me \notin k.cached

\* LoadState of a list that says something: the copy says the same, a master
\* the list names is followed at last, and the camera of the one followed is
\* shown unless the list names both a new master and somebody to follow.
Says(k, list, u) ==
  /\ u.users = list.users /\ u.cached = k.cached
  /\ \A c \in list.users : u.names[c] = list.names[c]
  /\ u.settings = list.settings
  /\ u.master = IF list.master = NULL THEN k.master ELSE list.master
  /\ list.master # NULL /\ k.master # list.master => u.follow # NULL
  /\ k.follow # NULL => u.follow # NULL
  /\ Ready(k) => Ready(u)
  /\ Ready(k) /\ Shows(k) /\ (\/ list.follow = NULL
                              \/ list.master \in {NULL, k.master}
                              \/ list.master \notin k.cached) => Shows(u)
  /\ k.follow = k.master /\ list.follow \in {NULL, list.master} =>
       u.follow = u.master
  /\ \A S : Within(k, S) /\ list.master \in S /\ list.follow \in S => Within(u, S)

\* LoadState, of any list: an empty one changes nothing.
LEMMA Loading ==
  ASSUME NEW me, NEW k, AtRest(k, me), NEW list, GoodList(list)
  PROVE  /\ AtRest(LoadState(k, me, list), me)
         /\ list.users = {} => LoadState(k, me, list) = k
         /\ list.users # {} => Says(k, list, LoadState(k, me, list))
<1>1. CASE list.users = {}
  BY <1>1 DEF LoadState
<1>2. CASE list.users # {}
  <2> DEFINE s == [k EXCEPT !.users = list.users]
             v == LoadUsers(s, me, list)
             u == IF list.follow = NULL THEN v ELSE [v EXCEPT !.follow = list.follow]
  <2>1. LoadState(k, me, list) = u
    BY <1>2 DEF LoadState
  <2>2. /\ list.users \in SUBSET Client
        /\ list.master \in list.users \cup {NULL}
        /\ list.follow \in list.users \cup {NULL}
        /\ \A c \in list.users : list.names[c] \in Name
    BY DEF GoodList, Lists
  <2>3. \A c \in Client : c <= NClients
    BY NClientsAssumption DEF Client
  <2>4. /\ IsCopy(s) /\ s.users = list.users /\ s.names = k.names
        /\ s.master = k.master /\ s.follow = k.follow /\ s.settings = k.settings
        /\ s.state = k.state /\ s.cached = k.cached /\ s.shown = k.shown
    BY <2>2 DEF AtRest, IsCopy
  <2>5. /\ (Ready(k) => Ready(s)) /\ (Shows(k) => Shows(s))
        /\ \A S : Within(k, S) => Within(s, S)
    BY <2>4 DEF Ready, Shows, Within
  <2>20. Sendable(s)
    <3>1. /\ GoodList(s.state) /\ (s.state.users = {} => k.users = {})
          /\ k.users = {} => \A c \in Client : s.names[c] \notin Name
      BY <2>4 DEF AtRest
    <3>2. ASSUME Complete(s) PROVE k.users # {}
      BY <1>2, <2>2, <2>4, <3>1, <3>2 DEF Complete
    <3> QED
      BY <3>1, <3>2 DEF Sendable
  <2> HIDE DEF s
  <2>6. Sofar(s, list, NClients, v)
    BY <2>4, <2>20, LoadingUsers
  <2> HIDE DEF v
  <2>7. /\ IsCopy(v) /\ v.users = list.users /\ v.cached = k.cached
        /\ Sendable(v) /\ (Ready(k) => Ready(v))
    BY <2>4, <2>5, <2>6 DEF Sofar
  <2>8. \A c \in list.users : v.names[c] = list.names[c]
    BY <2>2, <2>3, <2>6 DEF Sofar
  <2>9. v.settings = list.settings
    BY <1>2, <2>2, <2>3, <2>6 DEF Sofar
  <2>10. v.master = IF list.master = NULL THEN k.master ELSE list.master
    BY <2>2, <2>3, <2>4, <2>6 DEF Sofar
  <2>11. Complete(v) /\ GoodList(v.state) /\ (v.state.users = {} => v.users = {})
    BY <2>2, <2>7, <2>8 DEF Complete, Sendable
  <2>12. /\ IsCopy(u) /\ u.users = v.users /\ u.names = v.names
         /\ u.master = v.master /\ u.settings = v.settings /\ u.state = v.state
         /\ u.cached = v.cached /\ u.shown = v.shown
         /\ u.follow = IF list.follow = NULL THEN v.follow ELSE list.follow
    <3>1. CASE list.follow = NULL
      BY <2>7, <3>1
    <3>2. CASE list.follow # NULL
      <4>1. u = [v EXCEPT !.follow = list.follow]
        BY <3>2
      <4>2. list.follow \in Client
        BY <2>2, <3>2
      <4> HIDE DEF u
      <4> QED
        BY <2>7, <3>2, <4>1, <4>2 DEF IsCopy
    <3> QED
      BY <3>1, <3>2
  <2> HIDE DEF u
  <2>13. AtRest(u, me)
    <3>1. me \notin k.cached
      BY DEF AtRest
    <3> QED
      BY <1>2, <2>7, <2>11, <2>12, <3>1 DEF AtRest, Complete
  <2>21. Ready(k) => Ready(u)
    BY <2>2, <2>7, <2>12, Nobody DEF Ready
  <2>14. list.master # NULL /\ k.master # list.master => u.follow # NULL
    BY <2>2, <2>3, <2>4, <2>6, <2>12 DEF Sofar
  <2>15. ASSUME Ready(k), Shows(k), \/ list.follow = NULL
                                    \/ list.master \in {NULL, k.master}
                                    \/ list.master \notin k.cached
         PROVE  Shows(u)
    <3>1. CASE list.follow = NULL
      <4>1. Shows(v)
        BY <2>5, <2>6, <2>15 DEF Sofar
      <4> QED
        BY <2>12, <3>1, <4>1 DEF Shows
    <3>2. CASE list.follow # NULL
      <4>1. list.follow <= NClients
        BY <2>2, <2>3, <3>2
      <4>2. list.follow \in s.cached => v.shown = list.follow
        BY <2>4, <2>5, <2>6, <2>15, <3>2, <4>1 DEF Sofar
      <4> QED
        BY <2>4, <2>7, <2>12, <3>2, <4>2 DEF Shows
    <3> QED
      BY <3>1, <3>2
  <2>16. k.follow = k.master /\ list.follow \in {NULL, list.master} =>
           u.follow = u.master
    BY <2>4, <2>6, <2>10, <2>12 DEF Sofar
  <2>17. ASSUME NEW S, Within(k, S), list.master \in S, list.follow \in S
         PROVE  Within(u, S)
    <3>1. Within(v, S)
      BY <2>5, <2>6, <2>17 DEF Sofar
    <3> QED
      BY <2>12, <2>17, <3>1 DEF Within
  <2>18. k.follow # NULL => u.follow # NULL
    BY <2>4, <2>6, <2>12 DEF Sofar
  <2>19. Says(k, list, u)
    BY <2>7, <2>8, <2>9, <2>10, <2>12, <2>14, <2>15, <2>16, <2>17, <2>18, <2>21
       DEF Says
  <2> QED
    BY <1>2, <2>1, <2>13, <2>19
<1> QED
  BY <1>1, <1>2

-----------------------------------------------------------------------------
(* What is said between the clients and the server                         *)

GoodLists == {list \in Lists : GoodList(list)}

FromClient(c) ==
  {Users(list) : list \in GoodLists}
    \cup {Camera(c), Request("register"), Request("pull"), Request("close")}

\* The server relays a camera to the other clients only.
ForClient(c) ==
  {Users(list) : list \in GoodLists} \cup {Reply(list) : list \in GoodLists}
    \cup {Camera(d) : d \in Client \ {c}}

ServerState ==
  [conn : SUBSET Client, master : Client \cup {NULL}, settings : BOOLEAN,
   names : [Client -> Name], named : SUBSET Client, ref : Nat,
   registered : SUBSET Client]

TypedServer(s) == s \in ServerState /\ s.master \in s.conn \cup {NULL}

\* What the server says about itself is the same of s and of t.
Same(s, t) ==
  /\ s.conn = t.conn /\ s.names = t.names
  /\ s.master = t.master /\ s.settings = t.settings

LEMMA SameSaid ==
  ASSUME NEW s, NEW t, Same(s, t)
  PROVE  BuildServerState(s) = BuildServerState(t)
BY DEF Same, BuildServerState

\* What the server says about itself is a list to be sent.
LEMMA ServerSays ==
  ASSUME NEW s, TypedServer(s)
  PROVE  LET l == BuildServerState(s) IN
         /\ l \in GoodLists
         /\ l.users = s.conn /\ l.master = s.master /\ l.follow = NULL
         /\ s.conn # {} => l.settings = s.settings
         /\ \A u \in s.conn : l.names[u] = s.names[u]
<1> DEFINE l == UserList(s.conn, s.names, s.master, NULL, s.settings)
<1>1. /\ s.conn \in SUBSET Client /\ s.names \in [Client -> Name]
      /\ s.master \in s.conn \cup {NULL} /\ s.settings \in BOOLEAN
      /\ NULL \notin s.conn
  BY Nobody DEF TypedServer, ServerState
<1>2. /\ l \in Lists /\ GoodList(l)
      /\ l.users = s.conn
      /\ l.master = Flagged(s.master, s.conn) /\ l.follow = Flagged(NULL, s.conn)
      /\ l.settings = (s.conn # {} /\ s.settings)
      /\ \A u \in s.conn : l.names[u] = s.names[u]
  <2> DEFINE conn == s.conn  names == s.names  master == s.master
             settings == s.settings
  <2>1. /\ conn \in SUBSET Client /\ names \in [Client -> Name \cup {Unnamed}]
        /\ settings \in BOOLEAN /\ \A u \in conn : names[u] \in Name
    BY <1>1
  <2>2. l = UserList(conn, names, master, NULL, settings)
    OBVIOUS
  <2> HIDE DEF conn, names, master, settings, l
  <2>3. /\ l \in Lists /\ GoodList(l) /\ l.users = conn
        /\ l.master = Flagged(master, conn) /\ l.follow = Flagged(NULL, conn)
        /\ l.settings = (conn # {} /\ settings)
        /\ \A u \in conn : l.names[u] = names[u]
    BY <2>1, <2>2, ListBuilt
  <2> QED
    BY <2>3 DEF conn, names, master, settings
<1>3. Flagged(s.master, s.conn) = s.master /\ Flagged(NULL, s.conn) = NULL
  BY <1>1 DEF Flagged
<1>4. l = BuildServerState(s)
  BY DEF BuildServerState
<1> HIDE DEF l
<1>5. s.conn # {} => l.settings = s.settings
  BY <1>1, <1>2
<1> QED
  BY <1>2, <1>3, <1>4, <1>5 DEF GoodLists

\* The empty list.
LEMMA NobodyListed ==
  /\ NoUsers \in GoodLists /\ NoUsers.users = {}
  /\ NoUsers.master = NULL /\ NoUsers.follow = NULL
<1> DEFINE none == [u \in Client |-> Unnamed]  no == FALSE
<1>1. none \in [Client -> Name \cup {Unnamed}] /\ no \in BOOLEAN
  OBVIOUS
<1>2. NoUsers = UserList({}, none, NULL, NULL, no)
  BY DEF NoUsers
<1>3. Flagged(NULL, {}) = NULL
  BY DEF Flagged
<1> HIDE DEF none, no
<1>4. /\ NoUsers \in Lists /\ GoodList(NoUsers) /\ NoUsers.users = {}
      /\ NoUsers.master = Flagged(NULL, {}) /\ NoUsers.follow = Flagged(NULL, {})
  BY <1>1, <1>2, ListBuilt
<1> QED
  BY <1>3, <1>4 DEF GoodLists

-----------------------------------------------------------------------------
(* What changes the server                                                 *)

\* All but the master, and the users that have a name.
SameBut(t, s) ==
  /\ TypedServer(t) /\ t.conn = s.conn /\ t.names = s.names
  /\ t.settings = s.settings /\ t.ref = s.ref

\* An election changes nothing but the master, and finds one among clients.
LEMMA ElectsOnly ==
  ASSUME NEW s, TypedServer(s), NEW active
  PROVE  LET t == Elect(s, active) IN
         /\ SameBut(t, s) /\ t.named = s.named
         /\ s.master # NULL => t = s
         /\ s.conn # {} => t.master # NULL
<1> DEFINE t == Elect(s, active)
<1>1. CASE s.master # NULL \/ s.conn = {}
  <2>1. t = s
    BY <1>1 DEF Elect
  <2> QED
    BY <1>1, <2>1 DEF SameBut
<1>2. CASE ~(s.master # NULL \/ s.conn = {})
  <2> DEFINE m == IF active \in s.conn THEN active ELSE Min(s.conn)
  <2>1. s.conn \subseteq Client /\ s.conn # {}
    BY <1>2 DEF TypedServer, ServerState
  <2>2. m \in s.conn /\ m # NULL /\ m \in Client
    BY <2>1, FirstClient, ClientsAreNotNull
  <2>3. t = [s EXCEPT !.master = m]
    BY <1>2 DEF Elect
  <2> HIDE DEF m, t
  <2>4. /\ t \in ServerState /\ t.master = m /\ t.conn = s.conn /\ t.names = s.names
        /\ t.settings = s.settings /\ t.ref = s.ref /\ t.named = s.named
    BY <2>2, <2>3 DEF TypedServer, ServerState
  <2>5. SameBut(t, s)
    BY <2>2, <2>4 DEF SameBut, TypedServer
  <2> QED
    BY <1>2, <2>2, <2>4, <2>5 DEF t
<1> QED
  BY <1>1, <1>2

\* Nor does an announcement, which gives names besides.
LEMMA AnnouncesOnly ==
  ASSUME NEW s, TypedServer(s), NEW active
  PROVE  LET t == Announced(s, active) IN
         /\ SameBut(t, s)
         /\ s.master # NULL \/ s.ref = 0 => t.master = s.master
         /\ s.ref = 0 => t = s
         /\ s.ref # 0 => t.master = Elect(s, active).master
         /\ s.ref # 0 /\ s.conn # {} => t.master # NULL
<1> DEFINE e == Elect(s, active)  t == Announced(s, active)
<1>1. /\ SameBut(e, s) /\ (s.master # NULL => e = s)
      /\ (s.conn # {} => e.master # NULL)
  BY ElectsOnly
<1>2. t = IF s.ref = 0 THEN s ELSE [e EXCEPT !.named = @ \cup s.conn]
  BY DEF Announced, Stated
<1> HIDE DEF e, t
<1>3. CASE s.ref = 0
  BY <1>2, <1>3 DEF SameBut, t
<1>4. CASE s.ref # 0
  <2>1. /\ t \in ServerState /\ t.conn = e.conn /\ t.names = e.names
        /\ t.settings = e.settings /\ t.ref = e.ref /\ t.master = e.master
    BY <1>1, <1>2, <1>4 DEF SameBut, TypedServer, ServerState
  <2>2. SameBut(t, s)
    BY <1>1, <2>1 DEF SameBut, TypedServer
  <2> QED
    BY <1>1, <1>4, <2>1, <2>2 DEF t, e
<1> QED
  BY <1>3, <1>4

\* The server t, when s has taken the list of a connected author.
Takes(t, s, author, list) ==
  /\ TypedServer(t) /\ t.conn = s.conn /\ t.ref = s.ref
  /\ t.names = [u \in Client |-> IF u \in list.users THEN list.names[u]
                                 ELSE s.names[u]]
  /\ list.master = NULL => t.master = s.master /\ t.settings = s.settings
  /\ list.master # NULL =>
       /\ t.master = IF list.master \in s.conn THEN list.master ELSE author
       /\ t.settings = list.settings

LEMMA UpdatedTyped ==
  ASSUME NEW s, TypedServer(s), NEW author \in s.conn, NEW list \in GoodLists
  PROVE  Takes(UpdateFromUsers(s, author, list), s, author, list)
<1> DEFINE t == UpdateFromUsers(s, author, list)
           names == [u \in Client |-> IF u \in list.users THEN list.names[u]
                                      ELSE s.names[u]]
           m == IF list.master \in s.conn THEN list.master ELSE author
           w == [s EXCEPT !.named = @ \cup list.users, !.names = names]
<1>1. /\ list.users \in SUBSET Client /\ \A u \in list.users : list.names[u] \in Name
      /\ list.settings \in BOOLEAN
  BY DEF GoodLists, GoodList, Lists
<1>2. names \in [Client -> Name]
  BY <1>1 DEF TypedServer, ServerState
<1>3. m \in s.conn /\ s.conn \subseteq Client
  BY DEF TypedServer, ServerState
<1>4. t = IF list.master = NULL THEN w
          ELSE [w EXCEPT !.master = m, !.settings = list.settings]
  BY DEF UpdateFromUsers
<1> HIDE DEF t, names, m
<1>5. /\ w \in ServerState /\ w.conn = s.conn /\ w.names = names
      /\ w.master = s.master /\ w.settings = s.settings /\ w.ref = s.ref
  BY <1>1, <1>2 DEF TypedServer, ServerState
<1> HIDE DEF w
<1>6. CASE list.master = NULL
  BY <1>4, <1>5, <1>6 DEF Takes, TypedServer, t, names
<1>7. CASE list.master # NULL
  <2>1. /\ t \in ServerState /\ t.conn = s.conn /\ t.names = names
        /\ t.master = m /\ t.settings = list.settings /\ t.ref = s.ref
    BY <1>1, <1>3, <1>4, <1>5, <1>7 DEF ServerState
  <2> QED
    BY <1>3, <1>7, <2>1 DEF Takes, TypedServer, t, names, m
<1> QED
  BY <1>6, <1>7

\* A push creates the server object when there is none.
LEMMA Created ==
  ASSUME NEW s, TypedServer(s)
  PROVE  LET t == Create(s) IN
         /\ TypedServer(t) /\ t.ref # 0
         /\ t.conn = s.conn /\ t.master = s.master /\ t.settings = s.settings
         /\ s.ref # 0 => t = s
         /\ s.ref = 0 => t.named = {}
<1> DEFINE user == [u \in Client |-> "User"]  t == Create(s)
<1>1. user \in [Client -> Name]
  BY DEF Name
<1>2. t = IF s.ref # 0 THEN s
          ELSE [s EXCEPT !.ref = 1, !.names = user, !.named = {}]
  BY DEF Create
<1> HIDE DEF user, t
<1>3. CASE s.ref # 0
  BY <1>2, <1>3 DEF t
<1>4. CASE s.ref = 0
  <2>1. /\ t \in ServerState /\ t.ref = 1 /\ t.named = {} /\ t.conn = s.conn
        /\ t.master = s.master /\ t.settings = s.settings
    BY <1>1, <1>2, <1>4 DEF TypedServer, ServerState
  <2> QED
    BY <1>4, <2>1 DEF TypedServer, t
<1> QED
  BY <1>3, <1>4

\* A registration, and one that is taken off.
LEMMA Registered ==
  ASSUME NEW s, TypedServer(s), NEW c \in Client
  PROVE  LET t == RegisterSI(s, c)
             u == Collect(s, c)
         IN  /\ TypedServer(t) /\ Same(t, s)
             /\ s.ref # 0 <=> t.ref # 0
             /\ TypedServer(u) /\ Same(u, s)
<1> DEFINE t == RegisterSI(s, c)  u == Collect(s, c)
           in == s.registered \cup {c}  out == s.registered \ {c}
           more == IF s.ref = 0 THEN 0 ELSE s.ref + 1
           less == IF s.ref = 0 THEN 0 ELSE s.ref - 1
<1>1. s \in ServerState /\ s.ref \in Nat /\ in \subseteq Client /\ out \subseteq Client
  BY DEF TypedServer, ServerState
<1>2. more \in Nat /\ less \in Nat /\ (s.ref # 0 <=> more # 0)
  BY <1>1
<1>3. /\ t = [s EXCEPT !.registered = in, !.ref = more]
      /\ u = s \/ u = [s EXCEPT !.registered = out, !.ref = less]
  BY DEF RegisterSI, Collect
<1> HIDE DEF t, u, in, out, more, less
<1>4. /\ t \in ServerState /\ t.conn = s.conn /\ t.names = s.names
      /\ t.master = s.master /\ t.settings = s.settings /\ t.ref = more
  BY <1>1, <1>2, <1>3 DEF ServerState
<1>5. /\ u \in ServerState /\ u.conn = s.conn /\ u.names = s.names
      /\ u.master = s.master /\ u.settings = s.settings
  BY <1>1, <1>2, <1>3 DEF ServerState
<1>6. TypedServer(t) /\ TypedServer(u) /\ Same(t, s) /\ Same(u, s)
  BY <1>4, <1>5 DEF TypedServer, Same
<1> QED
  BY <1>2, <1>4, <1>6 DEF t, u

\* A list in which the server finds no changes changes nothing that it says,
\* if the server has a master or the list names none; and what it says is so.
LEMMA NothingNew ==
  ASSUME NEW s, TypedServer(s), NEW author \in s.conn, NEW list \in GoodLists,
         ~FindsChanges(s, author, list), s.master # NULL \/ list.master = NULL
  PROVE  /\ Same(UpdateFromUsers(s, author, list), s)
         /\ \A u \in list.users : list.names[u] = s.names[u]
         /\ list.master # NULL => list.master = s.master /\ list.settings = s.settings
<1> DEFINE t == UpdateFromUsers(s, author, list)
<1>1. /\ \A u \in list.users : list.names[u] = s.names[u]
      /\ list.master # NULL => /\ Elect(s, author).master = list.master
                               /\ list.settings = s.settings
  BY DEF FindsChanges
<1>2. list.master # NULL => list.master = s.master
  BY <1>1, ElectsOnly
<1>3. Takes(t, s, author, list)
  BY UpdatedTyped
<1> HIDE DEF t
<1>4. t.names = s.names
  BY <1>1, <1>3 DEF TypedServer, ServerState, Takes
<1>5. t.master = s.master /\ t.settings = s.settings
  BY <1>1, <1>2, <1>3 DEF TypedServer, ServerState, Takes
<1>6. Same(t, s)
  BY <1>3, <1>4, <1>5 DEF Same, Takes
<1> QED
  BY <1>1, <1>2, <1>6 DEF t


-----------------------------------------------------------------------------
(* What the clients hear                                                   *)

\* What all clients that remain hear in a step of the server: perhaps what it
\* says about itself, which it can with its object only, and which heals what
\* was stale; then more, which is up to the client.
Hears(said, more) ==
  /\ TypedServer(server')
  /\ said \in Seq({Users(BuildServerState(server'))})
  /\ toClient' = [b \in Client |-> IF b \notin server'.conn THEN <<>>
                                   ELSE toClient[b] \o said \o more[b]]
  /\ said # <<>> => server'.ref # 0 /\ (server'.conn # {} => server'.master # NULL)
  /\ said = <<>> /\ relay' # "stale" => relay # "stale"
  /\ relay' = "fresh" => relay = "fresh"
  /\ object' \in {object, "healed", "stale"}
  /\ said = <<>> => object' \in {object, "stale"}
  /\ server.ref # 0 /\ object' # "stale" => server'.ref # 0

\* The author of what is relayed does not hear it.
Relay(author, relayed) == [b \in Client |-> IF b = author THEN <<>> ELSE relayed]

\* Nothing has changed unless the server says so, but for what was changed in
\* s before.
Spoke(said, s, announces, author, relayed) ==
  /\ Hears(said, Relay(author, relayed))
  /\ SameBut(server', s)
  /\ said = <<>> \/ s.master # NULL => server'.master = s.master
  /\ announces /\ s.ref # 0 => said # <<>>
  /\ relay' # "stale" =>
       \A b \in server'.conn \ {author} : \A i \in 1 .. Len(relayed) :
         ~IsStale(server', relayed[i])

\* What a history becomes.
LEMMA Remembers ==
  ASSUME NEW history, NEW said
  PROVE  LET h == Healed(history, said) IN
         /\ h \in {history, "healed"}
         /\ said = <<>> => h = history
         /\ h = "fresh" => history = "fresh"
         /\ said = <<>> /\ h # "stale" => history # "stale"
BY DEF Healed

\* What the server says, if anything, is what it then is.
LEMMA SaysItself ==
  ASSUME NEW s, TypedServer(s), NEW active, NEW announces \in BOOLEAN
  PROVE  LET said == IF announces THEN Announcement(s, active) ELSE <<>>
             now  == IF announces THEN Announced(s, active) ELSE s
         IN  /\ SameBut(now, s)
             /\ said = <<>> \/ s.master # NULL => now.master = s.master
             /\ said \in Seq({Users(BuildServerState(now))})
             /\ said # <<>> => s.ref # 0 /\ (s.conn # {} => now.master # NULL)
             /\ announces /\ s.ref # 0 => said # <<>>
<1> DEFINE said == IF announces THEN Announcement(s, active) ELSE <<>>
           now == IF announces THEN Announced(s, active) ELSE s
           elected == Elect(s, active)
           note == Users(BuildServerState(now))
<1> SUFFICES /\ SameBut(now, s)
             /\ said = <<>> \/ s.master # NULL => now.master = s.master
             /\ said \in Seq({note})
             /\ said # <<>> => s.ref # 0 /\ (s.conn # {} => now.master # NULL)
             /\ announces /\ s.ref # 0 => said # <<>>
  OBVIOUS
<1>1. CASE announces /\ s.ref # 0
  <2>1. /\ SameBut(now, s) /\ (s.master # NULL => now.master = s.master)
        /\ now.master = elected.master /\ (s.conn # {} => now.master # NULL)
    BY <1>1, AnnouncesOnly
  <2>2. BuildServerState(now) = BuildServerState(elected)
    <3>1. SameBut(elected, s)
      BY ElectsOnly
    <3> HIDE DEF now, elected
    <3> QED
      BY <2>1, <3>1, SameSaid DEF SameBut, Same
  <2>3. said \in {<<note>>, <<note, note>>}
    BY <1>1, <2>2 DEF Announcement
  <2> HIDE DEF said, now, note, elected
  <2>4. said \in Seq({note}) /\ said # <<>>
    <3>1. /\ <<note>> \in Seq({note}) /\ <<note, note>> \in Seq({note})
          /\ <<note>> # <<>> /\ <<note, note>> # <<>>
      OBVIOUS
    <3> QED
      BY <2>3, <3>1
  <2> QED
    BY <1>1, <2>1, <2>4
<1>2. CASE ~(announces /\ s.ref # 0)
  <2>1. said = <<>> /\ now = s
    BY <1>2 DEF Announcement, Announced
  <2> HIDE DEF said, now, note
  <2>2. <<>> \in Seq({note})
    OBVIOUS
  <2> QED
    BY <1>2, <2>1, <2>2 DEF SameBut
<1> QED
  BY <1>1, <1>2

\* The server speaks.
LEMMA Speaking ==
  ASSUME \A b \in Client : toClient[b] \in Seq(ForClient(b)),
         NEW s, TypedServer(s), NEW active, NEW announces \in BOOLEAN, NEW author,
         NEW R, NEW relayed \in Seq(R), Speak(s, active, announces, author, relayed)
  PROVE  \E said : Spoke(said, s, announces, author, relayed)
<1> DEFINE said == IF announces THEN Announcement(s, active) ELSE <<>>
           now == IF announces THEN Announced(s, active) ELSE s
           note == Users(BuildServerState(now))
           others == now.conn \ {author}
<1>1. /\ server' = now
      /\ toClient' = [c \in Client |->
                        IF c \notin now.conn THEN <<>>
                        ELSE IF c = author THEN toClient[c] \o said
                        ELSE toClient[c] \o said \o relayed]
      /\ relay' = IF others # {} /\ \E m \in ToSet(relayed) : IsStale(now, m)
                  THEN "stale" ELSE Healed(relay, said)
      /\ object' = IF s.ref = 0 /\ server.ref # 0 THEN "stale"
                   ELSE Healed(object, said)
  BY DEF Speak
<1>2. /\ SameBut(now, s)
      /\ said = <<>> \/ s.master # NULL => now.master = s.master
      /\ said \in Seq({note})
      /\ said # <<>> => s.ref # 0 /\ (s.conn # {} => now.master # NULL)
      /\ announces /\ s.ref # 0 => said # <<>>
  BY SaysItself
<1>6. others = server'.conn \ {author} /\ note = Users(BuildServerState(server'))
  BY <1>1
<1> HIDE DEF said, now, note, others
<1>8. ASSUME NEW b \in Client
      PROVE  toClient'[b] = IF b \notin server'.conn THEN <<>>
                            ELSE toClient[b] \o said \o Relay(author, relayed)[b]
  <2>1. toClient[b] \o said \in Seq(ForClient(b) \cup {note})
    <3> DEFINE M == ForClient(b) \cup {note}
    <3>1. toClient[b] \in Seq(M) /\ said \in Seq(M)
      BY <1>2
    <3> HIDE DEF M
    <3>2. toClient[b] \o said \in Seq(M)
      BY <3>1
    <3> QED
      BY <3>2 DEF M
  <2>2. toClient[b] \o said \o <<>> = toClient[b] \o said
    BY <2>1
  <2>3. Relay(author, relayed)[b] = IF b = author THEN <<>> ELSE relayed
    BY DEF Relay
  <2> QED
    BY <1>1, <2>2, <2>3
<1>9. toClient' = [b \in Client |-> IF b \notin server'.conn THEN <<>>
                     ELSE toClient[b] \o said \o Relay(author, relayed)[b]]
  BY <1>1, <1>8
<1>10. /\ said = <<>> /\ relay' # "stale" => relay # "stale"
       /\ relay' = "fresh" => relay = "fresh"
  BY <1>1, Remembers
<1>11. /\ object' \in {object, "healed", "stale"}
       /\ said = <<>> => object' \in {object, "stale"}
       /\ server.ref # 0 /\ object' # "stale" => s.ref # 0
  BY <1>1, Remembers
<1>12. relay' # "stale" =>
         \A b \in server'.conn \ {author} : \A i \in 1 .. Len(relayed) :
           ~IsStale(server', relayed[i])
  <2> SUFFICES ASSUME relay' # "stale", NEW b \in server'.conn \ {author},
                      NEW i \in 1 .. Len(relayed)
               PROVE  ~IsStale(server', relayed[i])
    OBVIOUS
  <2>1. others # {}
    BY <1>6
  <2>2. relayed[i] \in ToSet(relayed)
    BY DEF ToSet
  <2> QED
    BY <1>1, <2>1, <2>2
<1>13. Hears(said, Relay(author, relayed))
  BY <1>1, <1>2, <1>6, <1>9, <1>10, <1>11 DEF Hears, SameBut
<1> QED
  BY <1>1, <1>2, <1>12, <1>13 DEF Spoke

\* Where the pull of a client is: under way as long as it waits, or its reply,
\* once; a reply names nobody to follow.
Stands(c) ==
  /\ toClient[c] # <<>> => c \in server.conn
  /\ c \notin awaiting =>
       /\ \A i \in 1 .. Len(toServer[c]) : toServer[c][i].kind # "pull"
       /\ \A i \in 1 .. Len(toClient[c]) : toClient[c][i].kind # "reply"
  /\ \A i, j \in 1 .. Len(toServer[c]) :
       toServer[c][i].kind = "pull" /\ toServer[c][j].kind = "pull" => i = j
  /\ \A i, j \in 1 .. Len(toClient[c]) :
       toClient[c][i].kind = "reply" /\ toClient[c][j].kind = "reply" => i = j
  /\ \A i \in 1 .. Len(toServer[c]) : \A j \in 1 .. Len(toClient[c]) :
       ~(toServer[c][i].kind = "pull" /\ toClient[c][j].kind = "reply")
  /\ \A i \in 1 .. Len(toClient[c]) :
       toClient[c][i].kind = "reply" => toClient[c][i].list.follow = NULL

\* How a client joins if the server does not lose its object: it knows nobody
\* and says so, as its manager was created, until the reply names a master,
\* whom it then follows; so it follows somebody before it hears of cameras.
Joins(c) ==
  /\ c \in unborn \cup awaiting => manager[c] = NewManager
  /\ c \in awaiting => \A i \in 1 .. Len(toServer[c]) :
                         toServer[c][i].kind = "users" => toServer[c][i].list = NoUsers
  /\ c \in server.conn \ awaiting =>
       manager[c].follow # NULL /\ manager[c].users # {}
  /\ Ready(manager[c])
  /\ \A i \in 1 .. Len(toClient[c]) :
       toClient[c][i].kind = "reply" => toClient[c][i].list.master # NULL

TInv ==
  /\ TypedServer(server)
  /\ manager = [c \in Client |-> manager[c]]
  /\ \A c \in Client : AtRest(manager[c], c)
  /\ toServer = [c \in Client |-> toServer[c]]
  /\ toClient = [c \in Client |-> toClient[c]]
  /\ \A c \in Client : toServer[c] \in Seq(FromClient(c))
  /\ \A c \in Client : toClient[c] \in Seq(ForClient(c))
  /\ awaiting \subseteq Client /\ ops \in 0 .. MaxOps
  /\ object \in {"fresh", "healed", "stale"}
  /\ \A c \in Client : Stands(c)
  /\ object = "fresh" => \A c \in Client : Joins(c)

\* No client will receive the reply of a pull.
NoReply ==
  \A c \in Client : \A i \in 1 .. Len(toClient[c]) : toClient[c][i].kind # "reply"

\* What a client has sent: it is connected, a close comes last, and a list of
\* nobody is followed by a pull.
Sent(c) ==
  /\ toServer[c] # <<>> => c \in server.conn
  /\ \A i \in 1 .. Len(toServer[c]) :
       /\ toServer[c][i].kind = "close" => i = Len(toServer[c])
       /\ toServer[c][i].kind = "users" /\ toServer[c][i].list.users = {} =>
            i < Len(toServer[c]) /\ toServer[c][i + 1].kind = "pull"

\* While there is no object, a client's first list comes before its pull.
CreatesFirst(c) ==
  \A i \in 1 .. Len(toServer[c]) :
    toServer[c][i].kind = "pull" =>
      server.ref # 0 \/ \E j \in 1 .. Len(toServer[c]) :
                          j < i /\ toServer[c][j].kind = "users"

\* The session has a master, or a pull is under way that elects one.  If the
\* server never lost its object, it has one as soon as a client has joined; and
\* whenever all is well again after that.
IInv ==
  /\ unborn \subseteq Client /\ server.conn \cap unborn = {}
  /\ \A c \in Client : Sent(c)
  /\ \/ server.ref = 0 \/ server.conn = {} \/ server.master # NULL
     \/ \E c \in server.conn : \E i \in 1 .. Len(toServer[c]) :
          toServer[c][i].kind = "pull"
  /\ object = "fresh" =>
       /\ server.master # NULL => server.ref # 0
       /\ server.master = NULL => server.conn \subseteq awaiting /\ NoReply
       /\ \A c \in Client : CreatesFirst(c)
  /\ object = "healed" => server.ref # 0 /\ (server.conn # {} => server.master # NULL)

-----------------------------------------------------------------------------
(* What users do                                                           *)

\* What a user does: the copy stays one at rest, and what is pushed of it, if
\* anything, is its message, which lists somebody or comes before a pull.  If
\* the copy changed, the message is pushed and says the same; only a master
\* makes another.
Acts(c, k, pushed) ==
  /\ Does(c, k, pushed)
  /\ AtRest(k, c) /\ k.users = manager[c].users /\ k.cached = manager[c].cached
  /\ manager[c].follow # NULL => k.follow # NULL
  /\ Ready(manager[c]) => Ready(k)
  /\ Ready(manager[c]) /\ Shows(manager[c]) => Shows(k)
  /\ \/ /\ pushed \in {<<>>, <<Camera(c)>>, <<Request("close")>>}
        /\ UNCHANGED awaiting
     \/ /\ pushed \in {<<Users(k.state)>>, <<Users(k.state), Camera(c)>>}
        /\ k.state.users # {}
        /\ UNCHANGED awaiting
     \/ /\ pushed = <<Users(k.state), Request("pull")>>
        /\ k = manager[c] /\ k.users = {}
        /\ awaiting' = awaiting \cup {c}
  /\ \/ /\ k.names = manager[c].names /\ k.master = manager[c].master
        /\ k.settings = manager[c].settings
     \/ /\ Current(k) /\ pushed = <<Users(k.state)>>
        /\ k.master # manager[c].master => manager[c].master = c /\ k.master \in k.users
  /\ \/ decided' = TRUE
     \/ /\ decided' = decided /\ k.master = manager[c].master
        /\ manager[c].follow = manager[c].master => k.follow = k.master
        /\ \A S : Within(manager[c], S) => Within(k, S)

\* A copy at rest that evolves is at rest, if users keep a name.
LEMMA RestKept ==
  ASSUME NEW me, NEW k, AtRest(k, me), NEW u, Evolves(k, u), Complete(u),
         u.users # {} \/ (u.names = k.names /\ u.master = k.master)
  PROVE  AtRest(u, me)
<1>1. Sendable(k) /\ Sendable(u)
  BY DEF AtRest, Evolves, Sendable
<1>2. /\ GoodList(u.state) /\ (u.state.users = {} => u.users = {})
      /\ IsCopy(u) /\ u.users = k.users /\ u.cached = k.cached
  BY <1>1 DEF Evolves, Sendable
<1> QED
  BY <1>2 DEF AtRest

\* Who asks for a reply waits.
LEMMA Asking ==
  ASSUME NEW c, NEW k, NEW pushed, Does(c, k, pushed), NEW list
  PROVE  /\ pushed \in {<<>>, <<Camera(c)>>, <<Request("close")>>, <<Users(list)>>,
                        <<Users(list), Camera(c)>>} => UNCHANGED awaiting
         /\ pushed = <<Users(list), Request("pull")>> => awaiting' = awaiting \cup {c}
<1>1. awaiting' = IF Request("pull") \in ToSet(pushed) THEN awaiting \cup {c}
                  ELSE awaiting
  BY DEF Does
<1>2. \A m \in {Camera(c), Request("close"), Users(list)} : m # Request("pull")
  BY DEF Camera, Request, Users
<1>3. ASSUME NEW a, NEW b
      PROVE  ToSet(<<>>) = {} /\ ToSet(<<a>>) = {a} /\ ToSet(<<a, b>>) = {a, b}
  <2>1. /\ DOMAIN <<>> = {} /\ DOMAIN <<a>> = {1} /\ DOMAIN <<a, b>> = {1, 2}
        /\ <<a>>[1] = a /\ <<a, b>>[1] = a /\ <<a, b>>[2] = b
    OBVIOUS
  <2> QED
    BY <2>1 DEF ToSet
<1>4. ASSUME NEW a, NEW b, NEW d, NEW p, a # p, b # p, d # p
      PROVE  /\ \A x \in {<<>>, <<a>>, <<b>>, <<d>>, <<d, a>>} : p \notin ToSet(x)
             /\ p \in ToSet(<<d, p>>)
  <2>1. ToSet(<<>>) = {} /\ ToSet(<<a>>) = {a} /\ ToSet(<<b>>) = {b} /\ ToSet(<<d>>) = {d}
    BY <1>3
  <2>2. ToSet(<<d, a>>) = {d, a} /\ ToSet(<<d, p>>) = {d, p}
    BY <1>3
  <2> QED
    BY <1>4, <2>1, <2>2, Zenon
<1> DEFINE a == Camera(c)  b == Request("close")  d == Users(list)
           p == Request("pull")
<1>5. a # p /\ b # p /\ d # p
  BY <1>2
<1> HIDE DEF a, b, d, p
<1>6. /\ \A x \in {<<>>, <<a>>, <<b>>, <<d>>, <<d, a>>} : p \notin ToSet(x)
      /\ p \in ToSet(<<d, p>>)
  BY <1>4, <1>5
<1>7. awaiting' = IF p \in ToSet(pushed) THEN awaiting \cup {c} ELSE awaiting
  BY <1>1 DEF p
<1>8. /\ pushed \in {<<>>, <<a>>, <<b>>, <<d>>, <<d, a>>} => UNCHANGED awaiting
      /\ pushed = <<d, p>> => awaiting' = awaiting \cup {c}
  BY <1>6, <1>7
<1> QED
  BY <1>8 DEF a, b, d, p

\* Two messages, one after the other.
LEMMA Two ==
  ASSUME NEW a, NEW b
  PROVE  <<a>> \o <<b>> = <<a, b>> /\ <<>> \o <<b>> = <<b>> /\ <<a>> \o <<>> = <<a>>
<1> DEFINE S == {a, b}
<1>1. /\ <<a>> \in Seq(S) /\ <<b>> \in Seq(S) /\ <<a, b>> \in Seq(S)
      /\ <<a>> \o <<b>> \in Seq(S)
  OBVIOUS
<1>2. /\ Len(<<a>> \o <<b>>) = 2 /\ Len(<<a, b>>) = 2
      /\ (<<a>> \o <<b>>)[1] = a /\ (<<a>> \o <<b>>)[2] = b
  OBVIOUS
<1> HIDE DEF S
<1>3. <<>> \o <<b>> = <<b>> /\ <<a>> \o <<>> = <<a>>
  BY <1>1, ConcatEmptySeq
<1>4. \A i \in 1 .. 2 : i = 1 \/ i = 2
  OBVIOUS
<1>5. \A i \in 1 .. Len(<<a, b>>) : (<<a>> \o <<b>>)[i] = <<a, b>>[i]
  BY <1>2, <1>4
<1>6. <<a>> \o <<b>> = <<a, b>>
  BY <1>1, <1>2, <1>5, SeqEqual
<1> QED
  BY <1>3, <1>6

\* So does each user.
LEMMA UsersAct ==
  ASSUME NEW c \in Client, AtRest(manager[c], c),
         \/ \E id \in Client : PromoteToMaster(c, id) \/ ChooseUser(c, id)
         \/ \E name \in Name : SetUserLabel(c, name)
         \/ \E settings \in BOOLEAN : ChangeSettings(c, settings)
         \/ UpdateUserInformations(c) \/ MoveCamera(c) \/ Leave(c)
  PROVE  \E k, pushed : Acts(c, k, pushed)
<1> DEFINE m == manager[c]
<1>1. IsCopy(m) /\ Complete(m) /\ AtRest(m, c) /\ Evolves(m, m)
  BY DEF AtRest, Evolves
<1>2. m.master # NULL => m.users # {}
  BY DEF AtRest
<1>9. c # NULL
  BY ClientsAreNotNull
\* A copy that knows of somebody and evolved, and its message.
<1>10. ASSUME NEW k, Evolves(m, k), Complete(k),
              m.users # {} \/ (k.names = m.names /\ k.master = m.master)
       PROVE  /\ AtRest(k, c) /\ k.users = m.users /\ k.cached = m.cached
              /\ m.follow # NULL => k.follow # NULL
              /\ Ready(m) => Ready(k)
              /\ Ready(m) /\ Shows(m) => Shows(k)
              /\ m.users # {} => k.state.users # {}
  <2> HIDE DEF m
  <2>1. k.users = m.users
    BY <1>10 DEF Evolves
  <2>2. AtRest(k, c)
    BY <1>1, <1>10, <2>1, RestKept
  <2> QED
    BY <1>10, <2>1, <2>2 DEF Evolves, AtRest
<1>3. ASSUME NEW id \in Client, PromoteToMaster(c, id)
      PROVE  \E k, pushed : Acts(c, k, pushed)
  <2> DEFINE k == UpdateMaster(m, c, id)
  <2>1. /\ m.master = c /\ id \in m.users /\ decided' = TRUE
        /\ Does(c, k, <<Users(k.state)>>)
    BY <1>3 DEF PromoteToMaster
  <2>2. /\ Evolves(m, k) /\ k.names = m.names /\ k.settings = m.settings
        /\ k.master = id /\ IF m.master = id THEN k = m ELSE Current(k)
    BY <1>1, MakingMaster
  <2> HIDE DEF m, k
  <2>3. Complete(k) /\ k.users = m.users
    BY <1>1, <2>2 DEF Complete, Evolves
  <2>4. UNCHANGED awaiting
    BY <2>1, Asking
  <2>5. /\ AtRest(k, c) /\ k.cached = m.cached
        /\ (m.follow # NULL => k.follow # NULL)
        /\ (Ready(m) => Ready(k)) /\ (Ready(m) /\ Shows(m) => Shows(k))
        /\ k.state.users # {}
    BY <1>10, <2>1, <2>2, <2>3
  <2>6. Acts(c, k, <<Users(k.state)>>)
    BY <2>1, <2>2, <2>3, <2>4, <2>5 DEF Acts, m
  <2> QED
    BY <2>6
<1>4. ASSUME NEW id \in Client, ChooseUser(c, id)
      PROVE  \E k, pushed : Acts(c, k, pushed)
  <2> DEFINE k == FollowUser(m, c, id)
             pushed == IF k.master = c THEN <<Users(k.state)>> ELSE <<>>
  <2>1. decided' = TRUE /\ Does(c, k, pushed) /\ id \in m.users
    BY <1>4 DEF ChooseUser
  <2>2. /\ Evolves(m, k) /\ k.names = m.names /\ k.master = m.master
        /\ k.settings = m.settings
    BY <1>1, Following
  <2>3. pushed \in {<<>>, <<Users(k.state)>>}
    OBVIOUS
  <2> HIDE DEF m, k, pushed
  <2>4. Complete(k) /\ k.users = m.users
    BY <1>1, <2>2 DEF Complete, Evolves
  <2>5. UNCHANGED awaiting
    BY <2>1, <2>3, Asking
  <2>6. /\ AtRest(k, c) /\ k.cached = m.cached
        /\ (m.follow # NULL => k.follow # NULL)
        /\ (Ready(m) => Ready(k)) /\ (Ready(m) /\ Shows(m) => Shows(k))
        /\ k.state.users # {}
    BY <1>10, <2>1, <2>2, <2>4
  <2>7. Acts(c, k, pushed)
    BY <2>1, <2>2, <2>3, <2>4, <2>5, <2>6 DEF Acts, m
  <2> QED
    BY <2>7
<1>5. ASSUME NEW name \in Name, SetUserLabel(c, name)
      PROVE  \E k, pushed : Acts(c, k, pushed)
  <2> DEFINE k == UpdateUserName(m, c, name)
  <2>1. /\ m.names[c] # name /\ decided' = decided /\ c \in m.users
        /\ Does(c, k, <<Users(k.state)>>)
    BY <1>5 DEF SetUserLabel
  <2>2. /\ Evolves(m, k) /\ k.names = [m.names EXCEPT ![c] = name]
        /\ k.settings = m.settings /\ k.master = m.master /\ k.follow = m.follow
        /\ Current(k) /\ \A S : Within(m, S) => Within(k, S)
    BY <1>1, <2>1, Naming
  <2> HIDE DEF m, k
  <2>3. Complete(k) /\ k.users = m.users
    <3>1. m.users \subseteq Client /\ m.names \in [Client -> Name \cup {Unnamed}]
      BY <1>1 DEF IsCopy
    <3> QED
      BY <1>1, <2>2, <3>1 DEF Complete, Evolves
  <2>4. UNCHANGED awaiting
    BY <2>1, Asking
  <2>5. /\ AtRest(k, c) /\ k.cached = m.cached
        /\ (Ready(m) => Ready(k)) /\ (Ready(m) /\ Shows(m) => Shows(k))
        /\ k.state.users # {}
    BY <1>10, <2>1, <2>2, <2>3
  <2>6. Acts(c, k, <<Users(k.state)>>)
    BY <2>1, <2>2, <2>3, <2>4, <2>5 DEF Acts, m
  <2> QED
    BY <2>6
<1>6. ASSUME NEW settings \in BOOLEAN, ChangeSettings(c, settings)
      PROVE  \E k, pushed : Acts(c, k, pushed)
  <2> DEFINE k == UpdateSettings(m, settings)
  <2>1. decided' = decided /\ Does(c, k, <<Users(k.state)>>) /\ m.master = c
    BY <1>6 DEF ChangeSettings
  <2>2. /\ Evolves(m, k) /\ k.names = m.names /\ k.master = m.master
        /\ k.follow = m.follow \/ (m.follow = NULL /\ k.follow = m.master)
        /\ k = m \/ Current(k)
        /\ \A S : Within(m, S) => Within(k, S)
    BY <1>1, Setting
  <2> HIDE DEF m, k
  <2>3. Complete(k) /\ k.users = m.users
    BY <1>1, <2>2 DEF Complete, Evolves
  <2>4. UNCHANGED awaiting
    BY <2>1, Asking
  <2>5. /\ AtRest(k, c) /\ k.cached = m.cached
        /\ (Ready(m) => Ready(k)) /\ (Ready(m) /\ Shows(m) => Shows(k))
        /\ k.state.users # {}
    BY <1>2, <1>9, <1>10, <2>1, <2>2, <2>3
  <2>6. Acts(c, k, <<Users(k.state)>>)
    BY <2>1, <2>2, <2>3, <2>4, <2>5 DEF Acts, m
  <2> QED
    BY <2>6
<1>7. ASSUME UpdateUserInformations(c)
      PROVE  \E k, pushed : Acts(c, k, pushed)
  <2> DEFINE pushed == <<Users(m.state)>> \o
                       IF m.users = {} THEN <<Request("pull")>> ELSE <<>>
  <2>1. Does(c, m, pushed) /\ decided' = decided
    BY <1>7 DEF UpdateUserInformations
  <2>2. pushed = IF m.users = {} THEN <<Users(m.state), Request("pull")>>
                 ELSE <<Users(m.state)>>
    BY Two
  <2> HIDE DEF m, pushed
  <2>3. CASE m.users = {}
    <3>1. awaiting' = awaiting \cup {c}
      BY <2>1, <2>2, <2>3, Asking
    <3>2. Acts(c, m, pushed)
      BY <1>1, <2>1, <2>2, <2>3, <3>1 DEF Acts, m
    <3> QED
      BY <3>2
  <2>4. CASE m.users # {}
    <3>1. UNCHANGED awaiting
      BY <2>1, <2>2, <2>4, Asking
    <3>2. m.state.users # {}
      BY <1>1, <2>4 DEF AtRest
    <3>3. Acts(c, m, pushed)
      BY <1>1, <2>1, <2>2, <2>4, <3>1, <3>2 DEF Acts, m
    <3> QED
      BY <3>3
  <2> QED
    BY <2>3, <2>4
<1>8. ASSUME MoveCamera(c) PROVE \E k, pushed : Acts(c, k, pushed)
  <2> DEFINE f == FollowUser(m, c, Stop)
             shares == f.master = c /\ m.follow # Stop
             pushed == (IF shares THEN <<Users(f.state)>> ELSE <<>>) \o <<Camera(c)>>
             k == [f EXCEPT !.shown = c]
  <2>1. decided' = TRUE /\ Does(c, k, pushed)
    BY <1>8 DEF MoveCamera
  <2>2. /\ Evolves(m, f) /\ f.names = m.names /\ f.master = m.master
        /\ f.settings = m.settings /\ f.follow = Stop
    BY <1>1, Following
  <2> HIDE DEF f
  <2>3. pushed = IF shares THEN <<Users(f.state), Camera(c)>> ELSE <<Camera(c)>>
    BY Two
  <2>4. shares => m.users # {}
    BY <1>2, <1>9, <2>2
  <2> HIDE DEF pushed, m, shares
  <2>5. /\ IsCopy(k) /\ k.users = f.users /\ k.names = f.names
        /\ k.master = f.master /\ k.settings = f.settings /\ k.state = f.state
        /\ k.cached = f.cached /\ k.follow = Stop
    BY <2>2 DEF Evolves, IsCopy
  <2> HIDE DEF k
  <2>6. Complete(f) /\ f.users = m.users
    BY <1>1, <2>2 DEF Complete, Evolves
  <2>7. /\ AtRest(f, c) /\ f.cached = m.cached
        /\ m.users # {} => f.state.users # {}
    BY <1>10, <2>2, <2>6
  <2>8. AtRest(k, c)
    BY <2>5, <2>6, <2>7 DEF AtRest, Complete
  <2>9. Shows(k) /\ k.follow # NULL /\ Ready(k)
    BY <2>5, Nobody DEF Shows, IsCopy, Ready
  <2>10. UNCHANGED awaiting
    BY <2>1, <2>3, Asking
  <2>11. Acts(c, k, pushed)
    BY <2>1, <2>2, <2>3, <2>4, <2>5, <2>6, <2>7, <2>8, <2>9, <2>10 DEF Acts, m
  <2> QED
    BY <2>11
<1>11. ASSUME Leave(c) PROVE \E k, pushed : Acts(c, k, pushed)
  <2>1. Does(c, m, <<Request("close")>>) /\ decided' = decided
    BY <1>11 DEF Leave
  <2> HIDE DEF m
  <2>2. UNCHANGED awaiting
    BY <2>1, Asking
  <2>3. Acts(c, m, <<Request("close")>>)
    BY <1>1, <2>1, <2>2 DEF Acts, m
  <2> QED
    BY <2>3
<1> QED
  BY <1>3, <1>4, <1>5, <1>6, <1>7, <1>8, <1>11

-----------------------------------------------------------------------------
(* What the server does                                                    *)

\* The messages of a client that the server reads.
LEMMA MessageRead ==
  ASSUME IInv, TInv, NEW c \in Client, toServer[c] # <<>>
  PROVE  LET msg == Head(toServer[c]) IN
         /\ msg \in FromClient(c) /\ Len(toServer[c]) \in Nat
         /\ 1 \in 1 .. Len(toServer[c]) /\ msg = toServer[c][1]
         /\ c \in server.conn
         /\ msg.kind = "users" => msg.list \in GoodLists /\ msg = Users(msg.list)
         /\ msg.kind = "camera" => msg = Camera(c)
         /\ object = "fresh" /\ c \in awaiting /\ msg.kind = "users" =>
              msg.list = NoUsers
         /\ object = "fresh" /\ msg.kind = "pull" => server.ref # 0
<1> DEFINE msg == Head(toServer[c])
<1>1. /\ toServer[c] \in Seq(FromClient(c)) /\ (object = "fresh" => Joins(c))
      /\ Sent(c) /\ (object = "fresh" => CreatesFirst(c))
  BY DEF TInv, IInv
<1>2. /\ msg \in FromClient(c) /\ Len(toServer[c]) \in Nat
      /\ 1 \in 1 .. Len(toServer[c]) /\ msg = toServer[c][1]
  BY <1>1
<1>3. c \in server.conn
  BY <1>1 DEF Sent
<1> HIDE DEF msg
<1>4. /\ msg.kind = "users" => msg.list \in GoodLists /\ msg = Users(msg.list)
      /\ msg.kind = "camera" => msg = Camera(c)
  BY <1>2 DEF FromClient, Users, Camera, Request
<1>5. object = "fresh" /\ c \in awaiting /\ msg.kind = "users" => msg.list = NoUsers
  BY <1>1, <1>2 DEF Joins
<1>6. object = "fresh" /\ msg.kind = "pull" => server.ref # 0
  BY <1>1, <1>2 DEF CreatesFirst
<1> QED
  BY <1>2, <1>3, <1>4, <1>5, <1>6 DEF msg

\* What a list says of a master and of names is so.
Heeded(s, list) ==
  /\ \A u \in list.users : list.names[u] = s.names[u]
  /\ list.master # NULL => list.master = s.master /\ list.settings = s.settings

\* Who is master after a step for client c: who was, unless he leaves, or a
\* list names another; if that one has left, its author.
Succeeds(c) ==
  \/ server.master \in {NULL, server'.master} \/ server.master \notin server'.conn
  \/ LET msg == Head(toServer[c]) IN
     /\ Reads(c, "users") /\ msg.list.master # NULL
     /\ server'.master = IF msg.list.master \in server.conn THEN msg.list.master ELSE c
     /\ relay' # "stale" => \A b \in server'.conn \ {c} : ~IsStale(server', msg)

\* When there is no master although there is an object: there was none before,
\* and the pull that elects one remains under way.
Leaves(c) ==
  \/ server'.ref = 0 \/ server'.conn = {} \/ server'.master # NULL
  \/ /\ server.master = NULL /\ server'.conn = server.conn
     /\ \/ /\ server.ref # 0 /\ ~Reads(c, "pull") /\ \E kind : Reads(c, kind)
        \/ Reads(c, "users") /\ Head(toServer[c]).list.users = {}

\* A step of the server for client c.  Unless it loses its object its state
\* does not change in silence, neither is a list contradicted; and the others
\* hear no stale list unless relay says so.
Serves(c, said, more) ==
  /\ Hears(said, more) /\ Succeeds(c) /\ Leaves(c)
  /\ UNCHANGED <<manager, ops, decided>>
  /\ server'.master \in {NULL, server.master} \/ server'.ref # 0
  /\ Reads(c, "users") => server'.ref # 0
  /\ said = <<>> /\ object' # "stale" =>
       /\ server'.master # NULL => Same(server', server)
       /\ Reads(c, "users") => Heeded(server, Head(toServer[c]).list)
  /\ \A b \in Client :
       \/ more[b] = <<>>
       \/ /\ b # c /\ toServer[c] # <<>> /\ more[b] = <<Head(toServer[c])>>
          /\ Head(toServer[c]).kind \in {"users", "camera"}
          /\ server'.conn = server.conn
          /\ relay' # "stale" /\ b \in server'.conn =>
               ~IsStale(server', Head(toServer[c]))
       \/ /\ b = c /\ Reads(c, "pull")
          /\ \/ server'.master # NULL /\ more[b] = <<Reply(BuildServerState(server'))>>
             \/ object' = "stale" /\ more[b] = <<Reply(NoUsers)>>
  /\ \/ Connect(c) /\ server'.conn = server.conn \cup {c}
     \/ /\ \E kind : Reads(c, kind)
        /\ \/ server'.conn = server.conn
           \/ Reads(c, "close") /\ server'.conn = server.conn \ {c}

\* While all is well a master has the object behind him.
LEMMA MasterHasObject ==
  ASSUME IInv, TInv, server.ref = 0, object # "stale"
  PROVE  object = "fresh" /\ server.master = NULL
BY DEF IInv, TInv

\* A connection, and the departure of a client.
LEMMA ConnectServes ==
  ASSUME IInv, TInv, NEW c \in Client, Connect(c)
  PROVE  \E said, more : Serves(c, said, more)
<1> DEFINE conn == server.conn \cup {c}  s == [server EXCEPT !.conn = @ \cup {c}]
           R == {}  relayed == <<>>  announces == TRUE
<1>1. Speak(s, c, announces, NULL, relayed) /\ UNCHANGED <<manager, ops, decided>>
  BY DEF Connect
<1>2. /\ TypedServer(s) /\ s.conn = server.conn \cup {c}
      /\ s.master = server.master /\ s.ref = server.ref
  <2>1. TypedServer(server) /\ s = [server EXCEPT !.conn = conn]
    BY DEF TInv
  <2>2. conn \subseteq Client /\ server.conn \subseteq conn
    BY <2>1 DEF TypedServer, ServerState
  <2> HIDE DEF conn, s
  <2>3. /\ s \in ServerState /\ s.conn = conn /\ s.master = server.master
        /\ s.ref = server.ref
    BY <2>1, <2>2 DEF TypedServer, ServerState
  <2> QED
    BY <2>1, <2>2, <2>3 DEF TypedServer, conn
<1>3. relayed \in Seq(R) /\ relayed = <<>> /\ announces = TRUE
  OBVIOUS
<1>4. \A b \in Client : toClient[b] \in Seq(ForClient(b))
  BY DEF TInv
<1> HIDE DEF s, R, relayed, announces
<1>said. PICK said : Spoke(said, s, announces, NULL, relayed)
  BY <1>1, <1>2, <1>3, <1>4, Speaking
<1>5. /\ Hears(said, Relay(NULL, relayed)) /\ SameBut(server', s)
      /\ said = <<>> \/ s.master # NULL => server'.master = s.master
      /\ announces /\ s.ref # 0 => said # <<>>
  BY <1>said DEF Spoke
<1>6. /\ server'.conn = server.conn \cup {c} /\ server'.ref = server.ref
      /\ server.master # NULL => server'.master = server.master
  BY <1>2, <1>5 DEF SameBut
<1>7. \A b \in Client : Relay(NULL, relayed)[b] = <<>>
  BY <1>3 DEF Relay
<1>8. ~Reads(c, "users") /\ ~Reads(c, "pull")
  BY DEF Connect, IInv, Sent, Reads
<1>9. said = <<>> /\ object' # "stale" => server'.master = NULL
  <2> SUFFICES ASSUME said = <<>>, object' # "stale" PROVE server'.master = NULL
    OBVIOUS
  <2>1. server.ref = 0 /\ object' = object /\ server'.master = server.master
    BY <1>2, <1>3, <1>5 DEF Hears
  <2> QED
    BY <2>1, MasterHasObject
<1>10. Succeeds(c)
  BY <1>6 DEF Succeeds
<1>11. Leaves(c) /\ (server'.master \in {NULL, server.master} \/ server'.ref # 0)
  <2>1. CASE server.ref = 0
    <3>1. said = <<>>
      BY <1>5, <1>6, <2>1 DEF Hears
    <3> QED
      BY <1>2, <1>5, <1>6, <2>1, <3>1 DEF Leaves
  <2>2. CASE server.ref # 0
    <3>1. said # <<>>
      BY <1>2, <1>3, <1>5, <2>2
    <3> QED
      BY <1>5, <1>6, <2>2, <3>1 DEF Leaves, Hears
  <2> QED
    BY <2>1, <2>2
<1>12. Serves(c, said, Relay(NULL, relayed))
  BY <1>1, <1>5, <1>6, <1>7, <1>8, <1>9, <1>10, <1>11 DEF Serves
<1> QED
  BY <1>12

LEMMA CloseServes ==
  ASSUME IInv, TInv, NEW c \in Client, HandleClose(c)
  PROVE  \E said, more : Serves(c, said, more)
<1> DEFINE m == IF server.master = c THEN NULL ELSE server.master
           left == server.conn \ {c}
           gone == [server EXCEPT !.conn = @ \ {c},
                                  !.master = IF @ = c THEN NULL ELSE @]
           s == Collect(gone, c)
           R == {}  relayed == <<>>  announces == TRUE
<1>1. /\ Reads(c, "close") /\ Speak(s, NULL, announces, NULL, relayed)
      /\ UNCHANGED <<manager, ops, decided>>
  BY DEF HandleClose, Reads
<1>2. /\ TypedServer(gone) /\ gone.conn = left /\ gone.master = m
      /\ gone.ref = server.ref
  <2>1. TypedServer(server) /\ gone = [server EXCEPT !.conn = left, !.master = m]
    BY DEF TInv
  <2>2. left \subseteq Client /\ m \in left \cup {NULL} /\ m \in Client \cup {NULL}
    BY <2>1 DEF TypedServer, ServerState
  <2> HIDE DEF gone, left, m
  <2>3. /\ gone \in ServerState /\ gone.conn = left /\ gone.master = m
        /\ gone.ref = server.ref
    BY <2>1, <2>2 DEF TypedServer, ServerState
  <2> QED
    BY <2>2, <2>3 DEF TypedServer
<1>3. TypedServer(s) /\ Same(s, gone)
  <2> HIDE DEF gone
  <2> QED
    BY <1>2, Registered
<1>5. relayed \in Seq(R) /\ relayed = <<>> /\ announces = TRUE
  OBVIOUS
<1>6. \A b \in Client : toClient[b] \in Seq(ForClient(b))
  BY DEF TInv
<1>7. /\ s.conn = server.conn \ {c}
      /\ s.master = IF server.master = c THEN NULL ELSE server.master
  BY <1>2, <1>3 DEF Same
<1> HIDE DEF s, m, left, gone, R, relayed, announces
<1>said. PICK said : Spoke(said, s, announces, NULL, relayed)
  BY <1>1, <1>3, <1>5, <1>6, Speaking
<1>8. /\ Hears(said, Relay(NULL, relayed)) /\ SameBut(server', s)
      /\ said = <<>> \/ s.master # NULL => server'.master = s.master
      /\ announces /\ s.ref # 0 => said # <<>>
  BY <1>said DEF Spoke
<1>9. server'.conn = server.conn \ {c} /\ server'.ref = s.ref
  BY <1>7, <1>8 DEF SameBut
<1>10. \A b \in Client : Relay(NULL, relayed)[b] = <<>>
  BY <1>5 DEF Relay
<1>11. ~Reads(c, "users") /\ ~Reads(c, "pull")
  BY <1>1 DEF Reads
<1>12. said = <<>> /\ object' # "stale" => server'.master = NULL
  <2> SUFFICES ASSUME said = <<>>, object' # "stale" PROVE server'.master = NULL
    OBVIOUS
  <2>1. server'.ref = 0 /\ object' = object /\ server'.master = s.master
    BY <1>5, <1>8, <1>9 DEF Hears
  <2>2. server.ref = 0
    BY <1>8, <2>1 DEF Hears
  <2> QED
    BY <1>7, <2>1, <2>2, MasterHasObject
<1>13. Succeeds(c)
  BY <1>7, <1>8, <1>9 DEF Succeeds
<1>14. Leaves(c) /\ (server'.master \in {NULL, server.master} \/ server'.ref # 0)
  <2>1. CASE s.ref = 0
    <3>1. said = <<>>
      BY <1>8, <1>9, <2>1 DEF Hears
    <3> QED
      BY <1>7, <1>8, <1>9, <2>1, <3>1 DEF Leaves
  <2>2. CASE s.ref # 0
    <3>1. said # <<>>
      BY <1>5, <1>8, <2>2
    <3> QED
      BY <1>8, <1>9, <2>2, <3>1 DEF Leaves, Hears
  <2> QED
    BY <2>1, <2>2
<1>15. Serves(c, said, Relay(NULL, relayed))
  BY <1>1, <1>8, <1>9, <1>10, <1>11, <1>12, <1>13, <1>14 DEF Serves
<1> QED
  BY <1>15

\* A registration changes nothing that the server says.
LEMMA RegisterServes ==
  ASSUME IInv, TInv, NEW c \in Client, HandleRegister(c)
  PROVE  \E said, more : Serves(c, said, more)
<1> DEFINE said == <<>>  more == [b \in Client |-> <<>>]
<1>1. /\ Reads(c, "register") /\ server' = RegisterSI(server, c)
      /\ UNCHANGED <<toClient, relay, object, manager, ops, decided>>
  BY DEF HandleRegister, Reads
<1>2. /\ TypedServer(server') /\ Same(server', server)
      /\ server.ref # 0 <=> server'.ref # 0
  <2>1. TypedServer(server)
    BY DEF TInv
  <2> QED
    BY <1>1, <2>1, Registered
<1>3. c \in server.conn /\ ~Reads(c, "users") /\ ~Reads(c, "pull")
  BY <1>1, MessageRead DEF Reads
<1>4. toClient' = [b \in Client |-> IF b \notin server'.conn THEN <<>>
                                    ELSE toClient[b] \o said \o more[b]]
  <2>1. ASSUME NEW b \in Client
        PROVE  toClient[b] = IF b \notin server'.conn THEN <<>>
                             ELSE toClient[b] \o said \o more[b]
    <3>1. /\ toClient[b] \in Seq(ForClient(b))
          /\ toClient[b] # <<>> => b \in server.conn
      BY DEF TInv, Stands
    <3>2. toClient[b] \o <<>> = toClient[b]
      BY <3>1, ConcatEmptySeq
    <3> QED
      BY <1>2, <3>1, <3>2 DEF Same
  <2>2. toClient = [b \in Client |-> toClient[b]]
    BY DEF TInv
  <2> QED
    BY <1>1, <2>1, <2>2
<1>5. said \in Seq({Users(BuildServerState(server'))}) /\ said = <<>>
  OBVIOUS
<1>6. \A b \in Client : more[b] = <<>>
  OBVIOUS
<1> HIDE DEF said, more
<1>7. Hears(said, more)
  BY <1>1, <1>2, <1>4, <1>5 DEF Hears
<1>8. Succeeds(c) /\ Leaves(c)
  BY <1>1, <1>2, <1>3 DEF Succeeds, Leaves, Same
<1>9. Serves(c, said, more)
  BY <1>1, <1>2, <1>3, <1>6, <1>7, <1>8 DEF Serves, Same
<1> QED
  BY <1>9

\* A pushed list, a camera and a pull.
LEMMA PushServes ==
  ASSUME IInv, TInv, NEW c \in Client, HandlePush(c)
  PROVE  \E said, more : Serves(c, said, more)
<1> DEFINE msg == Head(toServer[c])
           s == Create(server)
           list == msg.list
           t == UpdateFromUsers(s, c, list)
           found == FindsChanges(s, c, list)
           R == {msg}  relayed == <<msg>>
<1>1. /\ Reads(c, "users") /\ Speak(t, c, found, c, relayed)
      /\ UNCHANGED <<manager, ops, decided>>
  BY DEF HandlePush, Reads
<1>2. /\ toServer[c] # <<>> /\ msg.kind = "users" /\ c \in server.conn
      /\ list \in GoodLists
      /\ object = "fresh" /\ c \in awaiting => list = NoUsers
  BY <1>1, MessageRead DEF Reads
<1>3. /\ TypedServer(s) /\ s.ref # 0 /\ s.conn = server.conn
      /\ s.master = server.master /\ s.settings = server.settings
      /\ server.ref # 0 => s = server
      /\ server.ref = 0 => s.named = {}
  <2>1. TypedServer(server)
    BY DEF TInv
  <2> QED
    BY <2>1, Created
<1>5. found \in BOOLEAN /\ relayed \in Seq(R)
  <2>1. found \in BOOLEAN
    BY DEF FindsChanges
  <2> QED
    BY <2>1
<1>6. Len(relayed) = 1 /\ relayed[1] = msg /\ 1 \in 1 .. Len(relayed)
  OBVIOUS
<1>7. \A b \in Client : toClient[b] \in Seq(ForClient(b))
  BY DEF TInv
<1>4. \A u \in list.users : server.ref = 0 => found
  BY <1>3 DEF FindsChanges
<1> HIDE DEF s, list, found, R
<1>8. Takes(t, s, c, list)
  BY <1>2, <1>3, UpdatedTyped
<1> HIDE DEF t
<1>9. TypedServer(t) /\ t.conn = server.conn /\ t.ref = s.ref
  BY <1>3, <1>8 DEF Takes
<1>said. PICK said : Spoke(said, t, found, c, relayed)
  <2> HIDE DEF relayed
  <2> QED
    BY <1>1, <1>5, <1>7, <1>9, Speaking
<1>10. /\ Hears(said, Relay(c, relayed)) /\ SameBut(server', t)
       /\ said = <<>> \/ t.master # NULL => server'.master = t.master
       /\ found /\ t.ref # 0 => said # <<>>
       /\ relay' # "stale" =>
            \A b \in server'.conn \ {c} : \A i \in 1 .. Len(relayed) :
              ~IsStale(server', relayed[i])
  BY <1>said DEF Spoke
<1>11. /\ server'.conn = server.conn /\ server'.ref # 0
       /\ said = <<>> => Same(server', t)
  BY <1>3, <1>9, <1>10 DEF SameBut, Same
<1>12. said = <<>> => ~found
  BY <1>3, <1>9, <1>10
<1>13. t.master = NULL => list.master = NULL /\ server.master = NULL
  <2>1. c # NULL /\ (list.master \in server.conn => list.master # NULL)
    BY <1>2, <1>3, Nobody, ClientsAreNotNull DEF TypedServer, ServerState
  <2> QED
    BY <1>3, <1>8, <2>1 DEF Takes
<1>14. ASSUME said = <<>>, object' # "stale"
       PROVE  /\ server'.master # NULL => Same(server', server)
              /\ Heeded(server, list)
  <2>1. object = object' /\ object # "stale"
    BY <1>10, <1>14 DEF Hears
  <2>2. CASE server.master # NULL
    <3>1. server.ref # 0 /\ s = server
      BY <1>3, <2>1, <2>2, MasterHasObject
    <3>2. Same(t, server) /\ Heeded(server, list)
      BY <1>2, <1>3, <1>12, <1>14, <2>2, <3>1, NothingNew DEF found, Heeded, t
    <3> QED
      BY <1>11, <1>14, <3>2 DEF Same
  <2>3. CASE server.master = NULL
    <3>1. object = "fresh" /\ c \in awaiting
      BY <1>2, <2>1, <2>3 DEF IInv, TInv
    <3>2. list = NoUsers
      BY <1>2, <3>1
    <3>3. list.master = NULL /\ list.users = {}
      BY <3>2, NobodyListed
    <3>4. server'.master = NULL
      BY <1>3, <1>8, <1>11, <1>14, <2>3, <3>3 DEF Takes, Same
    <3> QED
      BY <3>3, <3>4 DEF Heeded
  <2> QED
    BY <2>2, <2>3
<1>15. ASSUME NEW b \in Client
       PROVE  \/ Relay(c, relayed)[b] = <<>>
              \/ /\ b # c /\ Relay(c, relayed)[b] = <<msg>>
                 /\ relay' # "stale" /\ b \in server'.conn => ~IsStale(server', msg)
  BY <1>6, <1>10 DEF Relay
<1>16. Succeeds(c)
  <2>1. c # NULL /\ (list.master \in server.conn => list.master # NULL)
    BY <1>2, <1>3, Nobody, ClientsAreNotNull DEF TypedServer, ServerState
  <2>3. CASE list.master = NULL
    <3>1. t.master = server.master
      BY <1>3, <1>8, <2>3 DEF Takes
    <3> QED
      BY <1>10, <3>1 DEF Succeeds
  <2>4. CASE list.master # NULL
    <3>1. t.master = IF list.master \in server.conn THEN list.master ELSE c
      BY <1>3, <1>8, <2>4 DEF Takes
    <3>2. server'.master = IF list.master \in server.conn THEN list.master ELSE c
      BY <1>10, <2>1, <2>4, <3>1
    <3>3. relay' # "stale" => \A b \in server'.conn \ {c} : ~IsStale(server', msg)
      BY <1>6, <1>10
    <3> HIDE DEF msg
    <3> QED
      BY <1>1, <2>4, <3>2, <3>3 DEF Succeeds, list, msg
  <2> QED
    BY <2>3, <2>4
<1>17. Leaves(c)
  <2> SUFFICES ASSUME server'.master = NULL
               PROVE  /\ server.master = NULL
                      /\ list.users = {} \/ server.ref # 0
    BY <1>1, <1>11 DEF Leaves, list, Reads
  <2>1. said = <<>>
    BY <1>2, <1>10, <1>11 DEF Hears
  <2>2. t.master = NULL
    BY <1>11, <2>1 DEF Same
  <2>3. server.ref = 0 => \A u \in list.users : FALSE
    BY <1>4, <1>12, <2>1
  <2> QED
    BY <1>13, <2>2, <2>3
<1>18. Serves(c, said, Relay(c, relayed))
  <2> HIDE DEF relayed
  <2> QED
    BY <1>1, <1>2, <1>10, <1>11, <1>14, <1>15, <1>16, <1>17 DEF Serves, list
<1> QED
  BY <1>18

LEMMA CameraServes ==
  ASSUME IInv, TInv, NEW c \in Client, HandleCamera(c)
  PROVE  \E said, more : Serves(c, said, more)
<1> DEFINE msg == Head(toServer[c])
           R == {msg}  relayed == <<msg>>  announces == FALSE
<1>1. /\ Reads(c, "camera") /\ Speak(server, c, announces, c, relayed)
      /\ UNCHANGED <<manager, ops, decided>>
  BY DEF HandleCamera, Reads
<1>2. toServer[c] # <<>> /\ msg.kind = "camera"
  BY <1>1 DEF Reads
<1>3. announces \in BOOLEAN /\ relayed \in Seq(R)
  OBVIOUS
<1>4. /\ TypedServer(server)
      /\ \A b \in Client : toClient[b] \in Seq(ForClient(b))
  BY DEF TInv
<1>12. server' = server
  BY <1>1 DEF Speak
<1> HIDE DEF R, announces
<1>said. PICK said : Spoke(said, server, announces, c, relayed)
  <2> HIDE DEF relayed
  <2> QED
    BY <1>1, <1>3, <1>4, Speaking
<1>5. Hears(said, Relay(c, relayed))
  BY <1>said DEF Spoke
<1>6. Same(server', server)
  BY <1>12 DEF Same
<1>7. ~IsStale(server', msg)
  BY <1>2 DEF IsStale
<1>8. ASSUME NEW b \in Client
      PROVE  \/ Relay(c, relayed)[b] = <<>>
             \/ b # c /\ Relay(c, relayed)[b] = <<msg>>
  BY DEF Relay
<1>10. ~Reads(c, "users") /\ ~Reads(c, "pull")
  BY <1>1 DEF Reads
<1>11. Succeeds(c) /\ Leaves(c)
  BY <1>1, <1>10, <1>12 DEF Succeeds, Leaves
<1>9. Serves(c, said, Relay(c, relayed))
  <2> HIDE DEF relayed
  <2> QED
    BY <1>1, <1>2, <1>5, <1>6, <1>7, <1>8, <1>10, <1>11, <1>12 DEF Serves
<1> QED
  BY <1>9

LEMMA PullServes ==
  ASSUME IInv, TInv, NEW c \in Client, HandlePull(c)
  PROVE  \E said, more : Serves(c, said, more)
<1> DEFINE now == Announced(server, c)
           note == Users(BuildServerState(now))
           said == IF now.master = server.master THEN <<>> ELSE <<note>>
           reply == IF server.ref = 0 THEN NoUsers ELSE BuildServerState(now)
           answer == <<Reply(reply)>>
           more == [b \in Client |-> IF b = c THEN answer ELSE <<>>]
<1>1. /\ Reads(c, "pull") /\ server' = now
      /\ relay' = Healed(relay, said) /\ object' = Healed(object, said)
      /\ toClient' = [b \in Client |-> IF b \notin now.conn THEN <<>>
                        ELSE toClient[b] \o said \o
                             IF b = c THEN answer ELSE <<>>]
      /\ UNCHANGED <<manager, ops, decided>>
  BY DEF HandlePull, Reads
<1>2. c \in server.conn /\ (object = "fresh" => server.ref # 0)
  BY <1>1, MessageRead DEF Reads
<1>3. /\ SameBut(now, server)
      /\ server.master # NULL \/ server.ref = 0 => now.master = server.master
      /\ server.ref # 0 => now.master # NULL
  <2>1. TypedServer(server)
    BY DEF TInv
  <2> HIDE DEF now
  <2> QED
    BY <1>2, <2>1, AnnouncesOnly DEF now
<1>4. /\ said \in Seq({note})
      /\ said = <<>> <=> now.master = server.master
  <2> HIDE DEF note, now
  <2>1. <<>> \in Seq({note}) /\ <<note>> \in Seq({note}) /\ <<note>> # <<>>
    OBVIOUS
  <2> QED
    BY <2>1
<1>5. server.ref # 0 => reply = BuildServerState(server')
  BY <1>1
<1>6. server.ref = 0 => reply = NoUsers
  OBVIOUS
<1> HIDE DEF now, said, reply
<1>7. toClient' = [b \in Client |-> IF b \notin server'.conn THEN <<>>
                                    ELSE toClient[b] \o said \o more[b]]
  BY <1>1
<1>8. /\ TypedServer(server') /\ server'.conn = server.conn
      /\ server'.ref = server.ref
      /\ said # <<>> => server.ref # 0
  BY <1>1, <1>3, <1>4 DEF SameBut
<1>9. Hears(said, more)
  <2>1. /\ said = <<>> /\ relay' # "stale" => relay # "stale"
        /\ relay' = "fresh" => relay = "fresh"
        /\ object' \in {object, "healed"}
        /\ said = <<>> => object' = object
    BY <1>1, Remembers
  <2> HIDE DEF more
  <2> QED
    BY <1>1, <1>3, <1>4, <1>7, <1>8, <2>1 DEF Hears
<1>10. said = <<>> => Same(server', server)
  BY <1>1, <1>3, <1>4 DEF Same, SameBut
<1>11. ASSUME NEW b \in Client
       PROVE  \/ more[b] = <<>>
              \/ /\ b = c
                 /\ \/ server'.master # NULL /\ more[b] = <<Reply(BuildServerState(server'))>>
                    \/ object' = "stale" /\ more[b] = <<Reply(NoUsers)>>
  <2>1. CASE server.ref # 0
    BY <1>1, <1>3, <1>5, <2>1
  <2>2. CASE server.ref = 0
    <3>1. object = "stale"
      BY <1>2, <2>2, MasterHasObject
    <3>2. object' = "stale"
      BY <1>1, <1>8, <2>2, <3>1 DEF Healed
    <3> QED
      BY <1>6, <2>2, <3>2
  <2> QED
    BY <2>1, <2>2
<1>12. ~Reads(c, "users")
  BY <1>1 DEF Reads
<1>13. /\ Succeeds(c) /\ Leaves(c)
       /\ server'.master \in {NULL, server.master} \/ server'.ref # 0
  BY <1>1, <1>3, <1>8 DEF Succeeds, Leaves
<1>14. Serves(c, said, more)
  <2> HIDE DEF more
  <2> QED
    BY <1>1, <1>8, <1>9, <1>10, <1>11, <1>12, <1>13 DEF Serves
<1> QED
  BY <1>14
-----------------------------------------------------------------------------
(* Types, and how each client stands                                       *)

\* What is where in a queue p that was q, when s and t were appended.
Appends(p, q, s, t) ==
  /\ Len(p) = Len(q) + Len(s) + Len(t)
  /\ Len(q) \in Nat /\ Len(s) \in Nat /\ Len(t) \in Nat
  /\ \A i \in 1 .. Len(q) : p[i] = q[i]
  /\ \A i \in 1 .. Len(s) : p[Len(q) + i] = s[i]
  /\ \A i \in 1 .. Len(t) : p[Len(q) + Len(s) + i] = t[i]
  /\ \A i \in 1 .. Len(p) : \/ i \in 1 .. Len(q)
                            \/ i - Len(q) \in 1 .. Len(s)
                            \/ i - Len(q) - Len(s) \in 1 .. Len(t)

LEMMA Appending ==
  ASSUME NEW A, NEW q \in Seq(A), NEW B, NEW s \in Seq(B), NEW C, NEW t \in Seq(C)
  PROVE  Appends(q \o s \o t, q, s, t)
<1> DEFINE p == q \o s \o t
           M == A \cup B \cup C
           r == q \o s
<1>1. q \in Seq(M) /\ s \in Seq(M) /\ t \in Seq(M)
  OBVIOUS
<1> HIDE DEF M
<1>2. /\ r \in Seq(M) /\ Len(r) = Len(q) + Len(s)
      /\ Len(q) \in Nat /\ Len(s) \in Nat /\ Len(t) \in Nat
      /\ \A i \in 1 .. Len(q) : r[i] = q[i]
      /\ \A i \in 1 .. Len(s) : r[Len(q) + i] = s[i]
  BY <1>1
<1> HIDE DEF r
<1>3. /\ Len(r \o t) = Len(r) + Len(t)
      /\ \A i \in 1 .. Len(r) : (r \o t)[i] = r[i]
      /\ \A i \in 1 .. Len(t) : (r \o t)[Len(r) + i] = t[i]
  <2>1. r \in Seq(M) /\ t \in Seq(M)
    BY <1>1, <1>2
  <2> QED
    BY <2>1
<1>4. p = r \o t
  BY DEF r
<1> HIDE DEF p
<1>5. /\ Len(p) = Len(q) + Len(s) + Len(t)
      /\ \A i \in 1 .. Len(q) : p[i] = q[i]
      /\ \A i \in 1 .. Len(s) : p[Len(q) + i] = s[i]
      /\ \A i \in 1 .. Len(t) : p[Len(q) + Len(s) + i] = t[i]
  BY <1>2, <1>3, <1>4
<1>6. \A i \in 1 .. Len(p) : \/ i \in 1 .. Len(q)
                             \/ i - Len(q) \in 1 .. Len(s)
                             \/ i - Len(q) - Len(s) \in 1 .. Len(t)
  BY <1>2, <1>5
<1> QED
  BY <1>2, <1>5, <1>6 DEF p, Appends

\* A message of such a queue comes from somewhere.
LEMMA WhereFrom ==
  ASSUME NEW p, NEW q, NEW s, NEW t, Appends(p, q, s, t), NEW i \in 1 .. Len(p)
  PROVE  \/ \E j \in 1 .. Len(q) : p[i] = q[j]
         \/ \E j \in 1 .. Len(s) : p[i] = s[j]
         \/ \E j \in 1 .. Len(t) : p[i] = t[j]
<1>1. /\ Len(q) \in Nat /\ Len(s) \in Nat /\ i \in Int
      /\ \A j \in 1 .. Len(q) : p[j] = q[j]
      /\ \A j \in 1 .. Len(s) : p[Len(q) + j] = s[j]
      /\ \A j \in 1 .. Len(t) : p[Len(q) + Len(s) + j] = t[j]
  BY DEF Appends
<1>2. \/ i \in 1 .. Len(q) \/ i - Len(q) \in 1 .. Len(s)
      \/ i - Len(q) - Len(s) \in 1 .. Len(t)
  BY DEF Appends
<1>3. \A a, b \in Nat, n \in Int : a + (n - a) = n /\ a + b + (n - a - b) = n
  OBVIOUS
<1>4. CASE i \in 1 .. Len(q)
  BY <1>1, <1>4
<1>5. CASE i - Len(q) \in 1 .. Len(s)
  <2>1. p[Len(q) + (i - Len(q))] = s[i - Len(q)]
    BY <1>1, <1>5
  <2>2. Len(q) + (i - Len(q)) = i
    BY <1>1, <1>3
  <2> QED
    BY <1>5, <2>1, <2>2
<1>6. CASE i - Len(q) - Len(s) \in 1 .. Len(t)
  <2>1. p[Len(q) + Len(s) + (i - Len(q) - Len(s))] = t[i - Len(q) - Len(s)]
    BY <1>1, <1>6
  <2>2. Len(q) + Len(s) + (i - Len(q) - Len(s)) = i
    BY <1>1, <1>3
  <2> QED
    BY <1>6, <2>1, <2>2
<1> QED
  BY <1>2, <1>4, <1>5, <1>6

\* The queue of a client that remains, after a step of the server.
LEMMA HeardQueue ==
  ASSUME TInv, NEW said, NEW more, Hears(said, more), NEW b \in Client,
         b \in server'.conn, NEW M, more[b] \in Seq(M)
  PROVE  /\ Appends(toClient'[b], toClient[b], said, more[b])
         /\ \A i \in 1 .. Len(said) : said[i] = Users(BuildServerState(server'))
<1> DEFINE note == Users(BuildServerState(server'))
<1>1. toClient[b] \in Seq(ForClient(b))
  BY DEF TInv
<1>2. /\ said \in Seq({note})
      /\ toClient'[b] = toClient[b] \o said \o more[b]
  BY DEF Hears
<1> HIDE DEF note
<1>3. \A i \in 1 .. Len(said) : said[i] = note
  BY <1>2
<1> QED
  BY <1>1, <1>2, <1>3, Appending DEF note

\* What a client hears besides: nothing, or one message, which is a reply only
\* if the server has read its pull.
LEMMA MoreTyped ==
  ASSUME IInv, TInv, NEW c \in Client, NEW said, NEW more, Serves(c, said, more),
         NEW b \in Client
  PROVE  /\ more[b] \in Seq(ForClient(b))
         /\ \A i \in 1 .. Len(more[b]) :
              /\ i = 1 /\ Len(more[b]) = 1
              /\ more[b][i].kind = "reply" =>
                   /\ b = c /\ Reads(c, "pull")
                   /\ more[b][i].list.follow = NULL
                   /\ more[b][i].list.master # NULL \/ object' = "stale"
<1> DEFINE msg == Head(toServer[c])
           reply == Reply(BuildServerState(server'))
           nobody == Reply(NoUsers)
<1>4. ASSUME NEW x \in ForClient(b)
      PROVE  <<x>> \in Seq(ForClient(b)) /\ Len(<<x>>) = 1 /\ <<x>>[1] = x
  BY <1>4
<1>5. \A i \in 1 .. 1 : i = 1
  OBVIOUS
<1>1. CASE more[b] = <<>>
  <2>1. <<>> \in Seq(ForClient(b)) /\ 1 .. Len(<<>>) = {}
    OBVIOUS
  <2> QED
    BY <1>1, <2>1
<1>2. CASE /\ b # c /\ toServer[c] # <<>> /\ more[b] = <<msg>>
           /\ msg.kind \in {"users", "camera"}
  <2>1. /\ msg.kind = "users" => msg.list \in GoodLists /\ msg = Users(msg.list)
        /\ msg.kind = "camera" => msg = Camera(c)
    BY <1>2, MessageRead
  <2>2. msg \in ForClient(b)
    BY <1>2, <2>1 DEF ForClient
  <2> HIDE DEF msg
  <2> QED
    BY <1>2, <1>4, <1>5, <2>2
<1>3. CASE /\ b = c /\ Reads(c, "pull")
           /\ \/ server'.master # NULL /\ more[b] = <<reply>>
              \/ object' = "stale" /\ more[b] = <<nobody>>
  <2>1. /\ BuildServerState(server') \in GoodLists
        /\ BuildServerState(server').follow = NULL
        /\ BuildServerState(server').master = server'.master
    BY ServerSays DEF Serves, Hears
  <2>2. /\ reply \in ForClient(b) /\ reply.list.follow = NULL
        /\ reply.list.master = server'.master
    BY <2>1 DEF ForClient, Reply
  <2>3. nobody \in ForClient(b) /\ nobody.list.follow = NULL
    BY NobodyListed DEF ForClient, Reply
  <2> HIDE DEF reply, nobody
  <2> QED
    BY <1>3, <1>4, <1>5, <2>2, <2>3
<1> QED
  BY <1>1, <1>2, <1>3 DEF Serves

\* Replies in the queue of a client are old ones, or the server has just read
\* its pull.
LEMMA NewReplies ==
  ASSUME IInv, TInv, NEW c \in Client, NEW said, NEW more, Serves(c, said, more),
         NEW b \in Client, NEW i \in 1 .. Len(toClient'[b]),
         toClient'[b][i].kind = "reply"
  PROVE  \/ i \in 1 .. Len(toClient[b]) /\ toClient'[b][i] = toClient[b][i]
         \/ /\ b = c /\ Reads(c, "pull") /\ i = Len(toClient[b]) + Len(said) + 1
            /\ toClient'[b][i].list.follow = NULL
            /\ toClient'[b][i].list.master # NULL \/ object' = "stale"
<1> DEFINE q == toClient[b]  p == toClient'[b]  note == Users(BuildServerState(server'))
<1>1. Hears(said, more)
  BY DEF Serves
<1>2. b \in server'.conn
  <2> SUFFICES ASSUME b \notin server'.conn PROVE FALSE
    OBVIOUS
  <2>1. p = <<>>
    BY <1>1 DEF Hears
  <2> QED
    BY <2>1
<1>3. /\ more[b] \in Seq(ForClient(b))
      /\ \A j \in 1 .. Len(more[b]) :
           /\ j = 1
           /\ more[b][j].kind = "reply" =>
                /\ b = c /\ Reads(c, "pull")
                /\ more[b][j].list.follow = NULL
                /\ more[b][j].list.master # NULL \/ object' = "stale"
  BY MoreTyped
<1>4. /\ Appends(p, q, said, more[b])
      /\ \A j \in 1 .. Len(said) : said[j] = note
  BY <1>1, <1>2, <1>3, HeardQueue
<1>5. note.kind # "reply"
  BY DEF Users
<1>6. i \in 1 .. Len(p) /\ p[i].kind = "reply"
  OBVIOUS
<1> HIDE DEF q, p, note
<1>7. Len(q) \in Nat /\ Len(said) \in Nat /\ i \in Int
  BY <1>4, <1>6 DEF Appends
<1>8. CASE i \in 1 .. Len(q)
  <2>1. p[i] = q[i]
    BY <1>4, <1>8 DEF Appends
  <2> QED
    BY <1>8, <2>1 DEF p, q
<1>9. CASE i - Len(q) \in 1 .. Len(said)
  <2>1. p[Len(q) + (i - Len(q))] = said[i - Len(q)]
    BY <1>4, <1>9 DEF Appends
  <2>2. Len(q) + (i - Len(q)) = i
    BY <1>7
  <2> QED
    BY <1>4, <1>5, <1>6, <1>9, <2>1, <2>2
<1>10. CASE i - Len(q) - Len(said) \in 1 .. Len(more[b])
  <2> DEFINE j == i - Len(q) - Len(said)
  <2>1. p[Len(q) + Len(said) + j] = more[b][j] /\ j = 1
    BY <1>3, <1>4, <1>10 DEF Appends
  <2>2. Len(q) + Len(said) + j = i
    BY <1>7
  <2>3. p[i] = more[b][j] /\ i = Len(q) + Len(said) + 1
    BY <1>7, <2>1, <2>2
  <2> HIDE DEF j
  <2>4. /\ b = c /\ Reads(c, "pull")
        /\ p[i].list.follow = NULL
        /\ p[i].list.master # NULL \/ object' = "stale"
    BY <1>3, <1>6, <1>10, <2>3 DEF j
  <2> QED
    BY <2>3, <2>4 DEF p, q
<1> QED
  BY <1>4, <1>6, <1>8, <1>9, <1>10 DEF Appends

\* What is left of a queue of which at most the first message was taken.
LEMMA TailOf ==
  ASSUME NEW S, NEW q \in Seq(S), NEW p, p = q \/ (q # <<>> /\ p = Tail(q))
  PROVE  /\ p \in Seq(S)
         /\ \E d \in {0, 1} : \A i \in 1 .. Len(p) : i + d \in 1 .. Len(q) /\ p[i] = q[i + d]
<1>1. CASE p = q
  <2>1. \A i \in 1 .. Len(p) : i + 0 \in 1 .. Len(q) /\ p[i] = q[i + 0]
    BY <1>1
  <2> QED
    BY <1>1, <2>1
<1>2. CASE q # <<>> /\ p = Tail(q)
  <2>1. \A i \in 1 .. Len(p) : i + 1 \in 1 .. Len(q) /\ p[i] = q[i + 1]
    BY <1>2
  <2> QED
    BY <1>2, <2>1
<1> QED
  BY <1>1, <1>2

\* A client stands as it did when the server took one of its messages and it
\* was told something that is no reply, or left.
LEMMA StandsOn ==
  ASSUME NEW b \in Client, Stands(b), toServer[b] \in Seq(FromClient(b)),
         b \in awaiting' <=> b \in awaiting,
         toClient'[b] # <<>> => b \in server'.conn,
         \/ toServer'[b] = toServer[b]
         \/ toServer[b] # <<>> /\ toServer'[b] = Tail(toServer[b]),
         \A i \in 1 .. Len(toClient'[b]) :
           toClient'[b][i].kind = "reply" =>
             i \in 1 .. Len(toClient[b]) /\ toClient'[b][i] = toClient[b][i]
  PROVE  Stands(b)'
<1> DEFINE q == toServer[b]  q1 == toServer'[b]
           p == toClient[b]  p1 == toClient'[b]
<1>1. q \in Seq(FromClient(b)) /\ (q1 = q \/ (q # <<>> /\ q1 = Tail(q)))
  OBVIOUS
<1>2. PICK d \in {0, 1} :
        \A i \in 1 .. Len(q1) : i + d \in 1 .. Len(q) /\ q1[i] = q[i + d]
  <2> HIDE DEF q, q1
  <2> QED
    BY <1>1, TailOf
<1>3. \A i, j \in 1 .. Len(q1) : i + d = j + d => i = j
  BY <1>2
<1>4. /\ b \notin awaiting => /\ \A i \in 1 .. Len(q) : q[i].kind # "pull"
                              /\ \A i \in 1 .. Len(p) : p[i].kind # "reply"
      /\ \A i, j \in 1 .. Len(q) : q[i].kind = "pull" /\ q[j].kind = "pull" => i = j
      /\ \A i, j \in 1 .. Len(p) : p[i].kind = "reply" /\ p[j].kind = "reply" => i = j
      /\ \A i \in 1 .. Len(q) : \A j \in 1 .. Len(p) :
           ~(q[i].kind = "pull" /\ p[j].kind = "reply")
      /\ \A i \in 1 .. Len(p) : p[i].kind = "reply" => p[i].list.follow = NULL
  BY DEF Stands
<1>5. \A i \in 1 .. Len(p1) : p1[i].kind = "reply" => i \in 1 .. Len(p) /\ p1[i] = p[i]
  OBVIOUS
<1> HIDE DEF q, q1, p, p1
<1>7. b \notin awaiting => /\ \A i \in 1 .. Len(q1) : q1[i].kind # "pull"
                           /\ \A i \in 1 .. Len(p1) : p1[i].kind # "reply"
  BY <1>2, <1>4, <1>5
<1>8. \A i, j \in 1 .. Len(q1) : q1[i].kind = "pull" /\ q1[j].kind = "pull" => i = j
  BY <1>2, <1>3, <1>4
<1>9. \A i, j \in 1 .. Len(p1) : p1[i].kind = "reply" /\ p1[j].kind = "reply" => i = j
  BY <1>4, <1>5
<1>10. \A i \in 1 .. Len(q1) : \A j \in 1 .. Len(p1) :
         ~(q1[i].kind = "pull" /\ p1[j].kind = "reply")
  BY <1>2, <1>4, <1>5
<1>11. \A i \in 1 .. Len(p1) : p1[i].kind = "reply" => p1[i].list.follow = NULL
  BY <1>4, <1>5
<1> USE DEF q, q1, p, p1
<1> QED
  BY <1>4, <1>7, <1>8, <1>9, <1>10, <1>11 DEF Stands

\* So does it join.
LEMMA JoinsOn ==
  ASSUME NEW b \in Client, Joins(b), toServer[b] \in Seq(FromClient(b)),
         manager'[b] = manager[b], b \in unborn' => b \in unborn,
         b \in awaiting' <=> b \in awaiting, b \in server'.conn => b \in server.conn,
         \/ toServer'[b] = toServer[b]
         \/ toServer[b] # <<>> /\ toServer'[b] = Tail(toServer[b]),
         \A i \in 1 .. Len(toClient'[b]) :
           toClient'[b][i].kind = "reply" => toClient'[b][i].list.master # NULL
  PROVE  Joins(b)'
<1> DEFINE q == toServer[b]  q1 == toServer'[b]
<1>1. PICK d \in {0, 1} :
        \A i \in 1 .. Len(q1) : i + d \in 1 .. Len(q) /\ q1[i] = q[i + d]
  BY TailOf
<1>2. b \in awaiting => \A i \in 1 .. Len(q) : q[i].kind = "users" => q[i].list = NoUsers
  BY DEF Joins
<1> HIDE DEF q, q1
<1>3. b \in awaiting => \A i \in 1 .. Len(q1) : q1[i].kind = "users" => q1[i].list = NoUsers
  BY <1>1, <1>2
<1> USE DEF q, q1
<1> QED
  BY <1>3 DEF Joins

\* A step of the server is a connection, or reads a message of c; only a close
\* changes who is connected.
LEMMA ServerSteps ==
  ASSUME IInv, TInv, NEW c \in Client, NEW said, NEW more, Serves(c, said, more)
  PROVE  \/ /\ Connect(c) /\ c \in unborn /\ c \notin server.conn
            /\ toServer[c] = <<>> /\ toClient[c] = <<>>
            /\ unborn' = unborn \ {c} /\ awaiting' = awaiting \cup {c}
            /\ server'.conn = server.conn \cup {c}
            /\ \A kind : ~Reads(c, kind)
            /\ \A b \in Client :
                 toServer'[b] =
                   IF b = c THEN <<Request("register"), Users(NoUsers), Request("pull")>>
                   ELSE toServer[b]
         \/ /\ \E kind : Reads(c, kind)
            /\ c \in server.conn /\ toServer[c] # <<>>
            /\ unborn' = unborn /\ awaiting' = awaiting
            /\ server'.conn \subseteq server.conn
            /\ \A b \in Client :
                 toServer'[b] = IF b = c THEN Tail(toServer[c]) ELSE toServer[b]
<1>1. /\ toServer = [b \in Client |-> toServer[b]]
      /\ Sent(c) /\ server.conn \cap unborn = {} /\ Stands(c)
  BY DEF TInv, IInv
<1>2. CASE Connect(c) /\ server'.conn = server.conn \cup {c}
  <2> DEFINE first == <<Request("register"), Users(NoUsers), Request("pull")>>
  <2>1. /\ c \in unborn /\ unborn' = unborn \ {c} /\ awaiting' = awaiting \cup {c}
        /\ toServer' = [toServer EXCEPT ![c] = first]
    BY <1>2 DEF Connect
  <2>2. c \notin server.conn /\ toServer[c] = <<>> /\ toClient[c] = <<>>
    BY <1>1, <2>1 DEF Sent, Stands
  <2>3. \A kind : ~Reads(c, kind)
    BY <2>2 DEF Reads
  <2> HIDE DEF first
  <2>4. \A b \in Client : toServer'[b] = IF b = c THEN first ELSE toServer[b]
    BY <1>1, <2>1
  <2> QED
    BY <1>2, <2>1, <2>2, <2>3, <2>4 DEF first
<1>3. CASE /\ \E kind : Reads(c, kind)
           /\ \/ server'.conn = server.conn
              \/ Reads(c, "close") /\ server'.conn = server.conn \ {c}
  <2>1. /\ toServer[c] # <<>> /\ unborn' = unborn /\ awaiting' = awaiting
        /\ toServer' = [toServer EXCEPT ![c] = Tail(@)]
    BY <1>3 DEF Reads
  <2>2. c \in server.conn
    BY <1>1, <2>1 DEF Sent
  <2>3. \A b \in Client : toServer'[b] = IF b = c THEN Tail(toServer[c]) ELSE toServer[b]
    BY <1>1, <2>1
  <2> QED
    BY <1>3, <2>1, <2>2, <2>3
<1> QED
  BY <1>2, <1>3 DEF Serves

\* What a client that connects has sent.
LEMMA First ==
  LET first == <<Request("register"), Users(NoUsers), Request("pull")>> IN
  /\ \A c : first \in Seq(FromClient(c))
  /\ Len(first) = 3
  /\ first[1].kind = "register" /\ first[2] = Users(NoUsers) /\ first[3].kind = "pull"
  /\ \A i \in 1 .. Len(first) : /\ first[i].kind = "users" <=> i = 2
                                /\ first[i].kind = "pull" <=> i = 3
                                /\ first[i].kind # "close"
<1> DEFINE a == Request("register")  b == Users(NoUsers)  d == Request("pull")
           first == <<a, b, d>>
<1>1. /\ a.kind = "register" /\ b.kind = "users" /\ d.kind = "pull"
  BY DEF Request, Users
<1>2. ASSUME NEW c PROVE a \in FromClient(c) /\ b \in FromClient(c) /\ d \in FromClient(c)
  BY NobodyListed DEF FromClient
<1>3. b = Users(NoUsers)
  OBVIOUS
<1> HIDE DEF a, b, d
<1>4. /\ Len(first) = 3 /\ first[1] = a /\ first[2] = b /\ first[3] = d
      /\ \A i \in 1 .. 3 : i = 1 \/ i = 2 \/ i = 3
  OBVIOUS
<1>5. ASSUME NEW c PROVE first \in Seq(FromClient(c))
  BY <1>2
<1> HIDE DEF first
<1>6. \A i \in 1 .. Len(first) : /\ first[i].kind = "users" <=> i = 2
                                 /\ first[i].kind = "pull" <=> i = 3
                                 /\ first[i].kind # "close"
  BY <1>1, <1>4
<1> QED
  BY <1>1, <1>3, <1>4, <1>5, <1>6 DEF first, a, b, d

\* The server has read the pull of a client: its reply is under way.
LEMMA PulledStands ==
  ASSUME IInv, TInv, NEW c \in Client, NEW said, NEW more, Serves(c, said, more),
         Reads(c, "pull")
  PROVE  Stands(c)'
<1> DEFINE q == toServer[c]  q1 == toServer'[c]
           p == toClient[c]  p1 == toClient'[c]
<1>1. /\ q # <<>> /\ q[1].kind = "pull" /\ 1 \in 1 .. Len(q)
      /\ q1 = Tail(q) /\ awaiting' = awaiting
  BY MessageRead DEF Reads, TInv
<1>2. q \in Seq(FromClient(c)) /\ Stands(c)
  BY DEF TInv
<1>3. \A i \in 1 .. Len(q1) : i + 1 \in 1 .. Len(q) /\ q1[i] = q[i + 1] /\ i + 1 # 1
  BY <1>1, <1>2
<1>4. /\ \A i \in 1 .. Len(q) : q[i].kind = "pull" => i = 1
      /\ \A i \in 1 .. Len(p) : p[i].kind # "reply"
      /\ c \in awaiting
  BY <1>1, <1>2 DEF Stands
<1>5. \A i \in 1 .. Len(q1) : q1[i].kind # "pull"
  BY <1>3, <1>4
<1>6. \A i \in 1 .. Len(p1) :
        p1[i].kind = "reply" => i = Len(p) + Len(said) + 1 /\ p1[i].list.follow = NULL
  BY <1>4, NewReplies
<1>7. p1 # <<>> => c \in server'.conn
  BY DEF Serves, Hears
<1>8. \A i, j \in 1 .. Len(p1) : p1[i].kind = "reply" /\ p1[j].kind = "reply" => i = j
  BY <1>6
<1> QED
  BY <1>1, <1>4, <1>5, <1>6, <1>7, <1>8 DEF Stands

\* A client that has just connected waits.
LEMMA ConnectedStands ==
  ASSUME IInv, TInv, NEW c \in Client, NEW said, NEW more, Serves(c, said, more),
         Connect(c)
  PROVE  Stands(c)' /\ (object' = "fresh" => Joins(c)')
<1> DEFINE q == toServer'[c]  p == toClient'[c]
<1>1. /\ c \in unborn /\ awaiting' = awaiting \cup {c} /\ toClient[c] = <<>>
      /\ \A kind : ~Reads(c, kind)
      /\ q = <<Request("register"), Users(NoUsers), Request("pull")>>
  BY ServerSteps DEF Connect, Reads
<1>2. /\ \A i \in 1 .. Len(q) : q[i].kind = "users" => i = 2 /\ q[i] = Users(NoUsers)
      /\ \A i \in 1 .. Len(q) : q[i].kind = "pull" => i = 3
  BY <1>1, First
<1>3. \A i \in 1 .. Len(p) : p[i].kind # "reply"
  BY <1>1, NewReplies
<1>4. p # <<>> => c \in server'.conn
  BY DEF Serves, Hears
<1> HIDE DEF q, p
<1>5. /\ \A i, j \in 1 .. Len(q) : q[i].kind = "pull" /\ q[j].kind = "pull" => i = j
      /\ \A i \in 1 .. Len(q) : q[i].kind = "users" => q[i].list = NoUsers
  BY <1>2 DEF Users
<1>6. object' = "fresh" => manager[c] = NewManager /\ manager' = manager
  BY <1>1 DEF TInv, Joins, Serves, Hears
<1>7. Ready(NewManager)
  BY DEF Ready, NewManager
<1> USE DEF q, p
<1> QED
  BY <1>1, <1>3, <1>4, <1>5, <1>6, <1>7 DEF Stands, Joins

\* The others stand as they did.
LEMMA ServedStand ==
  ASSUME IInv, TInv, NEW c \in Client, NEW said, NEW more, Serves(c, said, more),
         NEW b \in Client
  PROVE  Stands(b)' /\ (object' = "fresh" => Joins(b)')
<1>1. Stands(b) /\ (object = "fresh" => Joins(b)) /\ toServer[b] \in Seq(FromClient(b))
  BY DEF TInv
<1>2. /\ toClient'[b] # <<>> => b \in server'.conn
      /\ manager' = manager /\ (object' = "fresh" => object = "fresh")
  BY DEF Serves, Hears
<1>3. CASE Connect(c) /\ b = c
  BY <1>3, ConnectedStands
<1>4. CASE ~(Connect(c) /\ b = c)
  <2>1. /\ b \in unborn' => b \in unborn
        /\ b \in awaiting' <=> b \in awaiting
        /\ b \in server'.conn => b \in server.conn
        /\ \/ toServer'[b] = toServer[b]
           \/ toServer[b] # <<>> /\ toServer'[b] = Tail(toServer[b])
    BY <1>4, ServerSteps
  <2>2. Stands(b)'
    <3>1. CASE b = c /\ Reads(c, "pull")
      BY <3>1, PulledStands
    <3>2. CASE ~(b = c /\ Reads(c, "pull"))
      <4>1. \A i \in 1 .. Len(toClient'[b]) :
              toClient'[b][i].kind = "reply" =>
                i \in 1 .. Len(toClient[b]) /\ toClient'[b][i] = toClient[b][i]
        BY <3>2, NewReplies
      <4> QED
        BY <1>1, <1>2, <2>1, <4>1, StandsOn
    <3> QED
      BY <3>1, <3>2
  <2>3. ASSUME object' = "fresh" PROVE Joins(b)'
    <3>1. Joins(b)
      BY <1>1, <1>2, <2>3
    <3>2. \A i \in 1 .. Len(toClient'[b]) :
            toClient'[b][i].kind = "reply" => toClient'[b][i].list.master # NULL
      BY <2>3, <3>1, NewReplies DEF Joins
    <3> QED
      BY <1>1, <1>2, <2>1, <3>1, <3>2, JoinsOn
  <2> QED
    BY <2>2, <2>3
<1> QED
  BY <1>3, <1>4

\* A step of the server keeps the types.
LEMMA ServedTyped ==
  ASSUME IInv, TInv, NEW c \in Client, NEW said, NEW more, Serves(c, said, more)
  PROVE  TInv'
<1>1. Hears(said, more) /\ UNCHANGED <<manager, ops>>
  BY DEF Serves
<1>2. \A b \in Client : Stands(b)' /\ (object' = "fresh" => Joins(b)')
  BY ServedStand
<1>3. ASSUME NEW b \in Client PROVE toClient'[b] \in Seq(ForClient(b))
  <2>1. CASE b \notin server'.conn
    BY <1>1, <2>1 DEF Hears
  <2>2. CASE b \in server'.conn
    <3> DEFINE note == Users(BuildServerState(server'))
    <3>1. toClient[b] \in Seq(ForClient(b)) /\ more[b] \in Seq(ForClient(b))
      BY MoreTyped DEF TInv
    <3>2. said \in Seq({note}) /\ toClient'[b] = toClient[b] \o said \o more[b]
      BY <1>1, <2>2 DEF Hears
    <3>3. note \in ForClient(b)
      BY <1>1, ServerSays DEF Hears, ForClient
    <3> HIDE DEF note
    <3>4. said \in Seq(ForClient(b))
      BY <3>2, <3>3
    <3> QED
      BY <3>1, <3>2, <3>4
  <2> QED
    BY <2>1, <2>2
<1>4. /\ toServer' = [b \in Client |-> toServer'[b]]
      /\ \A b \in Client : toServer'[b] \in Seq(FromClient(b))
      /\ awaiting' \subseteq Client
  <2>1. /\ toServer = [b \in Client |-> toServer[b]] /\ awaiting \subseteq Client
        /\ \A b \in Client : toServer[b] \in Seq(FromClient(b))
    BY DEF TInv
  <2>2. toServer' = [b \in Client |-> toServer'[b]]
    <3>1. \E x : toServer' = [toServer EXCEPT ![c] = x]
      BY DEF Serves, Connect, Reads
    <3> QED
      BY <2>1, <3>1
  <2>3. ASSUME NEW b \in Client PROVE toServer'[b] \in Seq(FromClient(b))
    <3>1. \/ toServer'[b] = toServer[b]
          \/ toServer[b] # <<>> /\ toServer'[b] = Tail(toServer[b])
          \/ toServer'[b] = <<Request("register"), Users(NoUsers), Request("pull")>>
      BY ServerSteps
    <3> QED
      BY <2>1, <3>1, First, TailOf
  <2>4. awaiting' \subseteq Client
    BY <2>1, ServerSteps
  <2> QED
    BY <2>2, <2>3, <2>4
<1>5. toClient' = [b \in Client |-> toClient'[b]] /\ TypedServer(server')
  BY <1>1 DEF Hears
<1>6. object' \in {"fresh", "healed", "stale"}
  BY <1>1 DEF Hears, TInv
<1> QED
  BY <1>1, <1>2, <1>3, <1>4, <1>5, <1>6 DEF TInv

\* And the session has a master, as before.
LEMMA ServedSent ==
  ASSUME IInv, TInv, NEW c \in Client, NEW said, NEW more, Serves(c, said, more),
         NEW b \in Client
  PROVE  Sent(b)'
<1> DEFINE q == toServer[b]  p == toServer'[b]
<1>1. Sent(b) /\ toServer[b] \in Seq(FromClient(b))
  BY DEF TInv, IInv
<1>2. CASE Connect(c) /\ b = c
  <2>1. b \in server'.conn /\ p = <<Request("register"), Users(NoUsers), Request("pull")>>
    BY <1>2, ServerSteps DEF Connect, Reads
  <2>2. /\ Len(p) = 3 /\ p[3].kind = "pull"
        /\ \A i \in 1 .. Len(p) : p[i].kind # "close" /\ (p[i].kind = "users" => i = 2)
    BY <2>1, First
  <2> HIDE DEF p
  <2>3. \A i \in 1 .. Len(p) : p[i].kind = "users" => i < Len(p) /\ p[i + 1].kind = "pull"
    BY <2>2
  <2> QED
    BY <2>1, <2>2, <2>3 DEF Sent, p
<1>3. CASE b # c \/ ~Connect(c)
  <2>1. /\ b \in server.conn => b \in server'.conn \/ (b = c /\ Reads(c, "close"))
        /\ p = q \/ (q # <<>> /\ p = Tail(q) /\ b = c)
    BY <1>3, ServerSteps DEF Serves
  <2>2. p # <<>> => b \in server'.conn
    <3>1. q = <<>> => p = <<>>
      BY <2>1
    <3>2. ASSUME b = c, Reads(c, "close") PROVE p = <<>>
      <4>1. /\ q # <<>> /\ q[1].kind = "close" /\ 1 \in 1 .. Len(q)
            /\ p = Tail(q)
        BY <1>1, <3>2, MessageRead DEF Reads, TInv
      <4>2. Len(q) = 1
        BY <1>1, <4>1 DEF Sent
      <4> QED
        BY <1>1, <4>1, <4>2, TailOf
    <3> QED
      BY <1>1, <2>1, <3>1, <3>2 DEF Sent
  <2>3. /\ Len(q) \in Nat
        /\ \E d \in {0, 1} : /\ Len(p) = Len(q) - d
                             /\ \A i \in 1 .. Len(p) : p[i] = q[i + d]
    <3>1. CASE p = q
      <4>1. \A i \in 1 .. Len(p) : p[i] = q[i + 0]
        BY <1>1, <3>1
      <4> QED
        BY <1>1, <3>1, <4>1
    <3>2. CASE q # <<>> /\ p = Tail(q)
      <4>1. Len(p) = Len(q) - 1 /\ \A i \in 1 .. Len(p) : p[i] = q[i + 1]
        BY <1>1, <3>2
      <4> QED
        BY <1>1, <4>1
    <3> QED
      BY <2>1, <3>1, <3>2
  <2>4. PICK d \in {0, 1} : /\ Len(p) = Len(q) - d
                            /\ \A i \in 1 .. Len(p) : p[i] = q[i + d]
    BY <2>3
  <2>5. \A i \in 1 .. Len(q) :
          /\ q[i].kind = "close" => i = Len(q)
          /\ q[i].kind = "users" /\ q[i].list.users = {} =>
               i < Len(q) /\ q[i + 1].kind = "pull"
    BY <1>1 DEF Sent
  <2> HIDE DEF p, q
  <2>6. ASSUME NEW i \in 1 .. Len(p)
        PROVE  /\ p[i].kind = "close" => i = Len(p)
               /\ p[i].kind = "users" /\ p[i].list.users = {} =>
                    i < Len(p) /\ p[i + 1].kind = "pull"
    <3>1. i + d \in 1 .. Len(q) /\ p[i] = q[i + d]
      BY <2>3, <2>4
    <3>2. p[i].kind = "close" => i = Len(p)
      BY <2>3, <2>4, <2>5, <3>1
    <3>3. ASSUME p[i].kind = "users", p[i].list.users = {}
          PROVE  i < Len(p) /\ p[i + 1].kind = "pull"
      <4>1. i + d < Len(q) /\ q[(i + d) + 1].kind = "pull"
        BY <2>5, <3>1, <3>3
      <4>2. i + 1 \in 1 .. Len(p) /\ i < Len(p)
        BY <2>3, <2>4, <4>1
      <4>3. p[i + 1] = q[(i + 1) + d] /\ (i + 1) + d = (i + d) + 1
        BY <2>4, <4>2
      <4> QED
        BY <4>1, <4>2, <4>3
    <3> QED
      BY <3>2, <3>3
  <2> QED
    BY <2>2, <2>6 DEF Sent, p
<1> QED
  BY <1>2, <1>3

LEMMA ServedSound ==
  ASSUME IInv, TInv, NEW c \in Client, NEW said, NEW more, Serves(c, said, more)
  PROVE  IInv'
<1>1. /\ Hears(said, more) /\ Leaves(c)
      /\ server'.master \in {NULL, server.master} \/ server'.ref # 0
      /\ Reads(c, "users") => server'.ref # 0
  BY DEF Serves
<1>2. unborn' \subseteq Client /\ server'.conn \cap unborn' = {}
  <2>1. unborn \subseteq Client /\ server.conn \cap unborn = {}
    BY DEF IInv
  <2> QED
    BY <2>1, ServerSteps
<1>3. \A b \in Client : Sent(b)'
  BY ServedSent
<1>4. ASSUME server.master = NULL, server'.master = NULL,
             server'.ref # 0, server'.conn # {}
      PROVE  \E b \in server'.conn : \E i \in 1 .. Len(toServer'[b]) :
               toServer'[b][i].kind = "pull"
  <2>1. /\ server'.conn = server.conn
        /\ \/ /\ server.ref # 0 /\ ~Reads(c, "pull") /\ \E kind : Reads(c, kind)
           \/ Reads(c, "users") /\ Head(toServer[c]).list.users = {}
    BY <1>1, <1>4 DEF Leaves
  <2>2. /\ c \in server.conn /\ toServer[c] # <<>> /\ toServer[c] \in Seq(FromClient(c))
        /\ \A b \in Client :
             toServer'[b] = IF b = c THEN Tail(toServer[c]) ELSE toServer[b]
    BY <2>1, ServerSteps DEF TInv
  <2> DEFINE q == toServer[c]  p == toServer'[c]
  <2>3. /\ Len(q) \in Nat /\ Len(p) = Len(q) - 1 /\ Head(q) = q[1]
        /\ \A i \in 1 .. Len(q) : i # 1 => i - 1 \in 1 .. Len(p) /\ p[i - 1] = q[i]
    <3>1. q \in Seq(FromClient(c)) /\ q # <<>> /\ p = Tail(q)
      BY <2>2
    <3> HIDE DEF p, q
    <3>2. /\ Len(q) \in Nat /\ Len(p) = Len(q) - 1 /\ Head(q) = q[1]
          /\ \A j \in 1 .. Len(p) : p[j] = q[j + 1]
      BY <3>1
    <3>3. ASSUME NEW i \in 1 .. Len(q), i # 1
          PROVE  i - 1 \in 1 .. Len(p) /\ p[i - 1] = q[i]
      <4>1. i - 1 \in 1 .. Len(p) /\ (i - 1) + 1 = i
        BY <3>2, <3>3
      <4>2. p[i - 1] = q[(i - 1) + 1]
        BY <3>2, <4>1
      <4> QED
        BY <4>1, <4>2
    <3> QED
      BY <3>2, <3>3
  <2>4. CASE /\ server.ref # 0 /\ ~Reads(c, "pull") /\ \E kind : Reads(c, kind)
    <3>1. PICK d \in server.conn : \E i \in 1 .. Len(toServer[d]) :
                 toServer[d][i].kind = "pull"
      BY <1>4, <2>1, <2>4 DEF IInv
    <3>2. PICK i \in 1 .. Len(toServer[d]) : toServer[d][i].kind = "pull"
      BY <3>1
    <3>3. d \in Client
      BY DEF TInv, TypedServer, ServerState
    <3>4. CASE d # c
      BY <2>1, <2>2, <3>2, <3>3, <3>4
    <3>5. CASE d = c
      <4>1. i # 1
        BY <2>3, <2>4, <3>2, <3>5 DEF Reads
      <4>2. i - 1 \in 1 .. Len(p) /\ p[i - 1] = q[i]
        BY <2>3, <3>2, <3>5, <4>1
      <4> QED
        BY <2>1, <2>2, <3>2, <3>5, <4>2
    <3> QED
      BY <3>4, <3>5
  <2>5. CASE Reads(c, "users") /\ Head(toServer[c]).list.users = {}
    <3>1. Sent(c) /\ q[1].kind = "users" /\ 1 \in 1 .. Len(q)
      BY <2>2, <2>3, <2>5, MessageRead DEF Reads, IInv
    <3>2. 1 < Len(q) /\ q[1 + 1].kind = "pull"
      BY <2>3, <2>5, <3>1 DEF Sent
    <3>3. 2 \in 1 .. Len(q) /\ q[2].kind = "pull"
      BY <2>3, <3>2
    <3>4. 2 - 1 \in 1 .. Len(p) /\ p[2 - 1].kind = "pull"
      BY <2>3, <3>3
    <3> QED
      BY <2>1, <2>2, <3>4
  <2> QED
    BY <2>1, <2>4, <2>5
<1>5. server'.master = NULL /\ server'.ref # 0 /\ server'.conn # {} => server.master = NULL
  BY <1>1 DEF Leaves
<1>6. \/ server'.ref = 0 \/ server'.conn = {} \/ server'.master # NULL
      \/ \E b \in server'.conn : \E i \in 1 .. Len(toServer'[b]) :
           toServer'[b][i].kind = "pull"
  BY <1>4, <1>5
<1>7. ASSUME object' = "fresh"
      PROVE  /\ server'.master # NULL => server'.ref # 0
             /\ server'.master = NULL => server'.conn \subseteq awaiting' /\ NoReply'
             /\ \A b \in Client : CreatesFirst(b)'
  <2>1. /\ object = "fresh" /\ (server.ref # 0 => server'.ref # 0)
        /\ server.master # NULL => server.ref # 0
        /\ server.master = NULL => server.conn \subseteq awaiting /\ NoReply
        /\ \A b \in Client : CreatesFirst(b)
    BY <1>1, <1>7 DEF Hears, IInv
  <2>2. server'.master # NULL => server'.ref # 0
    BY <1>1, <2>1
  <2>3. ASSUME server'.master = NULL
        PROVE  server'.conn \subseteq awaiting' /\ NoReply'
    <3>1. CASE server'.conn = {}
      <4>1. \A b \in Client : toClient'[b] = <<>>
        BY <1>1, <3>1 DEF Hears
      <4> QED
        BY <3>1, <4>1 DEF NoReply
    <3>2. CASE server'.conn # {}
      <4>1. server.master = NULL
        BY <1>5, <2>1, <2>3, <3>2
      <4>2. server'.conn \subseteq awaiting'
        BY <2>1, <4>1, ServerSteps
      <4>3. ASSUME NEW b \in Client, NEW i \in 1 .. Len(toClient'[b]),
                   toClient'[b][i].kind = "reply"
            PROVE  FALSE
        <5>1. b = c /\ Reads(c, "pull")
          BY <2>1, <4>1, <4>3, NewReplies DEF NoReply
        <5>2. server.ref # 0
          BY <2>1, <5>1, MessageRead DEF Reads
        <5>3. ~Reads(c, "users")
          BY <5>1 DEF Reads
        <5> QED
          BY <1>1, <2>1, <2>3, <3>2, <5>1, <5>2, <5>3 DEF Leaves
      <4> QED
        BY <4>2, <4>3 DEF NoReply
    <3> QED
      BY <3>1, <3>2
  <2>4. ASSUME NEW b \in Client, NEW i \in 1 .. Len(toServer'[b]),
               toServer'[b][i].kind = "pull", server'.ref = 0
        PROVE  \E j \in 1 .. Len(toServer'[b]) : j < i /\ toServer'[b][j].kind = "users"
    <3> DEFINE q == toServer[b]  p == toServer'[b]
    <3>1. CASE p = <<Request("register"), Users(NoUsers), Request("pull")>>
      <4>1. i = 3 /\ 2 \in 1 .. Len(p) /\ p[2].kind = "users"
        BY <2>4, <3>1, First DEF Users
      <4> QED
        BY <4>1
    <3>2. CASE p = q
      BY <2>1, <2>4, <3>2 DEF CreatesFirst
    <3>3. CASE b = c /\ q # <<>> /\ p = Tail(q) /\ ~Reads(c, "users") /\ \E kind : Reads(c, kind)
      <4>1. /\ q \in Seq(FromClient(b)) /\ Head(q) = q[1] /\ q[1].kind # "users"
        BY <3>3 DEF TInv, Reads
      <4>2. /\ Len(q) \in Nat /\ Len(p) = Len(q) - 1
            /\ \A j \in 1 .. Len(p) : j + 1 \in 1 .. Len(q) /\ p[j] = q[j + 1]
        BY <3>3, <4>1
      <4>3. q[i + 1].kind = "pull" /\ i + 1 \in 1 .. Len(q)
        BY <2>4, <4>2
      <4>4. PICK j \in 1 .. Len(q) : j < i + 1 /\ q[j].kind = "users"
        BY <2>1, <2>4, <4>3 DEF CreatesFirst
      <4> HIDE DEF p, q
      <4>5. j # 1 /\ j - 1 \in 1 .. Len(p) /\ j - 1 < i /\ (j - 1) + 1 = j
        BY <4>1, <4>2, <4>4
      <4>6. p[j - 1].kind = "users"
        BY <4>2, <4>4, <4>5
      <4> QED
        BY <4>5, <4>6 DEF p
    <3> QED
      BY <1>1, <2>4, <3>1, <3>2, <3>3, ServerSteps
  <2> QED
    BY <2>2, <2>3, <2>4 DEF CreatesFirst
<1>8. object' = "healed" => server'.ref # 0 /\ (server'.conn # {} => server'.master # NULL)
  <2> SUFFICES ASSUME object' = "healed", said = <<>>
               PROVE  server'.ref # 0 /\ (server'.conn # {} => server'.master # NULL)
    BY <1>1 DEF Hears
  <2>1. /\ server.ref # 0 /\ (server.conn # {} => server.master # NULL)
        /\ server'.ref # 0
    BY <1>1 DEF Hears, IInv
  <2> QED
    BY <1>1, <2>1 DEF Leaves
<1> QED
  BY <1>2, <1>3, <1>6, <1>7, <1>8 DEF IInv

\* A queue to which something was appended.
LEMMA Longer ==
  ASSUME NEW S, NEW q \in Seq(S), NEW s \in Seq(S)
  PROVE  LET p == q \o s IN
         /\ p \in Seq(S) /\ Len(p) = Len(q) + Len(s)
         /\ Len(q) \in Nat /\ Len(s) \in Nat
         /\ \A i \in 1 .. Len(q) : i \in 1 .. Len(p) /\ p[i] = q[i]
         /\ \A i \in 1 .. Len(s) : Len(q) + i \in 1 .. Len(p) /\ p[Len(q) + i] = s[i]
         /\ \A i \in 1 .. Len(p) : \/ i \in 1 .. Len(q) /\ p[i] = q[i]
                                   \/ /\ i - Len(q) \in 1 .. Len(s)
                                      /\ p[i] = s[i - Len(q)]
  OBVIOUS

\* What a user pushes.
LEMMA Pushed ==
  ASSUME NEW c \in Client, NEW k, NEW pushed, Acts(c, k, pushed)
  PROVE  /\ pushed \in Seq(FromClient(c))
         /\ \A i \in 1 .. Len(pushed) :
              /\ pushed[i].kind = "close" => i = Len(pushed)
              /\ pushed[i].kind = "users" =>
                   /\ pushed[i] = Users(k.state)
                   /\ k.state.users = {} =>
                        i < Len(pushed) /\ pushed[i + 1].kind = "pull"
              /\ pushed[i].kind = "pull" => i = 2
         /\ \/ /\ awaiting' = awaiting
               /\ \A i \in 1 .. Len(pushed) : pushed[i].kind # "pull"
            \/ /\ awaiting' = awaiting \cup {c}
               /\ k = manager[c] /\ k.users = {}
<1> DEFINE l == Users(k.state)  m == Camera(c)  r == Request("close")
           a == Request("pull")  empty == k.state.users = {}
<1>1. l \in FromClient(c) /\ m \in FromClient(c) /\ r \in FromClient(c) /\ a \in FromClient(c)
  <2>1. k.state \in GoodLists
    BY DEF Acts, AtRest, GoodLists, GoodList
  <2> QED
    BY <2>1 DEF FromClient
<1>2. l.kind = "users" /\ m.kind = "camera" /\ r.kind = "close" /\ a.kind = "pull"
  BY DEF Users, Camera, Request
<1>3. \/ pushed \in {<<>>, <<m>>, <<r>>} /\ awaiting' = awaiting
      \/ pushed \in {<<l>>, <<l, m>>} /\ ~empty /\ awaiting' = awaiting
      \/ /\ pushed = <<l, a>> /\ k = manager[c] /\ k.users = {}
         /\ awaiting' = awaiting \cup {c}
  BY DEF Acts
<1>9. l = Users(k.state) /\ (k.state.users = {} <=> empty)
  OBVIOUS
<1> HIDE DEF l, m, r, a, empty
<1> SUFFICES /\ pushed \in Seq({l, m, r, a})
             /\ \A i \in 1 .. Len(pushed) :
                  /\ pushed[i].kind = "close" => i = Len(pushed)
                  /\ pushed[i].kind = "users" =>
                       /\ pushed[i] = l
                       /\ empty => i < Len(pushed) /\ pushed[i + 1].kind = "pull"
                  /\ pushed[i].kind = "pull" => i = 2
             /\ \/ /\ awaiting' = awaiting
                   /\ \A i \in 1 .. Len(pushed) : pushed[i].kind # "pull"
                \/ /\ awaiting' = awaiting \cup {c}
                   /\ k = manager[c] /\ k.users = {}
  BY <1>1, <1>9
<1>4. ASSUME NEW x \in {l, m, r, a}, NEW y \in {l, m, r, a}
      PROVE  /\ <<>> \in Seq({l, m, r, a}) /\ <<x>> \in Seq({l, m, r, a})
             /\ <<x, y>> \in Seq({l, m, r, a})
             /\ Len(<<>>) = 0 /\ Len(<<x>>) = 1 /\ Len(<<x, y>>) = 2
             /\ \A i \in 1 .. 1 : i = 1 /\ <<x>>[i] = x
             /\ \A i \in 1 .. 2 : (i = 1 /\ <<x, y>>[i] = x) \/ (i = 2 /\ <<x, y>>[i] = y)
             /\ <<x, y>>[1 + 1] = y
  BY <1>4
<1>5. CASE pushed \in {<<>>, <<m>>, <<r>>} /\ awaiting' = awaiting
  <2>1. pushed = <<>> \/ \E x \in {m, r} : pushed = <<x>>
    BY <1>5
  <2>2. CASE pushed = <<>>
    BY <1>4, <1>5, <2>2
  <2>3. ASSUME NEW x \in {m, r}, pushed = <<x>>
        PROVE  /\ pushed \in Seq({l, m, r, a}) /\ Len(pushed) = 1
               /\ \A i \in 1 .. Len(pushed) : i = 1 /\ pushed[i] = x
    BY <1>4, <2>3
  <2> QED
    BY <1>2, <1>5, <2>1, <2>2, <2>3
<1>6. CASE pushed \in {<<l>>, <<l, m>>} /\ ~empty /\ awaiting' = awaiting
  <2>1. CASE pushed = <<l>>
    <3>1. /\ pushed \in Seq({l, m, r, a}) /\ Len(pushed) = 1
          /\ \A i \in 1 .. Len(pushed) : pushed[i] = l
      BY <1>4, <2>1
    <3> QED
      BY <1>2, <1>6, <3>1
  <2>2. CASE pushed = <<l, m>>
    <3>1. /\ pushed \in Seq({l, m, r, a}) /\ Len(pushed) = 2
          /\ \A i \in 1 .. Len(pushed) : pushed[i] = l \/ pushed[i] = m
      BY <1>4, <2>2
    <3> QED
      BY <1>2, <1>6, <3>1
  <2> QED
    BY <1>6, <2>1, <2>2
<1>7. CASE /\ pushed = <<l, a>> /\ k = manager[c] /\ k.users = {}
           /\ awaiting' = awaiting \cup {c}
  <2>1. /\ pushed \in Seq({l, m, r, a}) /\ Len(pushed) = 2 /\ pushed[1 + 1] = a
        /\ \A i \in 1 .. Len(pushed) : (i = 1 /\ pushed[i] = l) \/ (i = 2 /\ pushed[i] = a)
    BY <1>4, <1>7
  <2> QED
    BY <1>2, <1>7, <2>1
<1> QED
  BY <1>3, <1>5, <1>6, <1>7

\* What a user does keeps the types.
LEMMA ActsStands ==
  ASSUME IInv, TInv, NEW c \in Client, NEW k, NEW pushed, Acts(c, k, pushed)
  PROVE  /\ Stands(c)' /\ Sent(c)'
         /\ object = "fresh" => Joins(c)' /\ CreatesFirst(c)'
<1> DEFINE q == toServer[c]  q1 == q \o pushed
<1>1. /\ c \in server.conn /\ c \notin awaiting /\ c \notin unborn
      /\ manager'[c] = k /\ toServer'[c] = q1
      /\ \A i \in DOMAIN q : q[i].kind # "close"
      /\ UNCHANGED <<server, toClient, unborn, object>>
  BY DEF Acts, Does, Active, TInv, IInv
<1>2. /\ Stands(c) /\ Sent(c) /\ q \in Seq(FromClient(c))
      /\ object = "fresh" => Joins(c)
  BY DEF TInv, IInv
<1>3. /\ pushed \in Seq(FromClient(c))
      /\ \A i \in 1 .. Len(pushed) :
           /\ pushed[i].kind = "close" => i = Len(pushed)
           /\ pushed[i].kind = "users" =>
                /\ pushed[i] = Users(k.state)
                /\ k.state.users = {} =>
                     i < Len(pushed) /\ pushed[i + 1].kind = "pull"
           /\ pushed[i].kind = "pull" => i = 2
      /\ \/ /\ awaiting' = awaiting
            /\ \A i \in 1 .. Len(pushed) : pushed[i].kind # "pull"
         \/ /\ awaiting' = awaiting \cup {c}
            /\ k = manager[c] /\ k.users = {}
  BY Pushed
<1>4. /\ q1 \in Seq(FromClient(c)) /\ Len(q1) = Len(q) + Len(pushed)
      /\ Len(q) \in Nat /\ Len(pushed) \in Nat
      /\ \A i \in 1 .. Len(q) : i \in 1 .. Len(q1) /\ q1[i] = q[i]
      /\ \A i \in 1 .. Len(pushed) : Len(q) + i \in 1 .. Len(q1) /\ q1[Len(q) + i] = pushed[i]
      /\ \A i \in 1 .. Len(q1) : \/ i \in 1 .. Len(q) /\ q1[i] = q[i]
                                 \/ /\ i - Len(q) \in 1 .. Len(pushed)
                                    /\ q1[i] = pushed[i - Len(q)]
  <2> HIDE DEF q
  <2> QED
    BY <1>2, <1>3, Longer
<1>5. DOMAIN q = 1 .. Len(q)
  BY <1>2
<1>6. /\ \A i \in 1 .. Len(q) : q[i].kind # "pull"
      /\ \A i \in 1 .. Len(toClient[c]) : toClient[c][i].kind # "reply"
      /\ toClient[c] # <<>> => c \in server.conn
  BY <1>1, <1>2 DEF Stands
<1>7. /\ \A i \in 1 .. Len(q) : /\ q[i].kind # "close"
                                /\ q[i].kind = "users" /\ q[i].list.users = {} =>
                                     i < Len(q) /\ q[i + 1].kind = "pull"
  BY <1>1, <1>2, <1>5 DEF Sent
<1> HIDE DEF q, q1
<1>8. ASSUME NEW i \in 1 .. Len(q1), q1[i].kind = "pull"
      PROVE  i = Len(q) + 2 /\ c \in awaiting' /\ k.users = {}
  <2>1. /\ i - Len(q) \in 1 .. Len(pushed) /\ pushed[i - Len(q)].kind = "pull"
    BY <1>4, <1>6, <1>8
  <2>2. i - Len(q) = 2
    BY <1>3, <2>1
  <2>3. i = Len(q) + 2
    BY <1>4, <2>2
  <2> QED
    BY <1>3, <2>1, <2>3
<1>9. Stands(c)'
  <2>1. c \notin awaiting' => \A i \in 1 .. Len(q1) : q1[i].kind # "pull"
    BY <1>8
  <2>2. \A i, j \in 1 .. Len(q1) : q1[i].kind = "pull" /\ q1[j].kind = "pull" => i = j
    BY <1>8
  <2>3. Stands(c)
    BY <1>2
  <2> QED
    BY <1>1, <1>6, <2>1, <2>2 DEF Stands
<1>10. Sent(c)'
  <2>1. ASSUME NEW i \in 1 .. Len(q1)
        PROVE  /\ q1[i].kind = "close" => i = Len(q1)
               /\ q1[i].kind = "users" /\ q1[i].list.users = {} =>
                    i < Len(q1) /\ q1[i + 1].kind = "pull"
    <3>1. CASE i \in 1 .. Len(q) /\ q1[i] = q[i]
      <4>1. q1[i].kind # "close"
        BY <1>7, <3>1
      <4>2. ASSUME q1[i].kind = "users", q1[i].list.users = {} PROVE FALSE
        <5>1. i < Len(q) /\ q[i + 1].kind = "pull"
          BY <1>7, <3>1, <4>2
        <5>2. i + 1 \in 1 .. Len(q)
          BY <1>4, <5>1
        <5> QED
          BY <1>6, <5>1, <5>2
      <4> QED
        BY <4>1, <4>2
    <3>2. CASE i - Len(q) \in 1 .. Len(pushed) /\ q1[i] = pushed[i - Len(q)]
      <4> DEFINE j == i - Len(q)
      <4>1. i = Len(q) + j /\ j \in 1 .. Len(pushed) /\ q1[i] = pushed[j]
        BY <1>4, <3>2
      <4> HIDE DEF j
      <4>2. q1[i].kind = "close" => i = Len(q1)
        BY <1>3, <1>4, <4>1
      <4>3. ASSUME q1[i].kind = "users", q1[i].list.users = {}
            PROVE  i < Len(q1) /\ q1[i + 1].kind = "pull"
        <5>1. pushed[j] = Users(k.state)
          BY <1>3, <4>1, <4>3
        <5>2. k.state.users = {}
          BY <4>1, <4>3, <5>1 DEF Users
        <5>3. j < Len(pushed) /\ pushed[j + 1].kind = "pull"
          BY <1>3, <4>1, <4>3, <5>2
        <5>4. j + 1 \in 1 .. Len(pushed) /\ Len(q) + (j + 1) = i + 1 /\ i < Len(q1)
          BY <1>4, <4>1, <5>3
        <5>5. q1[Len(q) + (j + 1)] = pushed[j + 1]
          BY <1>4, <5>4
        <5> QED
          BY <5>3, <5>4, <5>5
      <4> QED
        BY <4>2, <4>3
    <3> QED
      BY <1>4, <3>1, <3>2
  <2> QED
    BY <1>1, <2>1 DEF Sent
<1>11. ASSUME object = "fresh" PROVE Joins(c)' /\ CreatesFirst(c)'
  <2>1. manager[c].follow # NULL /\ manager[c].users # {} /\ Ready(manager[c])
    BY <1>1, <1>2, <1>11 DEF Joins
  <2>2. k.follow # NULL /\ k.users # {} /\ Ready(k)
    BY <2>1 DEF Acts
  <2>3. awaiting' = awaiting
    BY <1>3, <2>2
  <2>4. \A i \in 1 .. Len(q1) : q1[i].kind # "pull"
    BY <1>8, <2>2
  <2> QED
    BY <1>1, <1>6, <2>2, <2>3, <2>4 DEF Joins, CreatesFirst
<1> QED
  BY <1>9, <1>10, <1>11

LEMMA ActsTyped ==
  ASSUME IInv, TInv, NEW c \in Client, NEW k, NEW pushed, Acts(c, k, pushed)
  PROVE  TInv' /\ IInv'
<1>1. /\ c \in server.conn \ awaiting /\ ops < MaxOps /\ ops' = ops + 1
      /\ manager' = [manager EXCEPT ![c] = k]
      /\ toServer' = [toServer EXCEPT ![c] = @ \o pushed]
      /\ UNCHANGED <<server, toClient, unborn, object>>
  BY DEF Acts, Does, Active
<1>2. AtRest(k, c)
  BY DEF Acts
<1>3. /\ manager = [b \in Client |-> manager[b]]
      /\ toServer = [b \in Client |-> toServer[b]]
      /\ \A b \in Client : toServer[b] \in Seq(FromClient(b))
      /\ \A b \in Client : AtRest(manager[b], b) /\ Stands(b)
      /\ \A b \in Client : object = "fresh" => Joins(b)
  BY DEF TInv
<1> DEFINE q == toServer[c]  q1 == q \o pushed
<1>4. /\ \A b \in Client : manager'[b] = IF b = c THEN k ELSE manager[b]
      /\ \A b \in Client : toServer'[b] = IF b = c THEN q1 ELSE toServer[b]
      /\ manager' = [b \in Client |-> manager'[b]]
      /\ toServer' = [b \in Client |-> toServer'[b]]
  BY <1>1, <1>3
<1>5. /\ q1 \in Seq(FromClient(c))
      /\ \A i \in 1 .. Len(q) : i \in 1 .. Len(q1) /\ q1[i] = q[i]
  <2>1. q \in Seq(FromClient(c)) /\ pushed \in Seq(FromClient(c))
    BY <1>3, Pushed
  <2> HIDE DEF q
  <2> QED
    BY <2>1, Longer
<1> HIDE DEF q1
<1>6. ops' \in 0 .. MaxOps
  <2>1. ops \in 0 .. MaxOps /\ MaxOps \in Nat
    BY MaxOpsAssumption DEF TInv
  <2> QED
    BY <1>1, <2>1
<1>7. awaiting' \in {awaiting, awaiting \cup {c}}
  BY Pushed
<1>8. ASSUME NEW b \in Client
      PROVE  /\ Stands(b)' /\ Sent(b)'
             /\ object' = "fresh" => Joins(b)' /\ CreatesFirst(b)'
  <2>1. CASE b = c
    BY <1>1, <2>1, ActsStands
  <2>2. CASE b # c
    <3>1. /\ manager'[b] = manager[b] /\ toServer'[b] = toServer[b] /\ Stands(b)
          /\ toServer[b] \in Seq(FromClient(b)) /\ (object = "fresh" => Joins(b))
          /\ b \in awaiting' <=> b \in awaiting
      BY <1>3, <1>4, <1>7, <2>2
    <3>2. /\ toClient'[b] # <<>> => b \in server'.conn
          /\ \A i \in 1 .. Len(toClient'[b]) :
               toClient'[b][i].kind = "reply" =>
                 i \in 1 .. Len(toClient[b]) /\ toClient'[b][i] = toClient[b][i]
      BY <1>1, <3>1 DEF Stands
    <3>3. Stands(b)'
      BY <3>1, <3>2, StandsOn
    <3>4. ASSUME object' = "fresh" PROVE Joins(b)'
      <4>1. Joins(b)
        BY <1>1, <3>1, <3>4
      <4>2. \A i \in 1 .. Len(toClient'[b]) :
              toClient'[b][i].kind = "reply" => toClient'[b][i].list.master # NULL
        BY <1>1, <4>1 DEF Joins
      <4> QED
        BY <1>1, <3>1, <4>1, <4>2, JoinsOn
    <3>5. Sent(b)' /\ (object' = "fresh" => CreatesFirst(b)')
      BY <1>1, <3>1 DEF IInv, Sent, CreatesFirst
    <3> QED
      BY <3>3, <3>4, <3>5
  <2> QED
    BY <2>1, <2>2
<1>9. TInv'
  <2>1. \A b \in Client : AtRest(manager'[b], b) /\ toServer'[b] \in Seq(FromClient(b))
    BY <1>2, <1>3, <1>4, <1>5
  <2>2. awaiting' \subseteq Client
    BY <1>7 DEF TInv
  <2> QED
    BY <1>1, <1>4, <1>6, <1>8, <2>1, <2>2 DEF TInv
<1>10. \/ server'.ref = 0 \/ server'.conn = {} \/ server'.master # NULL
       \/ \E b \in server'.conn : \E i \in 1 .. Len(toServer'[b]) :
            toServer'[b][i].kind = "pull"
  <2> SUFFICES ASSUME NEW b \in server.conn, NEW i \in 1 .. Len(toServer[b]),
                      toServer[b][i].kind = "pull"
               PROVE  i \in 1 .. Len(toServer'[b]) /\ toServer'[b][i].kind = "pull"
    BY <1>1 DEF IInv
  <2>1. b \in Client
    BY DEF TInv, TypedServer, ServerState
  <2> QED
    BY <1>4, <1>5, <2>1
<1>11. object' = "fresh" =>
         /\ server'.master # NULL => server'.ref # 0
         /\ server'.master = NULL => server'.conn \subseteq awaiting' /\ NoReply'
         /\ \A b \in Client : CreatesFirst(b)'
  BY <1>1, <1>7, <1>8 DEF IInv, NoReply
<1>12. IInv'
  BY <1>1, <1>8, <1>10, <1>11 DEF IInv
<1> QED
  BY <1>9, <1>12

\* What is where in a queue p that was q, when its message i was taken.
Drops(p, q, i) ==
  /\ Len(q) \in Nat /\ Len(p) = Len(q) - 1 /\ i \in 1 .. Len(q)
  /\ \A j \in 1 .. Len(p) : IF j < i THEN j \in 1 .. Len(q) /\ p[j] = q[j]
                            ELSE j + 1 \in 1 .. Len(q) /\ p[j] = q[j + 1]

\* Taking a message, wherever it is.
LEMMA Dropping ==
  ASSUME NEW S, NEW q \in Seq(S), NEW i \in 1 .. Len(q)
  PROVE  RemoveAt(q, i) \in Seq(S) /\ Drops(RemoveAt(q, i), q, i)
<1> DEFINE a == SubSeq(q, 1, i - 1)  b == SubSeq(q, i + 1, Len(q))
<1>1. RemoveAt(q, i) = a \o b
  BY DEF RemoveAt
<1>2. /\ a \in Seq(S) /\ Len(a) = i - 1 /\ \A j \in 1 .. Len(a) : a[j] = q[j]
      /\ b \in Seq(S) /\ Len(b) = Len(q) - i /\ \A j \in 1 .. Len(b) : b[j] = q[i + j]
  OBVIOUS
<1>3. Len(q) \in Nat
  OBVIOUS
<1> HIDE DEF a, b
<1> DEFINE p == a \o b
<1>4. /\ p \in Seq(S) /\ Len(p) = Len(a) + Len(b)
      /\ \A j \in 1 .. Len(p) : p[j] = IF j <= Len(a) THEN a[j] ELSE b[j - Len(a)]
  <2>1. a \in Seq(S) /\ b \in Seq(S)
    BY <1>2
  <2> QED
    BY <2>1
<1> HIDE DEF p
<1>5. ASSUME NEW j \in 1 .. Len(p)
      PROVE  IF j < i THEN j \in 1 .. Len(q) /\ p[j] = q[j]
             ELSE j + 1 \in 1 .. Len(q) /\ p[j] = q[j + 1]
  <2>1. CASE j < i
    BY <1>2, <1>3, <1>4, <2>1
  <2>2. CASE ~(j < i)
    <3>1. /\ ~(j <= Len(a)) /\ j - Len(a) \in 1 .. Len(b)
          /\ i + (j - Len(a)) = j + 1 /\ j + 1 \in 1 .. Len(q)
      BY <1>2, <1>3, <1>4, <2>2
    <3>2. p[j] = b[j - Len(a)] /\ b[j - Len(a)] = q[i + (j - Len(a))]
      BY <1>2, <1>4, <3>1
    <3> QED
      BY <2>2, <3>1, <3>2
  <2> QED
    BY <2>1, <2>2
<1>6. p \in Seq(S) /\ Len(p) = Len(q) - 1
  BY <1>2, <1>3, <1>4
<1> QED
  BY <1>1, <1>3, <1>5, <1>6 DEF Drops, p

\* A client takes message i, which makes k of its copy: the reply of its pull,
\* from wherever it is, or the first message, if it does not wait.
Loads(c, i, k) ==
  LET msg == toClient[c][i] IN
  /\ c \in server.conn
  /\ UNCHANGED <<server, toServer, unborn, ops, relay, object, decided>>
  /\ toClient' = [toClient EXCEPT ![c] = toClient'[c]]
  /\ Drops(toClient'[c], toClient[c], i) /\ toClient'[c] \in Seq(ForClient(c))
  /\ manager' = [manager EXCEPT ![c] = k]
  /\ AtRest(k, c)
  /\ object = "fresh" => k.follow # NULL /\ k.users # {}
  /\ awaiting' = awaiting \ {c}
  /\ \/ /\ msg.kind = "reply" /\ c \in awaiting /\ msg.list.follow = NULL
        /\ object = "fresh" => manager[c] = NewManager /\ msg.list.master # NULL
     \/ msg.kind = "users" /\ i = 1 /\ c \notin awaiting
     \/ /\ msg.kind = "camera" /\ i = 1 /\ c \notin awaiting
        /\ msg.from \in Client \ {c}
        /\ k = LoadCamera(manager[c], msg.from)
  /\ msg.kind # "camera" => /\ msg.list \in GoodLists
                            /\ k = LoadState(manager[c], c, msg.list)

\* The messages a client takes.
LEMMA MessageTaken ==
  ASSUME TInv, NEW c \in Client, NEW i \in 1 .. Len(toClient[c])
  PROVE  LET msg == toClient[c][i] IN
         /\ c \in server.conn
         /\ msg.kind \in {"users", "reply", "camera"}
         /\ msg.kind # "camera" => msg.list \in GoodLists
         /\ msg.kind = "users" => msg = Users(msg.list)
         /\ msg.kind = "camera" => msg.from \in Client \ {c}
         /\ msg.kind = "reply" =>
              /\ c \in awaiting /\ msg.list.follow = NULL
              /\ object = "fresh" => manager[c] = NewManager /\ msg.list.master # NULL
<1> DEFINE q == toClient[c]  msg == q[i]
<1>1. /\ q \in Seq(ForClient(c)) /\ Stands(c)
      /\ object = "fresh" => Joins(c)
  BY DEF TInv
<1>2. msg \in ForClient(c) /\ q # <<>>
  BY <1>1
<1>3. msg.kind = "reply" =>
        /\ c \in awaiting /\ msg.list.follow = NULL
        /\ object = "fresh" => manager[c] = NewManager /\ msg.list.master # NULL
  BY <1>1 DEF Stands, Joins
<1>4. c \in server.conn
  BY <1>1, <1>2 DEF Stands
<1> HIDE DEF msg
<1>5. /\ msg.kind \in {"users", "reply", "camera"}
      /\ msg.kind # "camera" => msg.list \in GoodLists
      /\ msg.kind = "users" => msg = Users(msg.list)
      /\ msg.kind = "camera" => msg.from \in Client \ {c}
  BY <1>2 DEF ForClient, Users, Reply, Camera
<1> QED
  BY <1>3, <1>4, <1>5 DEF msg

\* ReceiveReply: somebody is followed from now on, if a list has come.
LEMMA ReplyLoads ==
  ASSUME TInv, NEW c \in Client, ReceiveReply(c)
  PROVE  \E i, k : Loads(c, i, k)
<1> DEFINE q == toClient[c]
<1>1. PICK i \in DOMAIN q :
        /\ q[i].kind = "reply"
        /\ manager' = [manager EXCEPT ![c] = LoadState(@, c, q[i].list)]
        /\ toClient' = [toClient EXCEPT ![c] = RemoveAt(@, i)]
  BY DEF ReceiveReply
<1>2. /\ c \in awaiting /\ awaiting' = awaiting \ {c}
      /\ UNCHANGED <<server, toServer, unborn, ops, relay, object, decided>>
  BY DEF ReceiveReply
<1>3. /\ q \in Seq(ForClient(c)) /\ AtRest(manager[c], c)
      /\ manager = [b \in Client |-> manager[b]] /\ toClient = [b \in Client |-> toClient[b]]
  BY DEF TInv
<1>4. i \in 1 .. Len(q)
  BY <1>3
<1> DEFINE list == q[i].list  k == LoadState(manager[c], c, list)
<1>5. /\ c \in server.conn /\ list \in GoodLists /\ list.follow = NULL
      /\ object = "fresh" => manager[c] = NewManager /\ list.master # NULL
  BY <1>1, <1>4, MessageTaken
<1>6. GoodList(list)
  BY <1>5 DEF GoodLists
<1>7. manager' = [manager EXCEPT ![c] = k]
  BY <1>1
<1>8. toClient'[c] = RemoveAt(q, i) /\ toClient' = [toClient EXCEPT ![c] = toClient'[c]]
  BY <1>1, <1>3
<1>9. Drops(toClient'[c], q, i) /\ toClient'[c] \in Seq(ForClient(c))
  BY <1>3, <1>4, <1>8, Dropping
<1> HIDE DEF list
<1>10. AtRest(k, c) /\ (list.users # {} => Says(manager[c], list, k))
  BY <1>3, <1>6, Loading
<1> HIDE DEF k
<1>12. ASSUME object = "fresh" PROVE k.follow # NULL /\ k.users # {}
  <2>1. list.users # {} /\ manager[c].master = NULL /\ list.master # NULL
    BY <1>5, <1>6, <1>12 DEF NewManager, GoodList
  <2> QED
    BY <1>10, <2>1 DEF Says
<1>13. Loads(c, i, k)
  BY <1>1, <1>2, <1>5, <1>7, <1>8, <1>9, <1>10, <1>12 DEF Loads, list, k
<1> QED
  BY <1>13

\* Another user's camera is kept, and shown if that user is followed.
LEMMA CameraLoaded ==
  ASSUME NEW me, NEW k, AtRest(k, me), NEW from \in Client \ {me}
  PROVE  LET u == LoadCamera(k, from) IN
         /\ AtRest(u, me) /\ u.users = k.users /\ u.names = k.names
         /\ u.master = k.master /\ u.settings = k.settings
         /\ u.follow = k.follow /\ u.state = k.state
         /\ u.cached = k.cached \cup {from}
         /\ Shows(k) => Shows(u)
<1> DEFINE u == LoadCamera(k, from)
           shown == IF k.follow = from THEN from ELSE k.shown
<1>1. u = [k EXCEPT !.cached = k.cached \cup {from}, !.shown = shown]
  BY DEF LoadCamera
<1>2. IsCopy(k)
  BY DEF AtRest
<1>3. shown \in Client \cup {NULL} /\ k.cached \cup {from} \in SUBSET Client
  BY <1>2 DEF IsCopy
<1>4. k.follow = from => shown = from
  OBVIOUS
<1>5. k.follow # from => shown = k.shown
  OBVIOUS
<1> HIDE DEF u, shown
<1>6. /\ IsCopy(u) /\ u.users = k.users /\ u.names = k.names
      /\ u.master = k.master /\ u.settings = k.settings
      /\ u.follow = k.follow /\ u.state = k.state
      /\ u.cached = k.cached \cup {from} /\ u.shown = shown
  BY <1>1, <1>2, <1>3 DEF IsCopy
<1>7. AtRest(u, me)
  BY <1>6 DEF AtRest, Complete
<1>8. Shows(k) => Shows(u)
  BY <1>4, <1>5, <1>6 DEF Shows
<1> QED
  BY <1>6, <1>7, <1>8 DEF u

\* Notified: a client that waits is not.
LEMMA NotifiedLoads ==
  ASSUME TInv, NEW c \in Client, Notified(c)
  PROVE  \E i, k : Loads(c, i, k)
<1> DEFINE q == toClient[c]  msg == q[1]
           k == IF msg.kind = "camera" THEN LoadCamera(manager[c], msg.from)
                ELSE LoadState(manager[c], c, msg.list)
<1>1. /\ c \notin awaiting /\ q # <<>> /\ toClient' = [toClient EXCEPT ![c] = Tail(@)]
      /\ manager' = [manager EXCEPT ![c] =
                       IF Head(q).kind = "camera" THEN LoadCamera(@, Head(q).from)
                       ELSE LoadState(@, c, Head(q).list)]
      /\ awaiting' = awaiting
      /\ UNCHANGED <<server, toServer, unborn, ops, relay, object, decided>>
  BY DEF Notified, Active
<1>2. /\ q \in Seq(ForClient(c)) /\ AtRest(manager[c], c)
      /\ object = "fresh" => Joins(c)
      /\ manager = [b \in Client |-> manager[b]] /\ toClient = [b \in Client |-> toClient[b]]
  BY DEF TInv
<1>3. Head(q) = q[1] /\ 1 \in 1 .. Len(q) /\ Tail(q) \in Seq(ForClient(c))
  BY <1>1, <1>2
<1>4. Drops(Tail(q), q, 1)
  <2> HIDE DEF q
  <2>1. /\ Len(q) \in Nat /\ Len(Tail(q)) = Len(q) - 1
        /\ \A j \in 1 .. Len(Tail(q)) : Tail(q)[j] = q[j + 1]
    BY <1>1, <1>2
  <2> QED
    BY <1>3, <2>1 DEF Drops
<1>5. /\ toClient'[c] = Tail(q) /\ toClient' = [toClient EXCEPT ![c] = toClient'[c]]
  BY <1>1, <1>2
<1>6. manager' = [manager EXCEPT ![c] = k]
  BY <1>1, <1>3
<1>7. /\ c \in server.conn /\ msg.kind \in {"users", "camera"}
      /\ msg.kind # "camera" => msg.list \in GoodLists
      /\ msg.kind = "camera" => msg.from \in Client \ {c}
  BY <1>1, <1>3, MessageTaken
<1>8. object = "fresh" => manager[c].follow # NULL /\ manager[c].users # {}
  BY <1>1, <1>2, <1>7 DEF Joins
<1>9. AtRest(k, c) /\ (object = "fresh" => k.follow # NULL /\ k.users # {})
  <2>1. CASE msg.kind = "camera"
    BY <1>2, <1>7, <1>8, <2>1, CameraLoaded
  <2>2. CASE msg.kind # "camera"
    <3> DEFINE list == msg.list  u == LoadState(manager[c], c, list)
    <3>1. GoodList(list)
      BY <1>7, <2>2 DEF GoodLists
    <3>2. k = u
      BY <2>2
    <3> HIDE DEF list
    <3>3. AtRest(u, c) /\ (list.users = {} => u = manager[c])
          /\ (list.users # {} => Says(manager[c], list, u))
      BY <1>2, <3>1, Loading
    <3> HIDE DEF u, k
    <3>4. object = "fresh" => u.follow # NULL /\ u.users # {}
      BY <1>8, <3>3 DEF Says
    <3> QED
      BY <3>2, <3>3, <3>4
  <2> QED
    BY <2>1, <2>2
<1>10. awaiting' = awaiting \ {c}
  BY <1>1
<1>11. /\ msg.kind = "camera" => k = LoadCamera(manager[c], msg.from)
       /\ msg.kind # "camera" => k = LoadState(manager[c], c, msg.list)
  OBVIOUS
<1> HIDE DEF k
<1>12. Loads(c, 1, k)
  BY <1>1, <1>3, <1>4, <1>5, <1>6, <1>7, <1>9, <1>10, <1>11 DEF Loads
<1> QED
  BY <1>12

\* Taking a message keeps the types, and the session its master.
LEMMA LoadsTyped ==
  ASSUME IInv, TInv, NEW c \in Client, NEW i, NEW k, Loads(c, i, k)
  PROVE  TInv' /\ IInv'
<1>1. /\ c \in server.conn
      /\ UNCHANGED <<server, toServer, unborn, ops, object>>
      /\ toClient' = [toClient EXCEPT ![c] = toClient'[c]]
      /\ Drops(toClient'[c], toClient[c], i) /\ toClient'[c] \in Seq(ForClient(c))
      /\ manager' = [manager EXCEPT ![c] = k]
      /\ AtRest(k, c) /\ (object = "fresh" => k.follow # NULL /\ k.users # {})
      /\ awaiting' = awaiting \ {c}
      /\ (toClient[c][i].kind = "reply" /\ c \in awaiting) \/ c \notin awaiting
  BY DEF Loads
<1>2. /\ TypedServer(server)
      /\ manager = [b \in Client |-> manager[b]]
      /\ toClient = [b \in Client |-> toClient[b]]
      /\ \A b \in Client : AtRest(manager[b], b)
      /\ \A b \in Client : toClient[b] \in Seq(ForClient(b))
      /\ awaiting \subseteq Client
      /\ \A b \in Client : Stands(b) /\ (object = "fresh" => Joins(b))
      /\ \A b \in Client : toServer[b] \in Seq(FromClient(b))
      /\ toServer = [b \in Client |-> toServer[b]] /\ ops \in 0 .. MaxOps
      /\ object \in {"fresh", "healed", "stale"}
  BY DEF TInv
<1>3. /\ \A b \in Client : manager'[b] = IF b = c THEN k ELSE manager[b]
      /\ \A b \in Client : b # c => toClient'[b] = toClient[b]
      /\ manager' = [b \in Client |-> manager'[b]]
      /\ toClient' = [b \in Client |-> toClient'[b]]
  BY <1>1, <1>2
<1>4. ASSUME NEW b \in Client PROVE Stands(b)' /\ (object' = "fresh" => Joins(b)')
  <2>1. CASE b # c
    <3>1. /\ manager'[b] = manager[b] /\ toClient'[b] = toClient[b] /\ Stands(b)
          /\ toServer'[b] = toServer[b] /\ toServer[b] \in Seq(FromClient(b))
          /\ b \in awaiting' <=> b \in awaiting
          /\ object = "fresh" => Joins(b)
      BY <1>1, <1>2, <1>3, <2>1
    <3>2. /\ toClient'[b] # <<>> => b \in server'.conn
          /\ \A j \in 1 .. Len(toClient'[b]) :
               toClient'[b][j].kind = "reply" =>
                 j \in 1 .. Len(toClient[b]) /\ toClient'[b][j] = toClient[b][j]
      BY <1>1, <3>1 DEF Stands
    <3>3. Stands(b)'
      BY <1>1, <3>1, <3>2, StandsOn
    <3>4. ASSUME object' = "fresh" PROVE Joins(b)'
      <4>1. Joins(b)
        BY <1>1, <3>1, <3>4
      <4>2. \A j \in 1 .. Len(toClient'[b]) :
              toClient'[b][j].kind = "reply" => toClient'[b][j].list.master # NULL
        BY <3>1, <4>1 DEF Joins
      <4> QED
        BY <1>1, <3>1, <4>1, <4>2, JoinsOn
    <3> QED
      BY <3>3, <3>4
  <2>2. CASE b = c
    <3> DEFINE q == toClient[c]  p == toClient'[c]  s == toServer[c]
    <3>1. Stands(c) /\ Drops(p, q, i)
      BY <1>1, <1>2
    <3>2. c \notin unborn
      BY <1>1 DEF IInv
    <3>3. i \in 1 .. Len(q)
      BY <3>1 DEF Drops
    <3>4. \A j \in 1 .. Len(s) : s[j].kind # "pull"
      BY <1>1, <3>1, <3>3 DEF Stands
    <3>5. \A j \in 1 .. Len(p) : p[j].kind # "reply"
      <4>1. \A j \in 1 .. Len(q) : q[j].kind = "reply" => j = i
        BY <1>1, <3>1, <3>3 DEF Stands
      <4> HIDE DEF q, p
      <4>2. \A j \in 1 .. Len(p) : \E d \in 1 .. Len(q) : p[j] = q[d] /\ d # i
        <5> TAKE j \in 1 .. Len(p)
        <5>1. CASE j < i
          <6>1. j \in 1 .. Len(q) /\ p[j] = q[j] /\ j # i
            BY <3>1, <3>3, <5>1 DEF Drops
          <6> QED
            BY <6>1
        <5>2. CASE ~(j < i)
          <6>1. j + 1 \in 1 .. Len(q) /\ p[j] = q[j + 1] /\ j + 1 # i
            BY <3>1, <3>3, <5>2 DEF Drops
          <6> QED
            BY <6>1
        <5> QED
          BY <5>1, <5>2
      <4> QED
        BY <4>1, <4>2
    <3>6. manager'[c] = k /\ toServer'[c] = s /\ c \notin awaiting' /\ c \notin unborn'
      BY <1>1, <1>3, <3>2
    <3> HIDE DEF p, s
    <3>7. Stands(c)'
      BY <1>1, <3>4, <3>5, <3>6 DEF Stands, p, s
    <3>8. object' = "fresh" => Joins(c)'
      BY <1>1, <3>5, <3>6 DEF Joins, Ready, p, s
    <3> QED
      BY <2>2, <3>7, <3>8
  <2> QED
    BY <2>1, <2>2
<1>5. TInv'
  BY <1>1, <1>2, <1>3, <1>4 DEF TInv
<1>6. ASSUME object = "fresh" PROVE server.master # NULL
  <2> SUFFICES ASSUME server.master = NULL PROVE FALSE
    OBVIOUS
  <2>1. server.conn \subseteq awaiting /\ NoReply
    BY <1>6 DEF IInv
  <2>2. i \in 1 .. Len(toClient[c]) /\ toClient[c][i].kind = "reply"
    BY <1>1, <2>1 DEF Drops
  <2> QED
    BY <2>1, <2>2 DEF NoReply
<1>7. IInv'
  BY <1>1, <1>6 DEF IInv, Sent, CreatesFirst
<1> QED
  BY <1>5, <1>7

-----------------------------------------------------------------------------
(* The clients that have joined when the session starts                    *)

\* What a client has heard when clients 1 to n have joined, after f.
Greeted(c, f, n) ==
  IF n < c THEN NewManager
  ELSE LoadState(f[n - 1], c, BuildServerState(Settled(n, n)))

\* The clients join one after the other, and that is all.
LEMMA JoiningRuns ==
  ASSUME NEW c \in Client, NEW N \in Nat
  PROVE  \E f : /\ f = [i \in 0 .. N |-> Greeted(c, f, i)]
                /\ Joined(c, N) = f[N]
<1> DEFINE Run(n) == \E f : f = [i \in 0 .. n |-> Greeted(c, f, i)]
           S == {n \in 0 .. N : ~Run(n)}
<1>1. N \in Nat /\ c \in Nat /\ c > 0
  BY NClientsAssumption DEF Client
<1>2. Run(0)
  <2> DEFINE f == [i \in 0 .. 0 |-> NewManager]
  <2>1. f = [i \in 0 .. 0 |-> Greeted(c, f, i)]
    BY <1>1 DEF Greeted
  <2> QED
    BY <2>1
<1>3. ASSUME NEW n \in 1 .. N, Run(n - 1) PROVE Run(n)
  <2>1. PICK f : f = [i \in 0 .. n - 1 |-> Greeted(c, f, i)]
    BY <1>3
  <2> DEFINE g == [i \in 0 .. n |-> IF i < n THEN f[i] ELSE Greeted(c, f, n)]
  <2>2. ASSUME NEW i \in 0 .. n PROVE g[i] = Greeted(c, g, i)
    <3>1. g[i] = Greeted(c, f, i)
      <4>1. CASE i < n
        <5>1. i \in 0 .. n - 1
          BY <1>1, <4>1
        <5> QED
          BY <2>1, <4>1, <5>1
      <4>2. CASE ~(i < n)
        <5>1. i = n
          BY <1>1, <4>2
        <5> QED
          BY <4>2, <5>1
      <4> QED
        BY <4>1, <4>2
    <3>2. CASE i < c
      <4> HIDE DEF g
      <4> QED
        BY <3>1, <3>2 DEF Greeted
    <3>3. CASE ~(i < c)
      <4>1. i - 1 \in 0 .. n /\ i - 1 < n
        BY <1>1, <3>3
      <4>2. g[i - 1] = f[i - 1]
        BY <4>1
      <4> HIDE DEF g
      <4> QED
        BY <3>1, <3>3, <4>2 DEF Greeted
    <3> QED
      BY <3>2, <3>3
  <2>3. g = [i \in 0 .. n |-> g[i]]
    OBVIOUS
  <2> HIDE DEF g
  <2>4. g = [i \in 0 .. n |-> Greeted(c, g, i)]
    BY <2>2, <2>3
  <2> QED
    BY <2>4
<1>4. S = {}
  <2>1. \A n \in 1 .. N : n \in S => n - 1 \in S
    BY <1>1, <1>3
  <2>2. 0 \notin S /\ S \in SUBSET (0 .. N)
    BY <1>2
  <2> HIDE DEF S
  <2> QED
    BY <1>1, <2>1, <2>2, NoLeastExample
<1>5. Run(N)
  <2>1. N \in 0 .. N
    BY <1>1
  <2> QED
    BY <1>4, <2>1
<1> DEFINE h == CHOOSE f : f = [i \in 0 .. N |-> Greeted(c, f, i)]
<1>6. h = [i \in 0 .. N |-> Greeted(c, h, i)]
  BY <1>5
<1>7. Joined(c, N) = h[N]
  BY DEF Joined, Greeted
<1> QED
  BY <1>6, <1>7

\* The copy k of client c when clients 1 to n have joined.
Knows(k, c, n) ==
  /\ AtRest(k, c) /\ k.cached = {} /\ k.follow = k.master /\ Within(k, {NULL, 1})
  /\ n < c => k = NewManager
  /\ c <= n => /\ k.users = 1 .. n /\ k.master = 1 /\ k.settings = FALSE
               /\ \A u \in 1 .. n : k.names[u] = "User"

\* A manager as its constructor leaves it.
LEMMA NewManagerKnows ==
  ASSUME NEW c \in Client, NEW n, n < c, ~(c <= n)
  PROVE  Knows(NewManager, c, n)
<1> DEFINE none == [u \in Client |-> Unnamed]
<1>1. none \in [Client -> Name \cup {Unnamed}] /\ \A u \in Client : none[u] \notin Name
  BY DEF Name, Unnamed
<1>2. /\ NoUsers \in Lists /\ GoodList(NoUsers)
      /\ NoUsers.master = NULL /\ NoUsers.follow = NULL
  BY NobodyListed DEF GoodLists
<1>4. NewManager = [users |-> {}, names |-> none, master |-> NULL,
        follow |-> NULL, settings |-> FALSE, state |-> NoUsers,
        cached |-> {}, shown |-> NULL]
  BY DEF NewManager
<1> HIDE DEF none
<1>5. IsCopy(NewManager)
  BY <1>1, <1>2, <1>4 DEF IsCopy
<1> QED
  BY <1>1, <1>2, <1>4, <1>5 DEF Knows, AtRest, Complete, Within

\* The session that has settled, and what it says.
LEMMA SettledSays ==
  ASSUME NEW n \in 0 .. NClients, NEW ref \in Nat
  PROVE  /\ TypedServer(Settled(n, ref))
         /\ Settled(n, ref).conn = 1 .. n /\ 1 .. n \subseteq Client
         /\ Settled(n, ref).master = IF n = 0 THEN NULL ELSE 1
         /\ Settled(n, ref).settings = FALSE
         /\ Settled(n, ref).ref = ref
         /\ \A u \in Client : Settled(n, ref).names[u] = "User"
<1> DEFINE names == [c \in Client |-> "User"]  m == IF n = 0 THEN NULL ELSE 1
<1>1. Settled(n, ref) = [conn |-> 1 .. n, names |-> names, master |-> m,
        settings |-> FALSE, named |-> 1 .. n, ref |-> ref, registered |-> 1 .. n]
  BY DEF Settled
<1>2. 1 .. n \subseteq Client
  BY NClientsAssumption DEF Client
<1>3. m \in (1 .. n) \cup {NULL} /\ m \in Client \cup {NULL}
  BY <1>2
<1>4. names \in [Client -> Name] /\ \A u \in Client : names[u] = "User"
  BY DEF Name
<1> HIDE DEF names, m
<1>5. /\ Settled(n, ref).conn = 1 .. n /\ Settled(n, ref).names = names
      /\ Settled(n, ref).master = m /\ Settled(n, ref).settings = FALSE
      /\ Settled(n, ref).ref = ref
  BY <1>1
<1>6. TypedServer(Settled(n, ref))
  BY <1>1, <1>2, <1>3, <1>4 DEF TypedServer, ServerState
<1> QED
  BY <1>2, <1>4, <1>5, <1>6 DEF m

\* Who has joined knows who is there.
LEMMA JoinedKnows ==
  ASSUME NEW c \in Client, NEW N \in 0 .. NClients
  PROVE  Knows(Joined(c, N), c, N)
<1>1. N \in Nat /\ NClients \in Nat /\ c \in Nat /\ c > 0
  BY NClientsAssumption DEF Client
<1>2. PICK f : f = [i \in 0 .. N |-> Greeted(c, f, i)] /\ Joined(c, N) = f[N]
  BY <1>1, JoiningRuns
<1> DEFINE S == {n \in 0 .. N : ~Knows(f[n], c, n)}
<1>3. ASSUME NEW n \in 0 .. N, n < c PROVE Knows(f[n], c, n)
  <2>1. f[n] = NewManager /\ ~(c <= n)
    BY <1>1, <1>2, <1>3 DEF Greeted
  <2> QED
    BY <1>3, <2>1, NewManagerKnows
<1>4. ASSUME NEW n \in 1 .. N, Knows(f[n - 1], c, n - 1), ~(n < c)
      PROVE  Knows(f[n], c, n)
  <2> DEFINE k == f[n - 1]  s == Settled(n, n)  list == BuildServerState(s)
             u == LoadState(k, c, list)
  <2>1. f[n] = u
    BY <1>1, <1>2, <1>4 DEF Greeted
  <2>2. /\ TypedServer(s) /\ s.conn = 1 .. n /\ s.master = 1
        /\ s.settings = FALSE /\ 1 .. n \subseteq Client
        /\ \A d \in Client : s.names[d] = "User"
    <3>1. n \in 0 .. NClients /\ n \in Nat /\ n # 0
      BY <1>1
    <3> QED
      BY <3>1, SettledSays
  <2> HIDE DEF s
  <2>3. 1 \in 1 .. n
    BY <1>1
  <2>4. /\ GoodList(list) /\ list.users = 1 .. n /\ list.master = 1
        /\ list.follow = NULL /\ list.settings = FALSE
        /\ \A d \in 1 .. n : list.names[d] = "User"
    BY <2>2, <2>3, ServerSays DEF GoodLists
  <2> HIDE DEF list
  <2>5. AtRest(k, c) /\ k.cached = {} /\ k.follow = k.master /\ Within(k, {NULL, 1})
    BY <1>4 DEF Knows
  <2>6. AtRest(u, c) /\ Says(k, list, u)
    BY <2>3, <2>4, <2>5, Loading
  <2> HIDE DEF u, k
  <2>7. /\ u.users = 1 .. n /\ u.cached = {} /\ u.settings = FALSE /\ u.master = 1
        /\ \A d \in 1 .. n : u.names[d] = "User"
    BY <2>4, <2>5, <2>6 DEF Says, NULL
  <2>8. u.follow = u.master /\ Within(u, {NULL, 1})
    BY <2>4, <2>5, <2>6 DEF Says
  <2> QED
    BY <1>4, <2>1, <2>6, <2>7, <2>8 DEF Knows
<1>5. S = {}
  <2>1. \A n \in 1 .. N : n \in S => n - 1 \in S
    <3>1. \A n \in 1 .. N : n - 1 \in 0 .. N /\ n \in 0 .. N
      BY <1>1
    <3> QED
      BY <1>3, <1>4, <3>1
  <2>2. 0 \notin S /\ S \in SUBSET (0 .. N)
    BY <1>1, <1>3
  <2> HIDE DEF S
  <2> QED
    BY <1>1, <2>1, <2>2, NoLeastExample
<1>6. N \in 0 .. N
  BY <1>1
<1> QED
  BY <1>2, <1>5, <1>6

\* The session when the model starts.
LEMMA Beginning ==
  ASSUME Init
  PROVE  \E n \in 0 .. NClients : \E m \in 0 .. NClients : \E ref \in Nat :
           /\ server = Settled(n, ref) /\ (n # 0 => ref # 0)
           /\ manager = [c \in Client |-> Joined(c, n)]
           /\ unborn = n + 1 .. m /\ ops \in 0 .. MaxOps
<1>1. PICK start \in Starts :
        /\ manager = [c \in Client |-> Joined(c, start.settled)]
        /\ \E ref \in References(start.settled) : server = Settled(start.settled, ref)
        /\ unborn = start.settled + 1 .. start.clients
        /\ ops = start.ops
  BY DEF Init
<1>2. /\ start.settled \in 0 .. NClients /\ start.clients \in 0 .. NClients
      /\ start.ops \in 0 .. MaxOps
  BY StartsAssumption
<1>3. \A ref \in References(start.settled) :
        ref \in Nat /\ (start.settled # 0 => ref # 0)
  BY <1>2 DEF References
<1> QED
  BY <1>1, <1>2, <1>3

LEMMA Begins == Init => TInv /\ IInv
<1> SUFFICES ASSUME Init PROVE TInv /\ IInv
  OBVIOUS
<1>1. /\ toServer = [c \in Client |-> <<>>] /\ toClient = [c \in Client |-> <<>>]
      /\ awaiting = {} /\ object = "fresh"
  BY DEF Init
<1>2. PICK n \in 0 .. NClients, m \in 0 .. NClients, ref \in Nat :
        /\ server = Settled(n, ref) /\ (n # 0 => ref # 0)
        /\ manager = [c \in Client |-> Joined(c, n)]
        /\ unborn = n + 1 .. m /\ ops \in 0 .. MaxOps
  BY Beginning
<1>3. /\ TypedServer(server) /\ server.conn = 1 .. n /\ server.ref = ref
      /\ server.master = IF n = 0 THEN NULL ELSE 1
  BY <1>2, SettledSays
<1>4. \A c \in Client : Knows(manager[c], c, n)
  BY <1>2, JoinedKnows
<1>5. /\ 1 .. 0 = {}
      /\ \A c \in Client : /\ Len(toServer[c]) = 0 /\ Len(toClient[c]) = 0
                           /\ toClient[c] = <<>> /\ toServer[c] = <<>>
  BY <1>1
<1>6. ASSUME NEW c \in Client PROVE Stands(c) /\ Joins(c)
  <2>1. c \in unborn => manager[c] = NewManager
    <3>1. c \in unborn => n < c
      BY <1>2, NClientsAssumption DEF Client
    <3> QED
      BY <1>4, <3>1 DEF Knows
  <2>2. c \in server.conn => manager[c].follow # NULL /\ manager[c].users # {}
    <3> SUFFICES ASSUME c \in server.conn
                 PROVE  manager[c].follow # NULL /\ manager[c].users # {}
      OBVIOUS
    <3>1. c <= n /\ c \in 1 .. n
      BY <1>2, <1>3
    <3>2. manager[c].users = 1 .. n /\ manager[c].master = 1
      BY <1>4, <3>1 DEF Knows
    <3>3. manager[c].follow = manager[c].master
      BY <1>4 DEF Knows
    <3>4. c \in manager[c].users
      BY <3>1, <3>2, Zenon
    <3>5. manager[c].follow = 1
      BY <3>2, <3>3, Zenon
    <3>6. 1 # NULL
      BY DEF NULL
    <3> QED
      BY <3>4, <3>5, <3>6, Zenon
  <2>3. Ready(manager[c])
    BY <1>4 DEF Knows, Ready
  <2> QED
    BY <1>1, <1>5, <2>1, <2>2, <2>3 DEF Stands, Joins
<1>7. \A c \in Client : /\ toServer[c] \in Seq(FromClient(c))
                        /\ toClient[c] \in Seq(ForClient(c))
  <2>1. \A A : <<>> \in Seq(A)
    OBVIOUS
  <2> QED
    BY <1>5, <2>1
<1>8. /\ manager = [c \in Client |-> manager[c]]
      /\ toServer = [c \in Client |-> toServer[c]]
      /\ toClient = [c \in Client |-> toClient[c]]
  BY <1>1, <1>2
<1>9. TInv
  BY <1>1, <1>2, <1>3, <1>4, <1>6, <1>7, <1>8 DEF TInv, Knows
<1>10. unborn \subseteq Client /\ server.conn \cap unborn = {}
  BY <1>2, <1>3, NClientsAssumption DEF Client
<1>11. /\ server.conn = {} \/ server.master # NULL
       /\ server.master # NULL => server.ref # 0
       /\ server.master = NULL => server.conn \subseteq awaiting
  <2>1. n = 0 => 1 .. n = {}
    OBVIOUS
  <2> QED
    BY <1>2, <1>3, <2>1 DEF NULL
<1>12. \A c \in Client : Sent(c) /\ CreatesFirst(c)
  BY <1>5 DEF Sent, CreatesFirst
<1>13. NoReply
  BY <1>5 DEF NoReply
<1> QED
  BY <1>1, <1>9, <1>10, <1>11, <1>12, <1>13 DEF IInv

-----------------------------------------------------------------------------
(* Types and the master, whatever happens                                  *)

\* Every step is of one of three kinds: a user acts, the server serves a
\* client, or a client loads what it was told.
LEMMA Steps ==
  ASSUME IInv, TInv, [Next]_vars
  PROVE  \/ UNCHANGED vars
         \/ \E c \in Client : \/ \E k, pushed : Acts(c, k, pushed)
                              \/ \E said, more : Serves(c, said, more)
                              \/ \E i, k : Loads(c, i, k)
<1>1. CASE UNCHANGED vars
  BY <1>1
<1>2. CASE Next
  <2>1. PICK c \in Client :
          \/ \/ \E id \in Client : PromoteToMaster(c, id) \/ ChooseUser(c, id)
             \/ \E name \in Name : SetUserLabel(c, name)
             \/ \E settings \in BOOLEAN : ChangeSettings(c, settings)
             \/ UpdateUserInformations(c) \/ MoveCamera(c) \/ Leave(c)
          \/ Connect(c) \/ HandleRegister(c) \/ HandlePush(c) \/ HandleCamera(c)
             \/ HandlePull(c) \/ HandleClose(c)
          \/ ReceiveReply(c) \/ Notified(c)
    BY <1>2 DEF Next
  <2>2. AtRest(manager[c], c)
    BY DEF TInv
  <2>3. CASE \/ \E id \in Client : PromoteToMaster(c, id) \/ ChooseUser(c, id)
             \/ \E name \in Name : SetUserLabel(c, name)
             \/ \E settings \in BOOLEAN : ChangeSettings(c, settings)
             \/ UpdateUserInformations(c) \/ MoveCamera(c) \/ Leave(c)
    BY <2>2, <2>3, UsersAct
  <2>4. CASE Connect(c) \/ HandleRegister(c) \/ HandlePush(c) \/ HandleCamera(c)
               \/ HandlePull(c) \/ HandleClose(c)
    BY <2>4, ConnectServes, RegisterServes, PushServes, CameraServes, PullServes,
       CloseServes
  <2>5. CASE ReceiveReply(c) \/ Notified(c)
    BY <2>5, ReplyLoads, NotifiedLoads
  <2> QED
    BY <2>1, <2>3, <2>4, <2>5
<1> QED
  BY <1>1, <1>2

\* No step leaves the types, how clients join, or what makes the session have
\* a master.
THEOREM Inductive == Spec => [](TInv /\ IInv)
<1>1. Init => TInv /\ IInv
  BY Begins
<1>2. TInv /\ IInv /\ [Next]_vars => (TInv /\ IInv)'
  <2> SUFFICES ASSUME IInv, TInv, [Next]_vars PROVE TInv' /\ IInv'
    OBVIOUS
  <2>1. CASE UNCHANGED vars
    <3>1. UNCHANGED <<manager, server, toServer, toClient, unborn, awaiting, ops,
                      object>>
      BY <2>1 DEF vars
    <3>2. \A b \in Client : Stands(b)' = Stands(b) /\ Joins(b)' = Joins(b)
      BY <3>1 DEF Stands, Joins
    <3>3. \A b \in Client : Sent(b)' = Sent(b) /\ CreatesFirst(b)' = CreatesFirst(b)
      BY <3>1 DEF Sent, CreatesFirst
    <3>4. NoReply' = NoReply
      BY <3>1 DEF NoReply
    <3>5. TInv'
      BY <3>1, <3>2 DEF TInv
    <3>6. IInv'
      BY <3>1, <3>3, <3>4 DEF IInv
    <3> QED
      BY <3>5, <3>6
  <2>2. CASE \E c \in Client : \/ \E k, pushed : Acts(c, k, pushed)
                               \/ \E said, more : Serves(c, said, more)
                               \/ \E i, k : Loads(c, i, k)
    BY <2>2, ActsTyped, ServedTyped, ServedSound, LoadsTyped
  <2> QED
    BY <2>1, <2>2, Steps
<1> QED
  BY <1>1, <1>2, PTL DEF Spec

\* Copies, messages and the server's state are what their readers expect, for
\* every number of clients: in particular no client keeps its own camera, and
\* the master is connected, if there is one.
THEOREM TypeCorrect == Spec => []TypeOK
<1>1. IInv /\ TInv => TypeOK
  <2> SUFFICES ASSUME IInv, TInv PROVE TypeOK
    OBVIOUS
  <2>1. ASSUME NEW c \in Client
        PROVE  /\ manager[c].users \subseteq Client
               /\ manager[c].names \in [Client -> Name \cup {Unnamed}]
               /\ manager[c].master \in Client \cup {NULL}
               /\ manager[c].follow \in Client \cup {NULL, Stop}
               /\ manager[c].cached \subseteq Client \ {c}
               /\ manager[c].shown \in Client \cup {NULL}
               /\ manager[c].state \in Lists
    <3>1. AtRest(manager[c], c)
      BY DEF TInv
    <3> QED
      BY <3>1 DEF AtRest, IsCopy
  <2>2. /\ server \in ServerState /\ server.master \in server.conn \cup {NULL}
        /\ awaiting \subseteq Client /\ ops \in 0 .. MaxOps
    BY DEF TInv, TypedServer
  <2>3. /\ server.conn \subseteq Client \ unborn
        /\ server.names \in [Client -> Name] /\ server.ref \in Nat
        /\ server.named \subseteq Client /\ server.registered \subseteq Client
    BY <2>2 DEF IInv, ServerState
  <2> QED
    BY <2>1, <2>2, <2>3 DEF TypeOK
<1> QED
  BY <1>1, Inductive, PTL

\* As long as the server has its object, the session has a master, or a pull
\* is under way that elects one, however many clients come and go.
THEOREM MasterStays == Spec => []SessionHasMaster
<1>1. IInv /\ TInv => SessionHasMaster
  <2> SUFFICES ASSUME IInv, TInv, server.ref > 0, server.conn # {},
                      server.master \notin server.conn
               PROVE  \E c \in server.conn : Request("pull") \in ToSet(toServer[c])
    BY DEF SessionHasMaster
  <2>1. server.ref # 0 /\ server.master = NULL /\ server.conn \subseteq Client
    BY DEF TInv, TypedServer, ServerState
  <2>2. PICK c \in server.conn : \E i \in 1 .. Len(toServer[c]) :
                                   toServer[c][i].kind = "pull"
    BY <2>1 DEF IInv
  <2>3. PICK i \in 1 .. Len(toServer[c]) : toServer[c][i].kind = "pull"
    BY <2>2
  <2>4. toServer[c] \in Seq(FromClient(c))
    BY <2>1 DEF TInv
  <2>5. toServer[c][i] \in FromClient(c) /\ i \in DOMAIN toServer[c]
    BY <2>4
  <2>6. toServer[c][i] = Request("pull")
    BY <2>3, <2>5 DEF FromClient, Users, Camera, Request
  <2> QED
    BY <2>5, <2>6 DEF ToSet
<1> QED
  BY <1>1, Inductive, PTL

-----------------------------------------------------------------------------
(* Copies and the server's state                                           *)

\* A message that makes a client no different, but for cameras.
Silent(msg) == msg.kind # "users" \/ msg.list.users = {}

\* A message that tells the state of the server s.
Tells(msg, s) ==
  /\ msg.kind = "users"
  /\ [msg.list EXCEPT !.follow = NULL] = BuildServerState(s)

\* The last list in a queue does.
Told(q, s) ==
  \E i \in 1 .. Len(q) :
    Tells(q[i], s) /\ \A j \in 1 .. Len(q) : i < j => Silent(q[j])

\* A copy that is the state of the server.
InStep(k, s) ==
  /\ k.users = s.conn /\ k.master = s.master /\ k.settings = s.settings
  /\ \A u \in s.conn : k.names[u] = s.names[u]

\* What client has sent, with copy k, will make the server speak if it does
\* not agree.
Pending(sent, k) ==
  \E i \in 1 .. Len(sent) : sent[i].kind = "users" /\ Matches(sent[i].list, k)

\* No news is under way to a client with copy k: it agrees with the server,
\* or will be corrected.
Heard(k, q, sent, s) ==
  /\ \A i \in 1 .. Len(q) : Silent(q[i])
  /\ k.users = s.conn /\ k.master \in s.conn
  /\ InStep(k, s) \/ Pending(sent, k)

\* Unless the server has relayed a stale list or lost its object since it last
\* spoke, every client has heard or will hear its state.
CInv ==
  relay # "stale" /\ object # "stale" /\ server.master # NULL =>
    \A b \in server.conn :
      \/ Told(toClient[b], server)
      \/ b \notin awaiting /\ Heard(manager[b], toClient[b], toServer[b], server)

\* What a message that tells the server's state says.
LEMMA Telling ==
  ASSUME NEW s, TypedServer(s), NEW msg, msg.kind = "users", msg.list \in GoodLists
  PROVE  /\ Tells(msg, s) =>
              /\ msg.list.users = s.conn /\ msg.list.master = s.master
              /\ s.conn # {} => msg.list.settings = s.settings
              /\ \A u \in s.conn : msg.list.names[u] = s.names[u]
         /\ ~IsStale(s, msg) <=> Silent(msg) \/ Tells(msg, s)
         /\ msg.list = BuildServerState(s) => Tells(msg, s)
<1> DEFINE l == BuildServerState(s)  n == [msg.list EXCEPT !.follow = NULL]
<1>1. /\ l \in GoodLists
      /\ l.users = s.conn /\ l.master = s.master /\ l.follow = NULL
      /\ s.conn # {} => l.settings = s.settings
      /\ \A u \in s.conn : l.names[u] = s.names[u]
  BY ServerSays
<1>2. /\ n.users = msg.list.users /\ n.names = msg.list.names
      /\ n.master = msg.list.master /\ n.settings = msg.list.settings
      /\ msg.list.follow = NULL => n = msg.list
  BY DEF GoodLists, Lists
<1>3. Tells(msg, s) <=> n = l
  BY DEF Tells
<1>4. ~IsStale(s, msg) <=> msg.list.users = {} \/ n = l
  BY DEF IsStale
<1> HIDE DEF l, n
<1>5. msg.list = l => n = l
  BY <1>1, <1>2
<1> QED
  BY <1>1, <1>2, <1>3, <1>4, <1>5 DEF Silent, l

\* A place among at most one.
LEMMA OneOrNone == \A d \in Int, m \in {0, 1} : d \in 1 .. m => m = 1 /\ d = 1
OBVIOUS

\* A queue in which the server's state was put, and perhaps one message more
\* that is not stale.
LEMMA StillTold ==
  ASSUME NEW p, NEW q, NEW said, NEW t, Appends(p, q, said, t), NEW s,
         \A i \in 1 .. Len(said) : Tells(said[i], s),
         Len(t) \in {0, 1}, Len(t) = 1 => Tells(t[1], s) \/ Silent(t[1])
  PROVE  /\ Len(said) # 0 \/ Told(q, s) => Told(p, s)
         /\ Len(said) = 0 /\ (\A i \in 1 .. Len(q) : Silent(q[i])) =>
              Told(p, s) \/ \A i \in 1 .. Len(p) : Silent(p[i])
<1>1. /\ Len(p) = Len(q) + Len(said) + Len(t)
      /\ Len(q) \in Nat /\ Len(said) \in Nat
      /\ \A i \in 1 .. Len(q) : p[i] = q[i]
      /\ \A i \in 1 .. Len(said) : p[Len(q) + i] = said[i]
      /\ \A i \in 1 .. Len(t) : p[Len(q) + Len(said) + i] = t[i]
      /\ \A i \in 1 .. Len(p) : \/ i \in 1 .. Len(q)
                                \/ i - Len(q) \in 1 .. Len(said)
                                \/ i - Len(q) - Len(said) \in 1 .. Len(t)
  BY DEF Appends
<1>2. Len(t) = 1 => /\ Len(p) \in 1 .. Len(p) /\ p[Len(p)] = t[1]
                    /\ \A j \in 1 .. Len(p) : ~(Len(p) < j)
  BY <1>1
<1>3. CASE Len(t) = 1 /\ Tells(t[1], s)
  <2>1. Told(p, s)
    BY <1>2, <1>3 DEF Told
  <2> QED
    BY <2>1
<1>4. CASE Len(t) = 0 \/ (Len(t) = 1 /\ Silent(t[1]))
  <2>1. ASSUME NEW j \in 1 .. Len(p), Len(q) + Len(said) < j
        PROVE  Silent(p[j])
    <3>1. j - Len(q) - Len(said) \in 1 .. Len(t)
      BY <1>1, <2>1
    <3>4. Len(t) \in {0, 1} /\ j - Len(q) - Len(said) \in Int
      BY <1>1
    <3>2. Len(t) = 1 /\ j - Len(q) - Len(said) = 1
      BY <3>1, <3>4, OneOrNone, Zenon
    <3>3. j = Len(p)
      BY <1>1, <3>2
    <3> QED
      BY <1>2, <1>4, <3>2, <3>3
  <2>2. CASE Len(said) # 0
    <3> DEFINE i == Len(q) + Len(said)
    <3>1. i \in 1 .. Len(p) /\ Len(said) \in 1 .. Len(said)
      BY <1>1, <1>4, <2>2
    <3>2. Tells(p[i], s)
      BY <1>1, <3>1
    <3> QED
      BY <2>1, <2>2, <3>1, <3>2 DEF Told
  <2>3. CASE Len(said) = 0
    <3>1. \A j \in 1 .. Len(p) : (j \in 1 .. Len(q) /\ p[j] = q[j]) \/ Silent(p[j])
      BY <1>1, <2>1, <2>3
    <3>2. ASSUME Told(q, s) PROVE Told(p, s)
      <4>1. PICK i \in 1 .. Len(q) :
              Tells(q[i], s) /\ \A j \in 1 .. Len(q) : i < j => Silent(q[j])
        BY <3>2 DEF Told
      <4>2. i \in 1 .. Len(p) /\ p[i] = q[i]
        BY <1>1, <1>4, <2>3
      <4> QED
        BY <3>1, <4>1, <4>2 DEF Told
    <3>3. (\A i \in 1 .. Len(q) : Silent(q[i])) => \A i \in 1 .. Len(p) : Silent(p[i])
      BY <3>1
    <3> QED
      BY <2>3, <3>2, <3>3
  <2> QED
    BY <2>2, <2>3
<1> QED
  BY <1>3, <1>4

\* What the server may leave in silence has been told.
LEMMA SameTold ==
  ASSUME NEW s, NEW t, Same(t, s), NEW q
  PROVE  /\ Told(q, s) => Told(q, t)
         /\ \A k : InStep(k, s) => InStep(k, t)
BY DEF Same, Told, Tells, BuildServerState, InStep

\* A list that is pending was read, or still is.
LEMMA PendingRead ==
  ASSUME NEW S, NEW q \in Seq(S), q # <<>>, NEW k, Pending(q, k)
  PROVE  \/ Head(q).kind = "users" /\ Matches(Head(q).list, k)
         \/ Pending(Tail(q), k)
<1>1. PICK i \in 1 .. Len(q) : q[i].kind = "users" /\ Matches(q[i].list, k)
  BY DEF Pending
<1>2. CASE i = 1
  BY <1>1, <1>2
<1>3. CASE i # 1
  <2>1. i - 1 \in 1 .. Len(Tail(q)) /\ Tail(q)[i - 1] = q[i]
    BY <1>3
  <2> QED
    BY <1>1, <2>1 DEF Pending
<1> QED
  BY <1>2, <1>3

\* What more a client is told is nothing, or one message that is not stale.
LEMMA MoreHeard ==
  ASSUME IInv, TInv, NEW c \in Client, NEW said, NEW more, Serves(c, said, more),
         relay' # "stale", NEW b \in server'.conn, b \in Client
  PROVE  /\ Len(more[b]) \in {0, 1}
         /\ Len(more[b]) = 1 => Tells(more[b][1], server') \/ Silent(more[b][1])
<1> DEFINE msg == Head(toServer[c])  reply == Reply(BuildServerState(server'))
           nobody == Reply(NoUsers)
<1>1. \/ more[b] = <<>>
      \/ /\ toServer[c] # <<>> /\ more[b] = <<msg>>
         /\ msg.kind \in {"users", "camera"} /\ ~IsStale(server', msg)
      \/ more[b] = <<reply>>
      \/ more[b] = <<nobody>>
  BY DEF Serves
<1>2. Silent(reply) /\ Silent(nobody)
  BY DEF Silent, Reply
<1>3. TypedServer(server')
  BY DEF Serves, Hears
<1>4. toServer[c] # <<>> /\ msg.kind = "users" => msg.list \in GoodLists
  BY MessageRead
<1> HIDE DEF msg, reply, nobody
<1>5. ASSUME toServer[c] # <<>>, msg.kind \in {"users", "camera"}, ~IsStale(server', msg)
      PROVE  Tells(msg, server') \/ Silent(msg)
  <2>1. CASE msg.kind = "users"
    BY <1>3, <1>4, <1>5, <2>1, Telling
  <2>2. CASE msg.kind # "users"
    BY <2>2 DEF Silent
  <2> QED
    BY <2>1, <2>2
<1>6. more[b] = <<>> => Len(more[b]) = 0
  OBVIOUS
<1>7. ASSUME NEW m, more[b] = <<m>> PROVE Len(more[b]) = 1 /\ more[b][1] = m
  BY <1>7
<1>8. \/ Len(more[b]) = 0
      \/ Len(more[b]) = 1 /\ (Tells(more[b][1], server') \/ Silent(more[b][1]))
  BY <1>1, <1>2, <1>5, <1>6, <1>7, Zenon
<1> QED
  BY <1>8

\* Steps of the server keep the news of its state.
LEMMA ServedHeard ==
  ASSUME IInv, TInv, CInv, NEW c \in Client, NEW said, NEW more, Serves(c, said, more)
  PROVE  CInv'
<1> SUFFICES ASSUME relay' # "stale", object' # "stale", server'.master # NULL,
                    NEW b \in server'.conn
             PROVE  \/ Told(toClient'[b], server')
                    \/ /\ b \notin awaiting'
                       /\ Heard(manager'[b], toClient'[b], toServer'[b], server')
  BY DEF CInv
<1> DEFINE q == toClient[b]  p == toClient'[b]  k == manager[b]  sent == toServer[b]
<1>1. Hears(said, more) /\ manager' = manager
  BY DEF Serves
<1>2. b \in Client /\ TypedServer(server')
  BY <1>1 DEF Hears, TypedServer, ServerState
<1>3. /\ Appends(p, q, said, more[b])
      /\ \A i \in 1 .. Len(said) : said[i] = Users(BuildServerState(server'))
  <2>1. more[b] \in Seq(ForClient(b))
    BY <1>2, MoreTyped
  <2> QED
    BY <1>1, <1>2, <2>1, HeardQueue
<1>4. \A i \in 1 .. Len(said) : Tells(said[i], server')
  <2> DEFINE l == BuildServerState(server')  note == Users(l)
  <2>1. note.kind = "users" /\ note.list = l
    BY DEF Users
  <2>2. l \in GoodLists
    BY <1>2, ServerSays
  <2>3. Tells(note, server')
    BY <1>2, <2>1, <2>2, Telling
  <2> QED
    BY <1>3, <2>3
<1>5. /\ Len(more[b]) \in {0, 1}
      /\ Len(more[b]) = 1 => Tells(more[b][1], server') \/ Silent(more[b][1])
  BY <1>2, MoreHeard
<1>6. /\ Len(said) # 0 \/ Told(q, server') => Told(p, server')
      /\ Len(said) = 0 /\ (\A i \in 1 .. Len(q) : Silent(q[i])) =>
           Told(p, server') \/ \A i \in 1 .. Len(p) : Silent(p[i])
  BY <1>3, <1>4, <1>5, StillTold
<1>7. CASE said # <<>>
  <2>1. said \in Seq({Users(BuildServerState(server'))})
    BY <1>1 DEF Hears
  <2>2. Len(said) # 0
    BY <1>7, <2>1
  <2> QED
    BY <1>6, <2>2
<1>8. CASE said = <<>>
  <2>1. /\ Same(server', server) /\ relay # "stale" /\ object # "stale"
        /\ server.master # NULL /\ b \in server.conn /\ Len(said) = 0
    BY <1>1, <1>8 DEF Serves, Hears, Same
  <2>2. CASE Told(q, server)
    BY <1>6, <2>1, <2>2, SameTold
  <2>3. CASE b \notin awaiting /\ Heard(k, q, sent, server) /\ ~Told(p, server')
    <3>1. \A i \in 1 .. Len(p) : Silent(p[i])
      BY <1>6, <2>1, <2>3 DEF Heard
    <3>2. \E kind : Reads(c, kind)
      <4>1. server'.conn = server.conn
        BY <2>1 DEF Same
      <4>2. ~(Connect(c) /\ server'.conn = server.conn \cup {c})
        BY <4>1 DEF Connect, IInv
      <4> QED
        BY <4>2 DEF Serves
    <3>3. /\ awaiting' = awaiting /\ toServer[c] # <<>>
          /\ toServer' = [toServer EXCEPT ![c] = Tail(@)]
      BY <3>2 DEF Reads
    <3>4. k.users = server'.conn /\ k.master \in server'.conn
      BY <2>1, <2>3 DEF Heard, Same
    <3>5. InStep(k, server) => InStep(k, server')
      BY <2>1, SameTold
    <3>6. ASSUME Pending(sent, k) PROVE InStep(k, server) \/ Pending(toServer'[b], k)
      <4>1. toServer = [d \in Client |-> toServer[d]] /\ sent \in Seq(FromClient(b))
        BY <1>2 DEF TInv
      <4>2. CASE b # c
        <5>1. toServer'[b] = sent
          BY <1>2, <3>3, <4>1, <4>2
        <5> QED
          BY <3>6, <5>1
      <4>3. CASE b = c
        <5>1. toServer'[b] = Tail(sent) /\ sent # <<>>
          BY <1>2, <3>3, <4>1, <4>3
        <5>2. ASSUME Head(sent).kind = "users", Matches(Head(sent).list, k)
              PROVE  InStep(k, server)
          <6>1. Reads(c, "users")
            BY <3>2, <4>3, <5>2 DEF Reads
          <6>2. Heeded(server, Head(sent).list)
            BY <1>8, <4>3, <6>1 DEF Serves
          <6>3. k.master # NULL
            BY <1>2, <3>4, ClientsAreNotNull DEF TypedServer, ServerState
          <6>4. k.users = server.conn
            BY <2>3 DEF Heard
          <6> QED
            BY <5>2, <6>2, <6>3, <6>4 DEF Heeded, Matches, InStep
        <5> QED
          BY <3>6, <4>1, <5>1, <5>2, PendingRead
      <4> QED
        BY <4>2, <4>3
    <3>7. Heard(k, p, toServer'[b], server')
      BY <2>3, <3>1, <3>4, <3>5, <3>6 DEF Heard
    <3> QED
      BY <1>1, <2>3, <3>3, <3>7
  <2> QED
    BY <2>1, <2>2, <2>3 DEF CInv
<1> QED
  BY <1>7, <1>8

\* A queue from which a message was taken.
LEMMA ToldDrops ==
  ASSUME NEW p, NEW q, NEW i, Drops(p, q, i), NEW s
  PROVE  /\ Told(q, s) => \/ Told(p, s)
                          \/ /\ Tells(q[i], s)
                             /\ i = 1 => \A j \in 1 .. Len(p) : Silent(p[j])
         /\ (\A j \in 1 .. Len(q) : Silent(q[j])) => \A j \in 1 .. Len(p) : Silent(p[j])
<1>1. /\ Len(q) \in Nat /\ Len(p) = Len(q) - 1 /\ i \in 1 .. Len(q)
      /\ \A j \in 1 .. Len(p) : IF j < i THEN j \in 1 .. Len(q) /\ p[j] = q[j]
                                ELSE j + 1 \in 1 .. Len(q) /\ p[j] = q[j + 1]
  BY DEF Drops
<1>2. ASSUME Told(q, s)
      PROVE  \/ Told(p, s)
             \/ Tells(q[i], s) /\ (i = 1 => \A j \in 1 .. Len(p) : Silent(p[j]))
  <2>1. PICK t \in 1 .. Len(q) :
          Tells(q[t], s) /\ \A j \in 1 .. Len(q) : t < j => Silent(q[j])
    BY <1>2 DEF Told
  <2>2. CASE t = i
    BY <1>1, <2>1, <2>2
  <2>3. CASE t # i
    <3> DEFINE u == IF t < i THEN t ELSE t - 1
    <3>1. u \in 1 .. Len(p) /\ p[u] = q[t]
      BY <1>1, <2>3
    <3>2. ASSUME NEW j \in 1 .. Len(p), u < j PROVE Silent(p[j])
      <4>1. CASE j < i
        BY <1>1, <2>1, <3>2, <4>1
      <4>2. CASE ~(j < i)
        <5>1. t < j + 1
          BY <1>1, <2>3, <3>2, <4>2
        <5> QED
          BY <1>1, <2>1, <4>2, <5>1
      <4> QED
        BY <4>1, <4>2
    <3> QED
      BY <2>1, <3>1, <3>2 DEF Told
  <2> QED
    BY <2>2, <2>3
<1>3. ASSUME \A j \in 1 .. Len(q) : Silent(q[j]), NEW j \in 1 .. Len(p)
      PROVE  Silent(p[j])
  BY <1>1, <1>3
<1> QED
  BY <1>2, <1>3

\* A client that takes a message knows what it tells.
LEMMA LoadsHeard ==
  ASSUME IInv, TInv, CInv, NEW c \in Client, NEW i, NEW k, Loads(c, i, k)
  PROVE  CInv'
<1> SUFFICES ASSUME relay # "stale", object # "stale", server.master # NULL,
                    NEW b \in server.conn
             PROVE  \/ Told(toClient'[b], server)
                    \/ /\ b \notin awaiting'
                       /\ Heard(manager'[b], toClient'[b], toServer[b], server)
  BY DEF CInv, Loads
<1> DEFINE q == toClient[c]  p == toClient'[c]  msg == q[i]  u == manager[c]
           sent == toServer[c]
<1>1. /\ manager' = [manager EXCEPT ![c] = k] /\ awaiting' = awaiting \ {c}
      /\ toClient' = [toClient EXCEPT ![c] = p] /\ Drops(p, q, i)
      /\ \/ msg.kind = "reply" /\ c \in awaiting
         \/ msg.kind = "users" /\ i = 1
         \/ /\ msg.kind = "camera" /\ i = 1 /\ k = LoadCamera(u, msg.from)
            /\ msg.from \in Client \ {c} /\ c \notin awaiting
      /\ msg.kind # "camera" => msg.list \in GoodLists /\ k = LoadState(u, c, msg.list)
  BY DEF Loads
<1>2. /\ TypedServer(server) /\ AtRest(u, c) /\ Stands(c)
      /\ manager = [d \in Client |-> manager[d]]
      /\ toClient = [d \in Client |-> toClient[d]]
  BY DEF TInv
<1>3. b \in Client
  BY <1>2 DEF TypedServer, ServerState
<1>4. \/ Told(toClient[b], server)
      \/ b \notin awaiting /\ Heard(manager[b], toClient[b], toServer[b], server)
  BY DEF CInv
<1>5. CASE b # c
  <2>1. manager'[b] = manager[b] /\ toClient'[b] = toClient[b]
    BY <1>1, <1>2, <1>3, <1>5
  <2> QED
    BY <1>1, <1>4, <2>1
<1>6. CASE b = c
  <2>1. manager'[b] = k /\ toClient'[b] = p /\ b \notin awaiting'
    BY <1>1, <1>2, <1>6
  <2>2. /\ Told(q, server) => \/ Told(p, server)
                              \/ /\ Tells(msg, server)
                                 /\ i = 1 => \A j \in 1 .. Len(p) : Silent(p[j])
        /\ (\A j \in 1 .. Len(q) : Silent(q[j])) => \A j \in 1 .. Len(p) : Silent(p[j])
    BY <1>1, ToldDrops
  <2>3. i \in 1 .. Len(q)
    BY <1>1 DEF Drops
  <2>4. Tells(msg, server) => msg.kind = "users"
    BY DEF Tells
  <2>5. CASE Told(q, server) /\ ~Told(p, server)
    <3> DEFINE list == msg.list
    <3>1. msg.kind = "users" /\ i = 1 /\ Tells(msg, server)
      BY <1>1, <2>2, <2>4, <2>5
    <3>2. list \in GoodLists /\ k = LoadState(u, c, list)
      BY <1>1, <3>1
    <3>3. /\ list.users = server.conn /\ list.master = server.master
          /\ server.conn # {} => list.settings = server.settings
          /\ \A n \in server.conn : list.names[n] = server.names[n]
      BY <1>2, <3>1, <3>2, Telling
    <3>4. \A j \in 1 .. Len(p) : Silent(p[j])
      BY <2>2, <2>5, <3>1
    <3> HIDE DEF list
    <3>5. Says(u, list, k)
      BY <1>2, <3>2, <3>3, Loading DEF GoodLists
    <3>6. server.master \in server.conn
      BY <1>2 DEF TypedServer, ServerState
    <3>7. InStep(k, server)
      BY <3>3, <3>5 DEF Says, InStep
    <3>8. Heard(k, p, sent, server)
      BY <3>4, <3>6, <3>7 DEF InStep, Heard
    <3> QED
      BY <1>6, <2>1, <3>8
  <2>6. CASE c \notin awaiting /\ Heard(u, q, sent, server)
    <3>1. \A j \in 1 .. Len(p) : Silent(p[j])
      BY <2>2, <2>6 DEF Heard
    <3>2. Silent(msg)
      BY <2>3, <2>6 DEF Heard
    <3>3. /\ k.users = u.users /\ k.names = u.names
          /\ k.master = u.master /\ k.settings = u.settings
      <4>1. CASE msg.kind = "users"
        BY <1>1, <1>2, <3>2, <4>1, Loading DEF GoodLists, Silent
      <4>2. CASE msg.kind = "camera"
        BY <1>1, <1>2, <4>2, CameraLoaded
      <4> QED
        BY <1>1, <2>6, <4>1, <4>2
    <3>4. Heard(k, p, sent, server)
      BY <2>6, <3>1, <3>3 DEF Heard, InStep, Pending, Matches
    <3> QED
      BY <1>6, <2>1, <3>4
  <2> QED
    BY <1>4, <1>6, <2>1, <2>5, <2>6
<1> QED
  BY <1>5, <1>6

\* A client that changes its copy says so.
LEMMA ActsHeard ==
  ASSUME IInv, TInv, CInv, NEW c \in Client, NEW k, NEW pushed, Acts(c, k, pushed)
  PROVE  CInv'
<1>1. /\ manager' = [manager EXCEPT ![c] = k]
      /\ toServer' = [toServer EXCEPT ![c] = @ \o pushed]
      /\ UNCHANGED <<server, toClient, relay, object>>
  BY DEF Acts, Does
<1> SUFFICES ASSUME relay # "stale", object # "stale", server.master # NULL,
                    NEW b \in server.conn
             PROVE  \/ Told(toClient[b], server)
                    \/ /\ b \notin awaiting'
                       /\ Heard(manager'[b], toClient[b], toServer'[b], server)
  BY <1>1 DEF CInv
<1> DEFINE q == toClient[c]  u == manager[c]  sent == toServer[c]  now == sent \o pushed
<1>2. /\ TypedServer(server) /\ sent \in Seq(FromClient(c))
      /\ manager = [d \in Client |-> manager[d]]
      /\ toServer = [d \in Client |-> toServer[d]]
  BY DEF TInv
<1>3. b \in Client
  BY <1>2 DEF TypedServer, ServerState
<1>4. \/ Told(toClient[b], server)
      \/ b \notin awaiting /\ Heard(manager[b], toClient[b], toServer[b], server)
  BY DEF CInv
<1>5. CASE b # c
  <2>1. /\ manager'[b] = manager[b] /\ toServer'[b] = toServer[b]
        /\ b \in awaiting' <=> b \in awaiting
    BY <1>1, <1>2, <1>3, <1>5 DEF Acts
  <2> QED
    BY <1>1, <1>4, <2>1
<1>6. CASE b = c /\ c \notin awaiting /\ Heard(u, q, sent, server)
  <2>0. u.users # {} /\ k.users = u.users
    BY <1>6 DEF Heard, Acts
  <2>1. manager'[b] = k /\ toServer'[b] = now /\ b \notin awaiting'
    BY <1>1, <1>2, <1>6, <2>0 DEF Acts
  <2>2. pushed \in Seq(FromClient(c))
    BY Pushed
  <2>4. /\ \A j \in 1 .. Len(sent) : j \in 1 .. Len(now) /\ now[j] = sent[j]
        /\ \A j \in 1 .. Len(pushed) :
             Len(sent) + j \in 1 .. Len(now) /\ now[Len(sent) + j] = pushed[j]
    <3> HIDE DEF sent
    <3> QED
      BY <1>2, <2>2, Longer
  <2>5. /\ \A j \in 1 .. Len(q) : Silent(q[j])
        /\ u.users = server.conn /\ u.master \in server.conn
        /\ InStep(u, server) \/ Pending(sent, u)
    BY <1>6 DEF Heard
  <2>6. k.users = u.users /\ AtRest(k, c)
    BY DEF Acts
  <2>7. CASE k.names = u.names /\ k.master = u.master /\ k.settings = u.settings
    <3>1. InStep(u, server) => InStep(k, server)
      BY <2>6, <2>7 DEF InStep
    <3>2. Pending(sent, u) => Pending(now, k)
      <4> HIDE DEF now
      <4> QED
        BY <2>4, <2>6, <2>7 DEF Pending, Matches
    <3>3. Heard(k, q, now, server)
      <4> HIDE DEF now
      <4> QED
        BY <2>5, <2>6, <2>7, <3>1, <3>2 DEF Heard
    <3> QED
      BY <1>4, <1>6, <2>1, <3>3
  <2>8. CASE /\ Current(k) /\ pushed = <<Users(k.state)>>
             /\ k.master # u.master => k.master \in k.users
    <3>1. k.master \in k.users
      BY <2>5, <2>6, <2>8
    <3>2. Matches(k.state, k)
      BY <2>6, <2>8, <3>1, CurrentMatches DEF AtRest
    <3>3. 1 \in 1 .. Len(pushed) /\ pushed[1] = Users(k.state)
      BY <2>8
    <3>4. Users(k.state).kind = "users" /\ Users(k.state).list = k.state
      BY DEF Users
    <3>5. Pending(now, k)
      <4> HIDE DEF now
      <4> QED
        BY <2>4, <3>2, <3>3, <3>4 DEF Pending
    <3>6. Heard(k, q, now, server)
      <4> HIDE DEF now
      <4> QED
        BY <2>5, <2>6, <3>1, <3>5 DEF Heard
    <3> QED
      BY <1>4, <1>6, <2>1, <3>6
  <2> QED
    BY <2>7, <2>8 DEF Acts
<1> QED
  BY <1>4, <1>5, <1>6

\* Clients that have joined agree with the server.
LEMMA InitHeard == Init => CInv
<1> SUFFICES ASSUME Init, NEW b \in server.conn
             PROVE  b \notin awaiting /\ Heard(manager[b], toClient[b], toServer[b], server)
  BY DEF CInv
<1>1. toClient = [c \in Client |-> <<>>] /\ awaiting = {}
  BY DEF Init
<1>2. PICK n \in 0 .. NClients, ref \in Nat :
        /\ server = Settled(n, ref) /\ manager = [c \in Client |-> Joined(c, n)]
  BY Beginning
<1>3. /\ server.conn = 1 .. n /\ 1 .. n \subseteq Client
      /\ server.master = IF n = 0 THEN NULL ELSE 1
      /\ server.settings = FALSE /\ \A u \in Client : server.names[u] = "User"
  BY <1>2, SettledSays
<1>4. b \in Client /\ b \in 1 .. n /\ b <= n /\ n # 0 /\ 1 \in 1 .. n
  BY <1>3
<1> DEFINE k == manager[b]
<1>5. Knows(k, b, n)
  BY <1>2, <1>4, JoinedKnows
<1> HIDE DEF k
<1>6. /\ k.users = 1 .. n /\ k.master = 1 /\ k.settings = FALSE
      /\ \A u \in 1 .. n : k.names[u] = "User"
  BY <1>4, <1>5 DEF Knows
<1>7. InStep(k, server) /\ k.users = server.conn /\ k.master \in server.conn
  BY <1>3, <1>4, <1>6 DEF InStep
<1>8. toClient[b] = <<>> /\ b \notin awaiting
  BY <1>1, <1>4
<1>9. Heard(k, toClient[b], toServer[b], server)
  <2>1. \A j \in 1 .. Len(<<>>) : FALSE
    OBVIOUS
  <2> QED
    BY <1>7, <1>8, <2>1 DEF Heard
<1> QED
  BY <1>8, <1>9 DEF k

\* No step loses the news of the server's state.
THEOREM NewsArrives == Spec => []CInv
<1>1. IInv /\ TInv /\ CInv /\ [Next]_vars => CInv'
  <2> SUFFICES ASSUME IInv, TInv, CInv, [Next]_vars PROVE CInv'
    OBVIOUS
  <2>1. CASE UNCHANGED vars
    BY <2>1 DEF vars, CInv, Heard, Pending, Told
  <2>2. CASE \E c \in Client : \/ \E k, pushed : Acts(c, k, pushed)
                               \/ \E said, more : Serves(c, said, more)
                               \/ \E i, k : Loads(c, i, k)
    BY <2>2, ActsHeard, ServedHeard, LoadsHeard
  <2> QED
    BY <2>1, <2>2, Steps
<1> QED
  BY <1>1, InitHeard, Inductive, PTL DEF Spec

\* Nobody's copy is left different from the server's state when all has
\* arrived, for every number of clients, of things users do, and whatever
\* crossed what, unless a stale list was relayed or the server's object was lost
\* since the server last spoke.
THEOREM CopiesAgree == Spec => []CopiesAgreeUnlessStaleRelay
<1>1. IInv /\ TInv /\ CInv => CopiesAgreeUnlessStaleRelay
  <2> SUFFICES ASSUME IInv, TInv, CInv, Quiet, relay # "stale", object # "stale",
                      NEW b \in server.conn
               PROVE  Agrees(b)
    BY DEF CopiesAgreeUnlessStaleRelay
  <2>1. b \in Client
    BY DEF TInv, TypedServer, ServerState
  <2>2. awaiting = {} /\ toServer[b] = <<>> /\ toClient[b] = <<>>
    BY <2>1 DEF Quiet
  <2>3. server.master # NULL
    <3>1. object \in {"fresh", "healed"}
      BY DEF TInv
    <3> QED
      BY <2>2, <3>1 DEF IInv
  <2>4. \A j \in 1 .. Len(<<>>) : FALSE
    OBVIOUS
  <2>5. ~Told(toClient[b], server) /\ ~Pending(toServer[b], manager[b])
    BY <2>2, <2>4 DEF Told, Pending
  <2>6. InStep(manager[b], server)
    BY <2>3, <2>5 DEF CInv, Heard
  <2> QED
    BY <2>6 DEF InStep, Agrees
<1> QED
  BY <1>1, Inductive, NewsArrives, PTL

-----------------------------------------------------------------------------
(* The camera that is shown                                                *)

\* A list that names master m, and a message that leaves m master.
Names(msg, m) == ~Silent(msg) /\ msg.list.master = m
Keeps(msg, m) == Silent(msg) \/ msg.list.master = m

\* Client b, whose copy is k, has master m once it has taken the first i
\* messages of q; nobody but b itself can prevent that if b is m.
MasterAt(q, i, b, k, waits, m) ==
  \/ m = b
  \/ \E j \in 1 .. i : Names(q[j], m) /\ \A l \in 1 .. i : j < l => Keeps(q[l], m)
  \/ ~waits /\ k.master = m /\ \A l \in 1 .. i : Keeps(q[l], m)

\* A list that says whom to follow finds the master it names.
Expected(q, b, k, waits) ==
  \A i \in 1 .. Len(q) :
    q[i].kind = "users" /\ q[i].list.follow # NULL =>
      q[i].list.master # NULL /\ MasterAt(q, i - 1, b, k, waits, q[i].list.master)

\* As long as no stale list has been relayed and the server has kept its object,
\* masters are named by the server first, so that each client shows the camera
\* of the user it follows.
SInv ==
  relay = "fresh" /\ object = "fresh" =>
    \A b \in Client :
      /\ Shows(manager[b])
      /\ Expected(toClient[b], b, manager[b], b \in awaiting)
      /\ b \in server.conn /\ server.master # NULL =>
           MasterAt(toClient[b], Len(toClient[b]), b, manager[b], b \in awaiting,
                    server.master)

\* Who is master at a place depends on what comes before it only.
LEMMA MasterBefore ==
  ASSUME NEW p, NEW q, NEW i, \A l \in 1 .. i : p[l] = q[l],
         NEW b, NEW k, NEW u, NEW waits \in BOOLEAN, NEW waits1 \in BOOLEAN, NEW m,
         waits1 => waits, m # b /\ ~waits /\ k.master = m => u.master = m,
         MasterAt(q, i, b, k, waits, m)
  PROVE  MasterAt(p, i, b, u, waits1, m)
BY DEF MasterAt

\* Messages that leave a master.
LEMMA MasterOn ==
  ASSUME NEW p, NEW i \in Nat, NEW n \in Nat, i <= n, NEW b, NEW k, NEW waits, NEW m,
         MasterAt(p, i, b, k, waits, m), \A l \in 1 .. n : i < l => Keeps(p[l], m)
  PROVE  MasterAt(p, n, b, k, waits, m)
<1>1. \A l \in 1 .. n : l \in 1 .. i \/ i < l
  OBVIOUS
<1>2. 1 .. i \subseteq 1 .. n
  OBVIOUS
<1>3. CASE m = b
  BY <1>3 DEF MasterAt
<1>4. CASE \E j \in 1 .. i : Names(p[j], m) /\ \A l \in 1 .. i : j < l => Keeps(p[l], m)
  <2>1. PICK j \in 1 .. i : Names(p[j], m) /\ \A l \in 1 .. i : j < l => Keeps(p[l], m)
    BY <1>4
  <2>2. \A l \in 1 .. n : j < l => Keeps(p[l], m)
    BY <1>1, <2>1
  <2> QED
    BY <1>2, <2>1, <2>2 DEF MasterAt
<1>5. CASE ~waits /\ k.master = m /\ \A l \in 1 .. i : Keeps(p[l], m)
  <2>1. \A l \in 1 .. n : Keeps(p[l], m)
    BY <1>1, <1>5
  <2> QED
    BY <1>5, <2>1 DEF MasterAt
<1> QED
  BY <1>3, <1>4, <1>5 DEF MasterAt

\* In silence the server's master does not change, if it has one.
LEMMA MasterInSilence ==
  ASSUME NEW c, NEW said, NEW more, Serves(c, said, more), said = <<>>,
         server'.master # NULL, object' = "fresh"
  PROVE  server.conn = server'.conn /\ server.master = server'.master
BY DEF Serves, Same

\* What a client is told in a step of the server that relays nothing stale.
LEMMA ServedExpected ==
  ASSUME IInv, IInv', TInv, SInv, relay' = "fresh", object' = "fresh",
         NEW c \in Client, NEW said, NEW more, Serves(c, said, more),
         NEW b \in Client, b \in server'.conn
  PROVE  /\ Expected(toClient'[b], b, manager'[b], b \in awaiting')
         /\ server'.master # NULL =>
              MasterAt(toClient'[b], Len(toClient'[b]), b, manager'[b], b \in awaiting',
                       server'.master)
<1> DEFINE q == toClient[b]  p == toClient'[b]  k == manager[b]
           waits == b \in awaiting  waits1 == b \in awaiting'
           m == server'.master  new == more[b]  n == Len(q) + Len(said)
<1>1. Hears(said, more) /\ manager' = manager /\ relay = "fresh" /\ object = "fresh"
  BY DEF Serves, Hears
<1>2. TypedServer(server') /\ Stands(b)
  BY <1>1 DEF Hears, TInv
<1>3. /\ Appends(p, q, said, new)
      /\ \A i \in 1 .. Len(said) : said[i] = Users(BuildServerState(server'))
  <2>1. new \in Seq(ForClient(b))
    BY MoreTyped
  <2> QED
    BY <1>1, <2>1, HeardQueue
<1>4. /\ Len(p) = Len(q) + Len(said) + Len(new)
      /\ Len(q) \in Nat /\ Len(said) \in Nat /\ Len(new) \in Nat
      /\ \A i \in 1 .. Len(q) : p[i] = q[i]
      /\ \A i \in 1 .. Len(said) : p[Len(q) + i] = said[i]
      /\ \A i \in 1 .. Len(new) : p[Len(q) + Len(said) + i] = new[i]
      /\ \A i \in 1 .. Len(p) : \/ i \in 1 .. Len(q)
                                \/ i - Len(q) \in 1 .. Len(said)
                                \/ i - Len(q) - Len(said) \in 1 .. Len(new)
  BY <1>3 DEF Appends
<1>5. /\ Expected(q, b, k, waits)
      /\ b \in server.conn /\ server.master # NULL =>
           MasterAt(q, Len(q), b, k, waits, server.master)
  BY <1>1 DEF SInv
<1>6. q = <<>> \/ (waits1 => waits)
  <2>1. CASE Connect(c)
    <3>1. awaiting' = awaiting \cup {c} /\ c \in unborn
      BY <2>1 DEF Connect
    <3>2. b = c => q = <<>>
      BY <1>2, <3>1 DEF Stands, IInv
    <3> QED
      BY <3>1, <3>2
  <2>2. CASE \E kind : Reads(c, kind)
    BY <2>2 DEF Reads
  <2> QED
    BY <2>1, <2>2 DEF Serves
<1>7. ASSUME NEW i \in 1 .. Len(said)
      PROVE  /\ p[Len(q) + i].list.follow = NULL
             /\ Names(p[Len(q) + i], m)
  <2> DEFINE note == BuildServerState(server')
  <2>1. note.users = server'.conn /\ note.master = m /\ note.follow = NULL
    BY <1>2, ServerSays
  <2>2. p[Len(q) + i] = Users(note)
    BY <1>3, <1>4
  <2> HIDE DEF note, m
  <2> QED
    BY <2>1, <2>2 DEF Names, Silent, Users
<1>8. ASSUME m # NULL PROVE MasterAt(p, n, b, k, waits1, m)
  <2>1. CASE Len(said) # 0
    <3>1. n \in 1 .. n /\ Len(said) \in 1 .. Len(said) /\ \A l \in 1 .. n : ~(n < l)
      BY <1>4, <2>1
    <3>2. Names(p[n], m)
      BY <1>7, <3>1
    <3> QED
      BY <3>1, <3>2 DEF MasterAt
  <2>2. CASE Len(said) = 0
    <3>1. said = <<>>
      BY <1>1, <2>2 DEF Hears
    <3>2. server.conn = server'.conn /\ server.master = m
      BY <1>8, <3>1, MasterInSilence
    <3>3. MasterAt(q, Len(q), b, k, waits, m) /\ n = Len(q)
      BY <1>4, <1>5, <1>8, <2>2, <3>2
    <3>4. waits1 => waits
      <4>1. ~Connect(c) \/ server'.conn # server.conn \cup {c}
        BY <3>2 DEF IInv, Connect
      <4> QED
        BY <4>1 DEF Serves, Reads
    <3> HIDE DEF m, waits, waits1
    <3>5. waits \in BOOLEAN /\ waits1 \in BOOLEAN
      BY DEF waits, waits1
    <3> HIDE DEF p, q, k, n
    <3>6. \A l \in 1 .. n : p[l] = q[l]
      BY <1>4, <3>3
    <3> QED
      BY <3>3, <3>4, <3>5, <3>6, MasterBefore
  <2> QED
    BY <2>1, <2>2
<1>9. ASSUME NEW i \in 1 .. Len(new)
      PROVE  /\ i = 1 /\ Len(new) = 1
             /\ Keeps(new[i], m)
             /\ new[i].kind = "users" /\ new[i].list.follow # NULL =>
                  new[i].list.master = m /\ m # NULL
  <2>1. i = 1 /\ Len(new) = 1
    BY MoreTyped
  <2>2. Tells(new[i], server') \/ Silent(new[i])
    BY <2>1, MoreHeard
  <2>3. new[i].kind = "users" => new[i].list \in GoodLists
    <3>1. new[i] \in ForClient(b)
      BY MoreTyped
    <3> QED
      BY <3>1 DEF ForClient, Users, Reply, Camera
  <2>4. new[i].kind = "users" /\ Tells(new[i], server') => new[i].list.master = m
    BY <1>2, <2>3, Telling
  <2>5. Keeps(new[i], m)
    BY <2>2, <2>4 DEF Keeps, Silent
  <2>6. ASSUME new[i].kind = "users", new[i].list.follow # NULL
        PROVE  new[i].list.master = m /\ m # NULL
    <3>1. ~Silent(new[i])
      BY <2>3, <2>6 DEF Silent, GoodLists, GoodList
    <3>2. new[i].list.master = m
      BY <2>2, <2>4, <2>6, <3>1
    <3>3. /\ toServer[c] # <<>> /\ new = <<Head(toServer[c])>>
          /\ server'.conn = server.conn /\ b # c
      <4> DEFINE r1 == Reply(BuildServerState(server'))
                 r2 == Reply(NoUsers)
      <4>1. r1.kind = "reply" /\ r2.kind = "reply"
        BY DEF Reply
      <4>2. Len(new) = 1 /\ new[1].kind = "users"
        BY <2>1, <2>6
      <4>3. \/ new = <<>> \/ new = <<r1>> \/ new = <<r2>>
            \/ /\ toServer[c] # <<>> /\ new = <<Head(toServer[c])>>
               /\ server'.conn = server.conn /\ b # c
        BY DEF Serves
      <4> HIDE DEF r1, r2, new
      <4>4. /\ new = <<>> => Len(new) = 0
            /\ new = <<r1>> => new[1] = r1
            /\ new = <<r2>> => new[1] = r2
        OBVIOUS
      <4> QED
        BY <4>1, <4>2, <4>3, <4>4
    <3>4. new[i] = Head(toServer[c])
      BY <2>1, <3>3
    <3>5. c \notin awaiting
      <4>1. c \in awaiting => new[i].list = NoUsers
        BY <1>1, <2>6, <3>3, <3>4, MessageRead
      <4>2. NoUsers.follow = NULL
        BY NobodyListed
      <4> QED
        BY <2>6, <4>1, <4>2
    <3>6. c \in server'.conn /\ c \notin awaiting'
      <4>1. c \in server.conn
        BY <3>3 DEF IInv, Sent
      <4>2. ~Connect(c)
        BY <4>1 DEF Connect, IInv
      <4> QED
        BY <3>3, <3>5, <4>1, <4>2 DEF Serves, Reads
    <3> QED
      BY <3>2, <3>6 DEF IInv
  <2> QED
    BY <2>1, <2>5, <2>6
<1>12. ASSUME NEW i \in 1 .. Len(p), n < i
       PROVE  i - 1 = n /\ 1 \in 1 .. Len(new) /\ p[i] = new[1]
  <2>1. Len(new) = 0 \/ Len(new) = 1
    <3>1. Len(new) # 0 => 1 \in 1 .. Len(new)
      BY <1>4
    <3> QED
      BY <1>9, <3>1
  <2>2. n \in Nat /\ Len(p) = n + Len(new)
    BY <1>4
  <2> HIDE DEF n
  <2>3. i \in Nat /\ i <= n + Len(new)
    <3>1. Len(p) \in Nat
      BY <2>1, <2>2
    <3> HIDE DEF p
    <3> QED
      BY <2>2, <3>1
  <2>4. Len(new) = 1 /\ i = n + 1
    <3>1. \A x, y \in Nat : y < x => ~(x <= y + 0) /\ (x <= y + 1 => x = y + 1)
      OBVIOUS
    <3>2. n < i /\ i \in Nat /\ n \in Nat
      BY <1>12, <2>2, <2>3
    <3> HIDE DEF new
    <3> QED
      BY <2>1, <2>3, <3>1, <3>2, Zenon
  <2>5. 1 \in 1 .. Len(new) /\ p[n + 1] = new[1]
    BY <1>4, <2>4 DEF n
  <2> QED
    BY <2>2, <2>4, <2>5
<1>10. Expected(p, b, k, waits1)
  <2> SUFFICES ASSUME NEW i \in 1 .. Len(p), p[i].kind = "users", p[i].list.follow # NULL
               PROVE  /\ p[i].list.master # NULL
                      /\ MasterAt(p, i - 1, b, k, waits1, p[i].list.master)
    BY DEF Expected
  <2>1. CASE i \in 1 .. Len(q)
    <3> DEFINE d == q[i].list.master
    <3>1. p[i] = q[i] /\ d # NULL /\ MasterAt(q, i - 1, b, k, waits, d)
      BY <1>4, <1>5, <2>1 DEF Expected
    <3>2. waits1 => waits
      BY <1>6, <2>1
    <3>3. \A l \in 1 .. i - 1 : p[l] = q[l]
      BY <1>4, <2>1
    <3> HIDE DEF d, waits, waits1, p, q, k
    <3>4. waits \in BOOLEAN /\ waits1 \in BOOLEAN
      BY DEF waits, waits1
    <3>5. MasterAt(p, i - 1, b, k, waits1, d)
      BY <3>1, <3>2, <3>3, <3>4, MasterBefore
    <3> QED
      BY <3>1, <3>5 DEF d
  <2>2. CASE i - Len(q) \in 1 .. Len(said)
    <3> DEFINE j == i - Len(q)
    <3>1. Len(q) + j = i
      BY <1>4
    <3> QED
      BY <1>7, <2>2, <3>1
  <2>3. CASE n < i
    <3>1. p[i].list.master = m /\ m # NULL
      BY <1>9, <1>12, <2>3
    <3> QED
      BY <1>8, <1>12, <2>3, <3>1
  <2>4. \/ i \in 1 .. Len(q) \/ i - Len(q) \in 1 .. Len(said) \/ n < i
    <3>1. /\ Len(q) \in Nat /\ Len(said) \in Nat /\ Len(new) \in Nat
          /\ Len(p) = Len(q) + Len(said) + Len(new)
      BY <1>4
    <3>2. i - Len(q) - Len(said) \in 1 .. Len(new) => n < i
      BY <3>1
    <3>3. \/ i \in 1 .. Len(q)
          \/ i - Len(q) \in 1 .. Len(said)
          \/ i - Len(q) - Len(said) \in 1 .. Len(new)
      BY <1>4, Zenon
    <3> HIDE DEF n, p, q, new
    <3> QED
      BY <3>2, <3>3
  <2> QED
    BY <2>1, <2>2, <2>3, <2>4
<1>11. ASSUME m # NULL PROVE MasterAt(p, Len(p), b, k, waits1, m)
  <2>1. n \in Nat /\ Len(p) \in Nat /\ n <= Len(p)
    <3>1. n \in Nat /\ Len(new) \in Nat /\ Len(p) = n + Len(new)
      BY <1>4
    <3> HIDE DEF n, p, new
    <3> QED
      BY <3>1
  <2>2. ASSUME NEW l \in 1 .. Len(p), n < l PROVE Keeps(p[l], m)
    BY <1>9, <1>12, <2>2
  <2> HIDE DEF n, m, waits1, p, k
  <2> QED
    BY <1>8, <1>11, <2>1, <2>2, MasterOn
<1> QED
  BY <1>1, <1>10, <1>11

\* Steps of the server and of users keep what is expected.
LEMMA ServedShows ==
  ASSUME IInv, IInv', TInv, SInv,
         NEW c \in Client, NEW said, NEW more, Serves(c, said, more)
  PROVE  SInv'
<1> SUFFICES ASSUME relay' = "fresh", object' = "fresh", NEW b \in Client
             PROVE  /\ Shows(manager'[b])
                    /\ Expected(toClient'[b], b, manager'[b], b \in awaiting')
                    /\ b \in server'.conn /\ server'.master # NULL =>
                         MasterAt(toClient'[b], Len(toClient'[b]), b, manager'[b],
                                  b \in awaiting', server'.master)
  BY DEF SInv
<1>1. Shows(manager'[b])
  BY DEF SInv, Serves, Hears
<1>2. CASE b \in server'.conn
  BY <1>1, <1>2, ServedExpected
<1>3. CASE b \notin server'.conn
  <2>1. toClient'[b] = <<>>
    BY <1>3 DEF Serves, Hears
  <2>2. \A i \in 1 .. Len(<<>>) : FALSE
    OBVIOUS
  <2> QED
    BY <1>1, <1>3, <2>1, <2>2 DEF Expected
<1> QED
  BY <1>2, <1>3

LEMMA ActsShows ==
  ASSUME TInv, SInv, NEW c \in Client, NEW k, NEW pushed, Acts(c, k, pushed)
  PROVE  SInv'
<1>1. /\ manager' = [manager EXCEPT ![c] = k] /\ c \in server.conn \ awaiting
      /\ UNCHANGED <<server, toClient, relay, object>>
  BY DEF Acts, Does, Active
<1>2. /\ Ready(manager[c]) /\ Shows(manager[c]) => Shows(k)
      /\ k.master # manager[c].master => manager[c].master = c
  BY DEF Acts
<1> SUFFICES ASSUME relay = "fresh", object = "fresh", NEW b \in Client
             PROVE  /\ Shows(manager'[b])
                    /\ Expected(toClient[b], b, manager'[b], b \in awaiting')
                    /\ b \in server.conn /\ server.master # NULL =>
                         MasterAt(toClient[b], Len(toClient[b]), b, manager'[b],
                                  b \in awaiting', server.master)
  BY <1>1 DEF SInv
<1>10. Joins(c)
  BY DEF TInv
<1>11. Ready(manager[c])
  BY <1>10 DEF Joins
<1>12. awaiting' = awaiting
  <2>1. manager[c].users # {}
    BY <1>1, <1>10 DEF Joins
  <2> QED
    BY <2>1, Pushed
<1> DEFINE q == toClient[b]  u == manager[b]  u1 == manager'[b]  waits == b \in awaiting
<1>3. /\ Shows(u) /\ Expected(q, b, u, waits)
      /\ b \in server.conn /\ server.master # NULL =>
           MasterAt(q, Len(q), b, u, waits, server.master)
  BY DEF SInv
<1>4. u1 = IF b = c THEN k ELSE u
  BY <1>1 DEF TInv
<1>5. Shows(u1)
  BY <1>2, <1>3, <1>4, <1>11
<1>6. waits \in BOOLEAN
  OBVIOUS
<1>7. u1.master # u.master => u.master = b
  BY <1>2, <1>4
<1> HIDE DEF q, u, u1, waits
<1>8. ASSUME NEW i, NEW m, MasterAt(q, i, b, u, waits, m)
      PROVE  MasterAt(q, i, b, u1, waits, m)
  <2>1. m # b /\ ~waits /\ u.master = m => u1.master = m
    BY <1>7
  <2> QED
    BY <1>6, <1>8, <2>1, MasterBefore
<1>9. Expected(q, b, u1, waits)
  BY <1>3, <1>8 DEF Expected
<1> QED
  BY <1>3, <1>5, <1>8, <1>9, <1>12 DEF q, u, u1, waits

\* A master who was named before a message was taken.
LEMMA MasterDrops ==
  ASSUME TInv, NEW c \in Client, NEW i, NEW k, Loads(c, i, k),
         NEW n \in 0 .. Len(toClient[c]), i = 1 => n # 0, NEW m, m # NULL,
         MasterAt(toClient[c], n, c, manager[c], c \in awaiting, m)
  PROVE  MasterAt(toClient'[c], IF n < i THEN n ELSE n - 1, c, k, FALSE, m)
<1> DEFINE q == toClient[c]  p == toClient'[c]  msg == q[i]  u == manager[c]
           r == IF n < i THEN n ELSE n - 1
<1>1. /\ Drops(p, q, i)
      /\ \/ msg.kind = "reply" /\ c \in awaiting
         \/ msg.kind = "users" /\ i = 1 /\ c \notin awaiting
         \/ /\ msg.kind = "camera" /\ i = 1 /\ k = LoadCamera(u, msg.from)
            /\ msg.from \in Client \ {c} /\ c \notin awaiting
      /\ msg.kind # "camera" => msg.list \in GoodLists /\ k = LoadState(u, c, msg.list)
      /\ c \in server.conn
  BY DEF Loads
<1>2. AtRest(u, c) /\ Stands(c)
  BY DEF TInv
<1>3. /\ Len(q) \in Nat /\ Len(p) = Len(q) - 1 /\ i \in 1 .. Len(q)
      /\ \A j \in 1 .. Len(p) : IF j < i THEN j \in 1 .. Len(q) /\ p[j] = q[j]
                                ELSE j + 1 \in 1 .. Len(q) /\ p[j] = q[j + 1]
  BY <1>1 DEF Drops
<1>4. r \in 0 .. Len(p) /\ n \in Nat /\ r <= n
  BY <1>3
<1>5. ASSUME NEW j \in 1 .. r
      PROVE  \/ j < i /\ j \in 1 .. n /\ p[j] = q[j]
             \/ ~(j < i) /\ j + 1 \in 1 .. n /\ p[j] = q[j + 1]
  <2>1. j \in 1 .. Len(p)
    BY <1>3, <1>4
  <2>2. CASE j < i
    <3>1. j \in 1 .. n
      BY <1>4
    <3> QED
      BY <1>3, <2>1, <2>2, <3>1
  <2>3. CASE ~(j < i)
    <3>1. j + 1 \in 1 .. n
      BY <1>3, <1>4, <2>3
    <3> QED
      BY <1>3, <2>1, <2>3, <3>1
  <2> QED
    BY <2>2, <2>3
<1>6. (\A l \in 1 .. n : Keeps(q[l], m)) => \A l \in 1 .. r : Keeps(p[l], m)
  BY <1>5
<1>7. msg.kind = "reply" => Silent(msg)
  BY DEF Silent
<1>8. CASE m = c
  BY <1>8 DEF MasterAt
<1>9. ASSUME NEW j \in 1 .. n, Names(q[j], m), \A l \in 1 .. n : j < l => Keeps(q[l], m)
      PROVE  MasterAt(p, r, c, k, FALSE, m)
  <2>1. CASE j # i
    <3> DEFINE t == IF j < i THEN j ELSE j - 1
    <3>1. t \in 1 .. r /\ p[t] = q[j]
      <4>1. t \in 1 .. r
        BY <1>3, <2>1
      <4>2. CASE j < i
        BY <1>5, <4>1, <4>2
      <4>3. CASE ~(j < i)
        <5>1. ~(t < i) /\ t + 1 = j
          BY <1>3, <2>1, <4>3
        <5> QED
          BY <1>5, <4>1, <5>1
      <4> QED
        BY <4>2, <4>3
    <3>2. ASSUME NEW l \in 1 .. r, t < l PROVE Keeps(p[l], m)
      <4>1. CASE l < i
        <5>1. l \in 1 .. n /\ p[l] = q[l]
          BY <1>5, <4>1
        <5>2. j < l
          BY <1>3, <3>2, <4>1
        <5> QED
          BY <1>9, <5>1, <5>2
      <4>2. CASE ~(l < i)
        <5>1. l + 1 \in 1 .. n /\ p[l] = q[l + 1]
          BY <1>5, <4>2
        <5>2. j < l + 1
          BY <3>2
        <5> QED
          BY <1>9, <5>1, <5>2
      <4> QED
        BY <4>1, <4>2
    <3> HIDE DEF t
    <3> QED
      BY <1>9, <3>1, <3>2 DEF MasterAt
  <2>2. CASE j = i
    <3> DEFINE list == msg.list
    <3>1. msg.kind = "users" /\ list.users # {} /\ list.master = m /\ i = 1
      BY <1>1, <1>9, <2>2 DEF Names, Silent
    <3>2. list \in GoodLists /\ k = LoadState(u, c, list)
      BY <1>1, <3>1
    <3> HIDE DEF list
    <3>3. k.master = m
      BY <1>2, <3>1, <3>2, Loading DEF GoodLists, Says
    <3>4. ASSUME NEW l \in 1 .. r PROVE Keeps(p[l], m)
      <4>1. l + 1 \in 1 .. n /\ p[l] = q[l + 1] /\ j < l + 1
        BY <1>5, <2>2, <3>1
      <4> QED
        BY <1>9, <4>1
    <3> QED
      BY <3>3, <3>4 DEF MasterAt
  <2> QED
    BY <2>1, <2>2
<1>10. CASE c \notin awaiting /\ u.master = m /\ \A l \in 1 .. n : Keeps(q[l], m)
  <2>1. Keeps(msg, m)
    <3>1. i \in 1 .. n
      BY <1>1, <1>10
    <3> QED
      BY <1>10, <3>1
  <2>2. k.master = m
    <3>1. CASE msg.kind = "users"
      <4> DEFINE list == msg.list
      <4>1. list \in GoodLists /\ k = LoadState(u, c, list)
        BY <1>1, <3>1
      <4>2. list.users = {} \/ list.master = m
        BY <2>1, <3>1 DEF Keeps, Silent
      <4> HIDE DEF list
      <4> QED
        BY <1>2, <1>10, <4>1, <4>2, Loading DEF GoodLists, Says
    <3>2. CASE msg.kind = "camera"
      BY <1>1, <1>2, <1>10, <3>2, CameraLoaded
    <3> QED
      BY <1>1, <1>10, <3>1, <3>2
  <2> QED
    BY <1>6, <1>10, <2>2 DEF MasterAt
<1> QED
  BY <1>8, <1>9, <1>10 DEF MasterAt

\* Taking a message shows the camera of the user it says to follow.
LEMMA LoadShown ==
  ASSUME TInv, SInv, relay = "fresh", object = "fresh",
         NEW c \in Client, NEW i, NEW k, Loads(c, i, k)
  PROVE  Shows(k)
<1> DEFINE q == toClient[c]  msg == q[i]  u == manager[c]  list == msg.list
<1>1. /\ msg.kind # "camera" => list \in GoodLists /\ k = LoadState(u, c, list)
      /\ \/ msg.kind = "reply" /\ list.follow = NULL
         \/ msg.kind = "users" /\ i = 1 /\ c \notin awaiting
         \/ /\ msg.kind = "camera" /\ i = 1 /\ k = LoadCamera(u, msg.from)
            /\ msg.from \in Client \ {c} /\ c \notin awaiting
      /\ i \in 1 .. Len(q) /\ c \in server.conn
  BY DEF Loads, Drops
<1>2. AtRest(u, c) /\ Ready(u)
  BY DEF TInv, Joins
<1>3. Shows(u) /\ Expected(q, c, u, c \in awaiting)
  BY DEF SInv
<1>4. CASE msg.kind = "camera"
  BY <1>1, <1>2, <1>3, <1>4, CameraLoaded
<1>5. CASE msg.kind # "camera"
  <2>1. \/ list.follow = NULL \/ list.master = u.master \/ list.master \notin u.cached
    <3>1. CASE msg.kind = "users" /\ list.follow # NULL
      <4>1. MasterAt(q, 0, c, u, c \in awaiting, list.master)
        BY <1>1, <1>3, <3>1 DEF Expected
      <4>2. list.master = c \/ u.master = list.master
        BY <4>1 DEF MasterAt
      <4> QED
        BY <1>2, <4>2 DEF AtRest
    <3> QED
      BY <1>1, <1>5, <3>1
  <2> HIDE DEF list
  <2>2. /\ list.users = {} => k = u
        /\ list.users # {} => Says(u, list, k)
    BY <1>1, <1>2, <1>5, Loading DEF GoodLists
  <2> QED
    BY <1>2, <1>3, <2>1, <2>2 DEF Says
<1> QED
  BY <1>4, <1>5

\* And later messages find the master they name.
LEMMA LoadsShows ==
  ASSUME TInv, SInv, NEW c \in Client, NEW i, NEW k, Loads(c, i, k)
  PROVE  SInv'
<1>1. /\ manager' = [manager EXCEPT ![c] = k] /\ awaiting' = awaiting \ {c}
      /\ toClient' = [toClient EXCEPT ![c] = toClient'[c]]
      /\ Drops(toClient'[c], toClient[c], i) /\ UNCHANGED <<server, relay, object>>
      /\ (toClient[c][i].kind = "reply" /\ c \in awaiting) \/ i = 1
  BY DEF Loads
<1> SUFFICES ASSUME relay = "fresh", object = "fresh", NEW b \in Client
             PROVE  /\ Shows(manager'[b])
                    /\ Expected(toClient'[b], b, manager'[b], b \in awaiting')
                    /\ b \in server.conn /\ server.master # NULL =>
                         MasterAt(toClient'[b], Len(toClient'[b]), b, manager'[b],
                                  b \in awaiting', server.master)
  BY <1>1 DEF SInv
<1> DEFINE q == toClient[b]  u == manager[b]  waits == b \in awaiting
<1>2. /\ Shows(u) /\ Expected(q, b, u, waits)
      /\ b \in server.conn /\ server.master # NULL =>
           MasterAt(q, Len(q), b, u, waits, server.master)
  BY DEF SInv
<1>3. CASE b # c
  <2>1. manager'[b] = u /\ toClient'[b] = q /\ (b \in awaiting' <=> waits)
    BY <1>1, <1>3 DEF TInv
  <2> QED
    BY <1>2, <2>1
<1>4. CASE b = c
  <2> DEFINE p == toClient'[c]
  <2>1. manager'[b] = k /\ toClient'[b] = p /\ b \notin awaiting'
    BY <1>1, <1>4 DEF TInv
  <2>2. Shows(k)
    BY LoadShown
  <2>3. /\ Len(q) \in Nat /\ Len(p) = Len(q) - 1 /\ i \in 1 .. Len(q)
        /\ \A j \in 1 .. Len(p) : IF j < i THEN j \in 1 .. Len(q) /\ p[j] = q[j]
                                  ELSE j + 1 \in 1 .. Len(q) /\ p[j] = q[j + 1]
    BY <1>1, <1>4 DEF Drops
  <2>4. ASSUME NEW n \in 0 .. Len(q), i = 1 => n # 0, NEW m, m # NULL,
               MasterAt(q, n, b, u, waits, m)
        PROVE  MasterAt(p, IF n < i THEN n ELSE n - 1, b, k, FALSE, m)
    BY <1>4, <2>4, MasterDrops
  <2>5. Expected(p, b, k, FALSE)
    <3> SUFFICES ASSUME NEW j \in 1 .. Len(p), p[j].kind = "users",
                        p[j].list.follow # NULL
                 PROVE  /\ p[j].list.master # NULL
                        /\ MasterAt(p, j - 1, b, k, FALSE, p[j].list.master)
      BY DEF Expected
    <3> DEFINE m == p[j].list.master
    <3>1. CASE j < i
      <4>1. p[j] = q[j] /\ j \in 1 .. Len(q)
        BY <2>3, <3>1
      <4>2. m # NULL /\ MasterAt(q, j - 1, b, u, waits, m)
        BY <1>2, <4>1 DEF Expected
      <4>3. j - 1 \in 0 .. Len(q) /\ j - 1 < i /\ i # 1
        BY <2>3, <3>1, <4>1
      <4> HIDE DEF m, p, q, u, waits
      <4> QED
        BY <2>4, <4>2, <4>3 DEF m
    <3>2. CASE ~(j < i)
      <4>1. p[j] = q[j + 1] /\ j + 1 \in 1 .. Len(q)
        BY <2>3, <3>2
      <4>2. m # NULL /\ MasterAt(q, j, b, u, waits, m)
        <5>1. (j + 1) - 1 = j
          OBVIOUS
        <5> QED
          BY <1>2, <4>1, <5>1 DEF Expected
      <4>3. j \in 0 .. Len(q) /\ j # 0
        BY <2>3, <4>1
      <4> HIDE DEF m, p, q, u, waits
      <4> QED
        BY <2>4, <3>2, <4>2, <4>3 DEF m
    <3> QED
      BY <3>1, <3>2
  <2>6. ASSUME b \in server.conn, server.master # NULL
        PROVE  MasterAt(p, Len(p), b, k, FALSE, server.master)
    <3>1. Len(q) \in 0 .. Len(q) /\ Len(q) # 0 /\ ~(Len(q) < i)
      BY <2>3
    <3>2. MasterAt(q, Len(q), b, u, waits, server.master)
      BY <1>2, <2>6
    <3> HIDE DEF p, q, u, waits
    <3> QED
      BY <2>3, <2>4, <2>6, <3>1, <3>2
  <2>7. (b \in awaiting') = FALSE
    BY <2>1
  <2> QED
    BY <2>1, <2>2, <2>5, <2>6, <2>7
<1> QED
  BY <1>3, <1>4

LEMMA InitShows == Init => SInv
<1> SUFFICES ASSUME Init, NEW b \in Client
             PROVE  /\ Shows(manager[b])
                    /\ Expected(toClient[b], b, manager[b], b \in awaiting)
                    /\ b \in server.conn /\ server.master # NULL =>
                         MasterAt(toClient[b], Len(toClient[b]), b, manager[b],
                                  b \in awaiting, server.master)
  BY DEF SInv
<1>1. toClient = [c \in Client |-> <<>>] /\ awaiting = {}
  BY DEF Init
<1>2. PICK n \in 0 .. NClients, ref \in Nat :
        /\ server = Settled(n, ref) /\ manager = [c \in Client |-> Joined(c, n)]
  BY Beginning
<1>3. /\ server.conn = 1 .. n
      /\ server.master = IF n = 0 THEN NULL ELSE 1
  BY <1>2, SettledSays
<1>4. Knows(manager[b], b, n)
  BY <1>2, JoinedKnows
<1>5. toClient[b] = <<>> /\ Len(toClient[b]) = 0 /\ b \notin awaiting
  BY <1>1
<1>6. \A i \in 1 .. 0 : FALSE
  OBVIOUS
<1>7. Shows(manager[b])
  BY <1>4 DEF Knows, Shows
<1>8. Expected(toClient[b], b, manager[b], b \in awaiting)
  BY <1>5, <1>6 DEF Expected
<1>9. ASSUME b \in server.conn, server.master # NULL
      PROVE  MasterAt(toClient[b], Len(toClient[b]), b, manager[b], b \in awaiting,
                      server.master)
  <2>1. b <= n /\ server.master = 1
    BY <1>3, <1>9
  <2>2. manager[b].master = server.master
    BY <1>4, <2>1 DEF Knows
  <2> QED
    BY <1>5, <1>6, <2>2 DEF MasterAt
<1> QED
  BY <1>7, <1>8, <1>9

\* A client shows the camera of the user it follows, if it has received one,
\* for every number of clients, until a stale list is relayed or the server
\* loses its object.
THEOREM CameraIsShown == Spec => []ShowsFollowedCamera
<1>1. IInv /\ IInv' /\ TInv /\ SInv /\ [Next]_vars => SInv'
  <2> SUFFICES ASSUME IInv, IInv', TInv, SInv, [Next]_vars PROVE SInv'
    OBVIOUS
  <2>1. CASE UNCHANGED vars
    BY <2>1 DEF vars, SInv, Shows, Expected, MasterAt
  <2>2. CASE \E c \in Client : \/ \E k, pushed : Acts(c, k, pushed)
                               \/ \E said, more : Serves(c, said, more)
                               \/ \E i, k : Loads(c, i, k)
    BY <2>2, ActsShows, ServedShows, LoadsShows
  <2> QED
    BY <2>1, <2>2, Steps
<1>2. SInv => ShowsFollowedCamera
  BY DEF SInv, Shows, ShowsFollowedCamera
<1> QED
  BY <1>1, <1>2, InitShows, Inductive, PTL DEF Spec

-----------------------------------------------------------------------------
(* The new master is followed                                              *)

\* Nobody, the master, or somebody who has left.
Past(s, remaining) ==
  {m \in Client \cup {NULL} :
     \/ m \in {NULL, s.master}
     \/ m \notin s.conn /\ m \notin remaining}

\* As long as no user chose whom to follow, and no stale list was relayed, all
\* lists and copies name such masters, who are followed.
NInv ==
  ~decided /\ relay = "fresh" =>
    \A b \in Client :
      /\ manager[b].follow = manager[b].master
      /\ Within(manager[b], Past(server, unborn))
      /\ \A i \in 1 .. Len(toServer[b]) :
           toServer[b][i].kind = "users" =>
             /\ toServer[b][i].list.master \in Past(server, unborn)
             /\ toServer[b][i].list.follow \in Past(server, unborn)
      /\ \A i \in 1 .. Len(toClient[b]) :
           toClient[b][i].kind # "camera" =>
             /\ toClient[b][i].list.master \in Past(server, unborn)
             /\ toClient[b][i].list.follow \in {NULL, toClient[b][i].list.master}

\* Who is or was master remains so: a list that names one who has left makes
\* its author master, but others hear that this list was stale.
LEMMA PastStays ==
  ASSUME IInv, TInv, NInv, ~decided, relay' = "fresh",
         NEW c \in Client, NEW said, NEW more, Serves(c, said, more)
  PROVE  Past(server, unborn) \subseteq Past(server', unborn')
<1> SUFFICES ASSUME NEW m \in Past(server, unborn), m # NULL
             PROVE  m \in Past(server', unborn')
  BY DEF Past
<1>1. /\ unborn' \subseteq unborn
      /\ server'.conn \subseteq server.conn \cup unborn
  BY DEF Serves, Connect, Reads
<1>2. m \in Client
  BY DEF Past
<1>3. CASE m \notin server.conn /\ m \notin unborn
  BY <1>1, <1>2, <1>3 DEF Past
<1>4. CASE m = server.master /\ m # server'.master
  <2>1. m \in server.conn /\ m \notin unborn
    BY <1>4 DEF IInv, TInv, TypedServer
  <2>2. CASE m \notin server'.conn
    BY <1>1, <1>2, <2>1, <2>2 DEF Past
  <2>3. CASE m \in server'.conn
    <3> DEFINE msg == Head(toServer[c])  list == msg.list
    <3>1. /\ Reads(c, "users") /\ list.master # NULL
          /\ server'.master = IF list.master \in server.conn THEN list.master ELSE c
          /\ relay' # "stale" => \A b \in server'.conn \ {c} : ~IsStale(server', msg)
      BY <1>4, <2>3 DEF Serves, Succeeds
    <3>2. toServer[c] # <<>> /\ msg.kind = "users"
      BY <3>1 DEF Reads
    <3>3. /\ list \in GoodLists /\ 1 \in 1 .. Len(toServer[c])
          /\ msg = toServer[c][1]
      BY <3>2, MessageRead
    <3>4. list.master \in Past(server, unborn)
      <4>1. relay = "fresh"
        BY DEF Serves, Hears
      <4> HIDE DEF msg
      <4> QED
        BY <3>2, <3>3, <4>1 DEF NInv
    <3>5. list.master \notin server.conn /\ server'.master = c
      BY <1>4, <2>1, <3>1, <3>4 DEF Past
    <3>6. ~IsStale(server', msg)
      BY <1>4, <2>3, <3>1, <3>5
    <3>7. ~Silent(msg)
      BY <3>1, <3>2, <3>3 DEF Silent, GoodLists, GoodList
    <3>8. list.master = server'.master
      BY <3>2, <3>3, <3>6, <3>7, Telling DEF Serves, Hears
    <3>9. c \in server.conn
      BY <3>2 DEF IInv, Sent
    <3> QED
      BY <3>5, <3>8, <3>9
  <2> QED
    BY <2>2, <2>3
<1>5. CASE m = server'.master
  BY <1>2, <1>5 DEF Past
<1> QED
  BY <1>3, <1>4, <1>5 DEF Past

\* What the server tells a client names such masters.
LEMMA ServedFollows ==
  ASSUME IInv, TInv, NInv, ~decided, relay' = "fresh",
         NEW c \in Client, NEW said, NEW more, Serves(c, said, more),
         NEW b \in Client, NEW i \in 1 .. Len(toClient'[b]),
         toClient'[b][i].kind # "camera"
  PROVE  /\ toClient'[b][i].list.master \in Past(server', unborn')
         /\ toClient'[b][i].list.follow \in {NULL, toClient'[b][i].list.master}
<1> DEFINE q == toClient[b]  p == toClient'[b]  new == more[b]
           now == Past(server', unborn')  l == BuildServerState(server')
<1>1. Hears(said, more) /\ relay = "fresh"
  BY DEF Serves, Hears
<1>2. b \in server'.conn
  <2>1. \A j \in 1 .. Len(<<>>) : FALSE
    OBVIOUS
  <2> QED
    BY <1>1, <2>1 DEF Hears
<1>3. Appends(p, q, said, new) /\ \A j \in 1 .. Len(said) : said[j] = Users(l)
  <2>1. new \in Seq(ForClient(b))
    BY MoreTyped
  <2> QED
    BY <1>1, <1>2, <2>1, HeardQueue
<1>4. Past(server, unborn) \subseteq now
  BY PastStays
<1>5. TypedServer(server')
  BY <1>1 DEF Hears
<1>6. l.master \in now /\ l.follow = NULL /\ l.users = server'.conn
  <2>1. l.master = server'.master /\ l.follow = NULL /\ l.users = server'.conn
    BY <1>5, ServerSays
  <2>2. server'.master \in Client \cup {NULL}
    BY <1>5 DEF TypedServer, ServerState
  <2> QED
    BY <2>1, <2>2 DEF Past
<1>7. CASE \E j \in 1 .. Len(q) : p[i] = q[j]
  BY <1>1, <1>4, <1>7 DEF NInv
<1>8. CASE \E j \in 1 .. Len(said) : p[i] = said[j]
  BY <1>3, <1>6, <1>8 DEF Users
<1>9. ASSUME NEW j \in 1 .. Len(new), p[i] = new[j] PROVE
        p[i].list.master \in now /\ p[i].list.follow \in {NULL, p[i].list.master}
  <2>1. j = 1 /\ Len(new) = 1
    BY MoreTyped
  <2>2. CASE new = <<Reply(l)>>
    BY <1>6, <1>9, <2>1, <2>2 DEF Reply
  <2>4. CASE new = <<Reply(NoUsers)>>
    <3>1. NULL \in now
      BY DEF Past
    <3> HIDE DEF now
    <3> QED
      BY <1>9, <2>1, <2>4, <3>1, NobodyListed DEF Reply
  <2>3. CASE new # <<Reply(l)>> /\ new # <<Reply(NoUsers)>>
    <3> DEFINE msg == Head(toServer[c])  list == msg.list
    <3>1. /\ toServer[c] # <<>> /\ new = <<msg>>
          /\ msg.kind \in {"users", "camera"} /\ ~IsStale(server', msg)
      <4>1. new # <<>>
        BY <2>1
      <4> QED
        BY <1>2, <2>3, <4>1 DEF Serves
    <3>2. p[i] = msg /\ msg.kind = "users"
      BY <1>9, <2>1, <3>1
    <3>3. /\ list \in GoodLists /\ 1 \in 1 .. Len(toServer[c])
          /\ msg = toServer[c][1]
      BY <3>1, <3>2, MessageRead
    <3>4. list.master \in now /\ list.follow \in now
      <4> HIDE DEF msg, now
      <4> QED
        BY <1>1, <1>4, <3>2, <3>3 DEF NInv
    <3>5. CASE Silent(msg)
      <4>1. list.follow = NULL
        BY <3>2, <3>3, <3>5 DEF Silent, GoodLists, GoodList
      <4> QED
        BY <3>2, <3>4, <4>1
    <3>6. CASE ~Silent(msg)
      <4>1. list.users = server'.conn /\ list.master = server'.master
        BY <1>5, <3>1, <3>2, <3>3, <3>6, Telling
      <4>2. list.follow \in server'.conn \cup {NULL}
        BY <3>3, <4>1 DEF GoodLists, GoodList
      <4>3. list.follow \in {NULL, server'.master}
        BY <3>4, <4>2 DEF Past
      <4> QED
        BY <3>2, <3>4, <4>1, <4>3
    <3> QED
      BY <3>5, <3>6
  <2> QED
    BY <2>2, <2>3, <2>4
<1>10. \/ \E j \in 1 .. Len(q) : p[i] = q[j]
       \/ \E j \in 1 .. Len(said) : p[i] = said[j]
       \/ \E j \in 1 .. Len(new) : p[i] = new[j]
  BY <1>3, WhereFrom
<1> QED
  BY <1>7, <1>8, <1>9, <1>10

\* Steps of the server keep who may be named.
LEMMA ServedNames ==
  ASSUME IInv, TInv, NInv, NEW c \in Client, NEW said, NEW more, Serves(c, said, more)
  PROVE  NInv'
<1>1. manager' = manager /\ decided' = decided /\ (relay' = "fresh" => relay = "fresh")
  BY DEF Serves, Hears
<1> DEFINE now == Past(server', unborn')
<1> SUFFICES ASSUME ~decided, relay' = "fresh", NEW b \in Client
             PROVE  /\ manager[b].follow = manager[b].master
                    /\ Within(manager[b], now)
                    /\ \A i \in 1 .. Len(toServer'[b]) :
                         toServer'[b][i].kind = "users" =>
                           /\ toServer'[b][i].list.master \in now
                           /\ toServer'[b][i].list.follow \in now
                    /\ \A i \in 1 .. Len(toClient'[b]) :
                         toClient'[b][i].kind # "camera" =>
                           /\ toClient'[b][i].list.master \in now
                           /\ toClient'[b][i].list.follow
                                \in {NULL, toClient'[b][i].list.master}
  BY <1>1 DEF NInv
<1>2. Past(server, unborn) \subseteq now
  BY PastStays
<1>3. /\ manager[b].follow = manager[b].master
      /\ Within(manager[b], Past(server, unborn))
      /\ \A i \in 1 .. Len(toServer[b]) :
           toServer[b][i].kind = "users" =>
             /\ toServer[b][i].list.master \in Past(server, unborn)
             /\ toServer[b][i].list.follow \in Past(server, unborn)
  BY <1>1 DEF NInv
<1>4. \A i \in 1 .. Len(toClient'[b]) :
        toClient'[b][i].kind # "camera" =>
          /\ toClient'[b][i].list.master \in now
          /\ toClient'[b][i].list.follow \in {NULL, toClient'[b][i].list.master}
  BY ServedFollows
<1>5. ASSUME NEW i \in 1 .. Len(toServer'[b]), toServer'[b][i].kind = "users"
      PROVE  /\ toServer'[b][i].list.master \in now
             /\ toServer'[b][i].list.follow \in now
  <2>1. toServer = [d \in Client |-> toServer[d]] /\ toServer[b] \in Seq(FromClient(b))
    BY DEF TInv
  <2>2. CASE Connect(c) /\ b = c
    <3> DEFINE first == Request("register")  second == Users(NoUsers)
               third == Request("pull")
    <3>1. toServer'[b] = <<first, second, third>>
      BY <2>1, <2>2 DEF Connect
    <3>2. first.kind # "users" /\ second.list = NoUsers /\ third.kind # "users"
      BY DEF Users, Request
    <3> HIDE DEF first, second, third
    <3>3. toServer'[b][i] \in {first, second, third}
      BY <1>5, <3>1
    <3>4. toServer'[b][i].list = NoUsers
      BY <1>5, <3>2, <3>3
    <3>5. NoUsers.master = NULL /\ NoUsers.follow = NULL /\ NULL \in now
      BY DEF NoUsers, UserList, Flagged, Past
    <3> QED
      BY <3>4, <3>5
  <2>3. CASE ~(Connect(c) /\ b = c)
    <3>1. \/ toServer'[b] = toServer[b]
          \/ toServer[b] # <<>> /\ toServer'[b] = Tail(toServer[b])
      BY <2>1, <2>3 DEF Serves, Connect, Reads
    <3>2. \E j \in 1 .. Len(toServer[b]) : toServer'[b][i] = toServer[b][j]
      <4>1. CASE toServer'[b] = toServer[b]
        BY <1>5, <4>1
      <4>2. CASE toServer[b] # <<>> /\ toServer'[b] = Tail(toServer[b])
        <5>1. i + 1 \in 1 .. Len(toServer[b]) /\ toServer'[b][i] = toServer[b][i + 1]
          BY <1>5, <2>1, <4>2
        <5> QED
          BY <5>1
      <4> QED
        BY <3>1, <4>1, <4>2
    <3> HIDE DEF now
    <3> QED
      BY <1>2, <1>3, <1>5, <3>2
  <2> QED
    BY <2>2, <2>3
<1>6. Within(manager[b], now)
  <2> HIDE DEF now
  <2> QED
    BY <1>2, <1>3 DEF Within
<1> QED
  BY <1>3, <1>4, <1>5, <1>6

\* So do steps of users that decide nothing.
LEMMA ActsNames ==
  ASSUME TInv, NInv, NEW c \in Client, NEW k, NEW pushed, Acts(c, k, pushed)
  PROVE  NInv'
<1>1. /\ manager' = [manager EXCEPT ![c] = k]
      /\ toServer' = [toServer EXCEPT ![c] = @ \o pushed]
      /\ UNCHANGED <<server, toClient, unborn, relay>>
  BY DEF Acts, Does
<1> DEFINE S == Past(server, unborn)
<1> SUFFICES ASSUME ~decided', relay = "fresh", NEW b \in Client
             PROVE  /\ manager'[b].follow = manager'[b].master
                    /\ Within(manager'[b], S)
                    /\ \A i \in 1 .. Len(toServer'[b]) :
                         toServer'[b][i].kind = "users" =>
                           /\ toServer'[b][i].list.master \in S
                           /\ toServer'[b][i].list.follow \in S
                    /\ \A i \in 1 .. Len(toClient[b]) :
                         toClient[b][i].kind # "camera" =>
                           /\ toClient[b][i].list.master \in S
                           /\ toClient[b][i].list.follow
                                \in {NULL, toClient[b][i].list.master}
  BY <1>1 DEF NInv
<1>2. /\ ~decided
      /\ manager[c].follow = manager[c].master => k.follow = k.master
      /\ \A T : Within(manager[c], T) => Within(k, T)
  BY DEF Acts
<1>3. \A d \in Client :
        /\ manager[d].follow = manager[d].master
        /\ Within(manager[d], S)
        /\ \A i \in 1 .. Len(toServer[d]) :
             toServer[d][i].kind = "users" =>
               toServer[d][i].list.master \in S /\ toServer[d][i].list.follow \in S
        /\ \A i \in 1 .. Len(toClient[d]) :
             toClient[d][i].kind # "camera" =>
               /\ toClient[d][i].list.master \in S
               /\ toClient[d][i].list.follow \in {NULL, toClient[d][i].list.master}
  BY <1>2 DEF NInv
<1>4. /\ manager = [d \in Client |-> manager[d]]
      /\ toServer = [d \in Client |-> toServer[d]] /\ toServer[c] \in Seq(FromClient(c))
  BY DEF TInv
<1> HIDE DEF S
<1>5. CASE b # c
  <2>1. manager'[b] = manager[b] /\ toServer'[b] = toServer[b]
    BY <1>1, <1>4, <1>5
  <2> QED
    BY <1>3, <2>1
<1>6. CASE b = c
  <2>1. manager'[b] = k /\ toServer'[b] = toServer[c] \o pushed
    BY <1>1, <1>4, <1>6
  <2>2. k.follow = k.master /\ Within(k, S)
    BY <1>2, <1>3
  <2> DEFINE Good(msg) == msg.kind = "users" =>
                            msg.list.master \in S /\ msg.list.follow \in S
             q == toServer[c]  r == q \o pushed
  <2>3. /\ pushed \in Seq(FromClient(c))
        /\ \A j \in 1 .. Len(pushed) :
             pushed[j].kind = "users" => pushed[j] = Users(k.state)
    BY Pushed
  <2>4. Users(k.state).list = k.state
    BY DEF Users
  <2>5. \A j \in 1 .. Len(pushed) : Good(pushed[j])
    BY <2>2, <2>3, <2>4 DEF Within
  <2>6. \A j \in 1 .. Len(q) : Good(q[j])
    BY <1>3
  <2>7. \A j \in 1 .. Len(r) : \/ j \in 1 .. Len(q) /\ r[j] = q[j]
                               \/ /\ j - Len(q) \in 1 .. Len(pushed)
                                  /\ r[j] = pushed[j - Len(q)]
    <3> HIDE DEF q
    <3>1. q \in Seq(FromClient(c))
      BY <1>4 DEF q
    <3> QED
      BY <2>3, <3>1, Longer
  <2>8. \A j \in 1 .. Len(r) : Good(r[j])
    <3> HIDE DEF Good, q, r
    <3> QED
      BY <2>5, <2>6, <2>7
  <2> QED
    BY <1>3, <1>6, <2>1, <2>2, <2>8
<1> QED
  BY <1>5, <1>6

\* And messages that are taken.
LEMMA LoadsNames ==
  ASSUME TInv, NInv, NEW c \in Client, NEW i, NEW k, Loads(c, i, k)
  PROVE  NInv'
<1> DEFINE q == toClient[c]  p == toClient'[c]  msg == q[i]  u == manager[c]
           S == Past(server, unborn)
<1>1. /\ manager' = [manager EXCEPT ![c] = k]
      /\ toClient' = [toClient EXCEPT ![c] = p] /\ Drops(p, q, i)
      /\ UNCHANGED <<server, toServer, unborn, relay, decided>>
      /\ \/ msg.kind \in {"reply", "users"}
         \/ /\ msg.kind = "camera" /\ k = LoadCamera(u, msg.from)
            /\ msg.from \in Client \ {c} /\ c \notin awaiting
      /\ msg.kind # "camera" => msg.list \in GoodLists /\ k = LoadState(u, c, msg.list)
      /\ c \in server.conn
  BY DEF Loads
<1> SUFFICES ASSUME ~decided, relay = "fresh", NEW b \in Client
             PROVE  /\ manager'[b].follow = manager'[b].master
                    /\ Within(manager'[b], S)
                    /\ \A j \in 1 .. Len(toServer[b]) :
                         toServer[b][j].kind = "users" =>
                           /\ toServer[b][j].list.master \in S
                           /\ toServer[b][j].list.follow \in S
                    /\ \A j \in 1 .. Len(toClient'[b]) :
                         toClient'[b][j].kind # "camera" =>
                           /\ toClient'[b][j].list.master \in S
                           /\ toClient'[b][j].list.follow
                                \in {NULL, toClient'[b][j].list.master}
  BY <1>1 DEF NInv
<1>2. \A d \in Client :
        /\ manager[d].follow = manager[d].master
        /\ Within(manager[d], S)
        /\ \A j \in 1 .. Len(toServer[d]) :
             toServer[d][j].kind = "users" =>
               toServer[d][j].list.master \in S /\ toServer[d][j].list.follow \in S
        /\ \A j \in 1 .. Len(toClient[d]) :
             toClient[d][j].kind # "camera" =>
               /\ toClient[d][j].list.master \in S
               /\ toClient[d][j].list.follow \in {NULL, toClient[d][j].list.master}
  BY DEF NInv
<1>3. /\ manager = [d \in Client |-> manager[d]] /\ AtRest(u, c) /\ Stands(c)
      /\ toClient = [d \in Client |-> toClient[d]]
  BY DEF TInv
<1> HIDE DEF S
<1>4. CASE b # c
  <2>1. manager'[b] = manager[b] /\ toClient'[b] = toClient[b]
    BY <1>1, <1>3, <1>4
  <2> QED
    BY <1>2, <2>1
<1>5. CASE b = c
  <2>1. manager'[b] = k /\ toClient'[b] = p
    BY <1>1, <1>3, <1>5
  <2>2. i \in 1 .. Len(q) /\ \A j \in 1 .. Len(p) : \E n \in 1 .. Len(q) : p[j] = q[n]
    BY <1>1 DEF Drops
  <2>3. k.follow = k.master /\ Within(k, S)
    <3>1. CASE msg.kind = "camera"
      <4>2. k.follow = u.follow /\ k.master = u.master /\ k.state = u.state
        BY <1>1, <1>3, <3>1, CameraLoaded
      <4> QED
        BY <1>2, <4>2 DEF Within
    <3>2. CASE msg.kind # "camera"
      <4> DEFINE list == msg.list
      <4>1. list \in GoodLists /\ k = LoadState(u, c, list)
        BY <1>1, <3>2
      <4>2. list.master \in S /\ list.follow \in {NULL, list.master}
        BY <1>2, <2>2, <3>2
      <4>3. u.follow = u.master /\ Within(u, S) /\ NULL \in S
        BY <1>2 DEF Within
      <4> HIDE DEF list, u
      <4>4. /\ list.users = {} => k = u
            /\ list.users # {} => Says(u, list, k)
        BY <1>3, <4>1, Loading DEF GoodLists
      <4> QED
        BY <4>2, <4>3, <4>4 DEF Says
    <3> QED
      BY <3>1, <3>2
  <2> QED
    BY <1>2, <1>5, <2>1, <2>2, <2>3
<1> QED
  BY <1>4, <1>5

LEMMA InitNames == Init => NInv
<1> SUFFICES ASSUME Init, NEW b \in Client
             PROVE  /\ manager[b].follow = manager[b].master
                    /\ Within(manager[b], Past(server, unborn))
                    /\ toServer[b] = <<>> /\ toClient[b] = <<>>
  <2>1. \A j \in 1 .. Len(<<>>) : FALSE
    OBVIOUS
  <2> QED
    BY <2>1 DEF NInv
<1>1. toServer = [c \in Client |-> <<>>] /\ toClient = [c \in Client |-> <<>>]
  BY DEF Init
<1>2. PICK n \in 0 .. NClients, ref \in Nat :
        /\ server = Settled(n, ref) /\ manager = [c \in Client |-> Joined(c, n)]
  BY Beginning
<1>3. Knows(manager[b], b, n)
  BY <1>2, JoinedKnows
<1>4. server.master = IF n = 0 THEN NULL ELSE 1
  BY <1>2, SettledSays
<1>5. Within(manager[b], {NULL, 1}) /\ manager[b].follow = manager[b].master
  BY <1>3 DEF Knows
<1>6. CASE b <= n
  <2>1. server.master = 1 /\ 1 \in Client
    <3>1. 1 \in Client
      BY NClientsAssumption DEF Client
    <3>2. n # 0
      BY <1>6 DEF Client
    <3> QED
      BY <1>4, <3>1, <3>2
  <2>2. {NULL, 1} \subseteq Past(server, unborn)
    BY <2>1 DEF Past
  <2> QED
    BY <1>1, <1>5, <2>2 DEF Within
<1>7. CASE n < b
  <2>1. manager[b] = NewManager
    BY <1>3, <1>7 DEF Knows
  <2>2. NULL \in Past(server, unborn)
    BY DEF Past
  <2>3. Within(manager[b], Past(server, unborn))
    BY <2>1, <2>2 DEF Within, NewManager, NoUsers, UserList, Flagged
  <2> QED
    BY <1>1, <1>5, <2>3
<1>8. b <= n \/ n < b
  BY NClientsAssumption DEF Client
<1> QED
  BY <1>6, <1>7, <1>8

\* Everybody follows the master in the end, whoever has left, for every number
\* of clients, unless a user decided otherwise, a stale list was relayed, or the
\* server lost its object and has announced nothing since.
THEOREM MasterIsFollowed == Spec => []NewMasterIsFollowed
<1>1. IInv /\ TInv /\ NInv /\ [Next]_vars => NInv'
  <2> SUFFICES ASSUME IInv, TInv, NInv, [Next]_vars PROVE NInv'
    OBVIOUS
  <2>1. CASE UNCHANGED vars
    BY <2>1 DEF vars, NInv, Within, Past
  <2>2. CASE \E c \in Client : \/ \E k, pushed : Acts(c, k, pushed)
                               \/ \E said, more : Serves(c, said, more)
                               \/ \E i, k : Loads(c, i, k)
    BY <2>2, ActsNames, ServedNames, LoadsNames
  <2> QED
    BY <2>1, <2>2, Steps
<1>2. TInv /\ NInv /\ CopiesAgreeUnlessStaleRelay => NewMasterIsFollowed
  <2> SUFFICES ASSUME TInv, NInv, CopiesAgreeUnlessStaleRelay, Quiet, ~decided,
                      relay = "fresh", object # "stale", NEW c \in server.conn
               PROVE  manager[c].follow = server.master
    BY DEF NewMasterIsFollowed
  <2>1. manager[c].master = server.master
    BY DEF CopiesAgreeUnlessStaleRelay, Agrees
  <2>2. c \in Client
    BY DEF TInv, TypedServer, ServerState
  <2> QED
    BY <2>1, <2>2 DEF NInv
<1> QED
  BY <1>1, <1>2, InitNames, Inductive, CopiesAgree, PTL DEF Spec

=============================================================================
