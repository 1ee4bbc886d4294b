-------------------------- MODULE SIObjectRegistry --------------------------
(***************************************************************************)
(* The life of the server-side objects (vtkSIObject) that the proxies of   *)
(* several clients share: who keeps them alive, and when they die.         *)
(*                                                                         *)
(* vtkPVSessionCore finds an object by its global id through a weak        *)
(* pointer; its reference count starts at one when the first definition    *)
(* is pushed, goes up with each client that registers it from then on, and *)
(* down with each that unregisters it or is found dead.                    *)
(*                                                                         *)
(* Clients talk to the server through FIFO connections; the server handles *)
(* one RMI at a time, of any client.  The references that compound objects *)
(* hold on their own parts are not counted here.                           *)
(***************************************************************************)
EXTENDS Integers, Sequences, FiniteSets

CONSTANTS
  Client,      \* controller ids, never reused
  Gid,         \* global ids
  Shared,      \* reserved ids, of which every client has an object from the
               \* start (pipeline state, collaboration manager)
  None,        \* no global id
  MaxQueue     \* bound: RMIs of one client in flight

ASSUME ClientAssumption == IsFiniteSet(Client)
ASSUME GidAssumption == Shared \subseteq Gid /\ None \notin Gid
ASSUME MaxQueueAssumption == MaxQueue \in Nat

VARIABLES
  ref,         \* [gid -> reference count of its vtkSIObject; 0: no object]
  registered,  \* ClientSIRegistrationMap: [client -> gids]
  known,       \* KnownClients
  status,      \* [client -> its connection]: see Status
  serving,     \* has the event loop not been told to quit?
  queue,       \* [client -> RMIs it sent that the server has yet to read]
  proxies,     \* [client -> gids of its remote objects]
  held,        \* [client -> gids whose state it has, to undo a deletion]
  pulling,     \* [client -> gid whose definition it waits for]
  announced,   \* gids that a push made known to the other clients
  surplus      \* history: [gid -> clients registered before the object was
               \* created, other than its creator]

serverVars == <<ref, registered, known, surplus>>
clientVars == <<proxies, held, pulling>>
vars == <<ref, registered, known, status, serving, queue, proxies, held,
          pulling, announced, surplus>>

\* absent: not connected yet; up; leaving: NoMoreDelete is set; dead: the
\* process is gone; lost: its socket is closed, its controller is not cleaned
\* up yet; gone: no controller.
Status == {"absent", "up", "leaving", "dead", "lost", "gone"}

Controllers(st) == {c \in Client : st[c] \notin {"absent", "gone"}}

\* The clients whose sockets the server reads.
Connected(st) == {c \in Client : st[c] \in {"up", "leaving", "dead"}}

\* CleanNonConnectedControllers.
Cleaned(st) == [c \in Client |-> IF st[c] = "lost" THEN "gone" ELSE st[c]]

Msg(op, g) == [op |-> op, gid |-> g]
Message ==
  [op : {"register", "unregister", "define", "update", "pull"}, gid : Gid]
    \cup {Msg("close", None)}

Registrants(g) == {c \in Client : g \in registered[c]}

-----------------------------------------------------------------------------
(* vtkPVSessionCore                                                        *)

\* Mutant: a reference count is decremented even when the object is gone.
LessUnguarded(r, n) == r - n

\* References left after n UnRegister calls, each a no-op on a dead object.
Less(r, n) == IF r > n THEN r - n ELSE 0

\* Mutant: the registration is recorded, the object is not referenced.
RegisterSIOnlyRecords(g, c) ==
  /\ known' = known \cup {c}
  /\ registered' = [registered EXCEPT ![c] = @ \cup {g}]
  /\ UNCHANGED ref

RegisterSI(g, c) ==
  /\ known' = known \cup {c}
  /\ registered' = [registered EXCEPT ![c] = @ \cup {g}]
  /\ ref' = IF g \notin registered[c] /\ ref[g] > 0
            THEN [ref EXCEPT ![g] = @ + 1] ELSE ref

UnRegisterSI(g, c) ==
  /\ registered' = [registered EXCEPT ![c] = @ \ {g}]
  /\ ref' = IF g \in registered[c] THEN [ref EXCEPT ![g] = Less(@, 1)] ELSE ref

\* PushStateInternal creates the object when it is missing and the message
\* has a definition; otherwise a push to a missing object is dropped.
Created(g, op) == [ref EXCEPT ![g] = IF op = "define" /\ @ = 0 THEN 1 ELSE @]

\* Mutant: references are released, ClientSIRegistrationMap is not updated.
GarbageCollectOnlyReleases(r, left) ==
  LET dead == IF left = {} THEN {} ELSE known \ left
  IN  /\ ref' = [g \in Gid |-> Less(r[g], Cardinality(dead \cap Registrants(g)))]
      /\ UNCHANGED registered

\* GarbageCollectSIObject, called by ReleaseDeadClientSIObjects with the
\* controllers that are left, if any, on reference counts r.
GarbageCollect(r, left) ==
  LET dead == IF left = {} THEN {} ELSE known \ left
  IN  /\ registered' =
           [c \in Client |-> IF c \in dead THEN {} ELSE registered[c]]
      /\ ref' = [g \in Gid |-> Less(r[g], Cardinality(dead \cap Registrants(g)))]

\* CompositeMultiProcessControllerChanged, when the connections are st:
\* collects.  A collaboration manager, if there is one, then broadcasts the
\* new server state, which cleans up, and collects again.
ControllersChanged(st) ==
  \E after \in {st, Cleaned(st)} :
    /\ status' = after
    /\ GarbageCollect(ref, IF Controllers(after) # {} THEN Controllers(after)
                           ELSE Controllers(st))

-----------------------------------------------------------------------------
(* The client                                                              *)

\* The client may send, having room for n more RMIs, and waits for nothing.
CanSend(c, n) ==
  /\ status[c] = "up"
  /\ pulling[c] = None
  /\ Len(queue[c]) + n <= MaxQueue

Acquire(c, g) ==
  /\ proxies' = [proxies EXCEPT ![c] = @ \cup {g}]
  /\ held' = [held EXCEPT ![c] = @ \cup {g}]

\* The objects with reserved ids exist on every client; SetGlobalID or
\* SetSession registers them, long before their first push.
Attach(c, g) ==
  /\ CanSend(c, 1)
  /\ g \in Shared \ proxies[c]
  /\ Acquire(c, g)
  /\ queue' = [queue EXCEPT ![c] = Append(@, Msg("register", g))]
  /\ UNCHANGED <<serverVars, status, serving, pulling, announced>>

\* A new proxy, or one that undo creates again with the id it had: it is
\* registered (SetGlobalID), then CreateVTKObjects pushes its definition.
Create(c, g) ==
  /\ CanSend(c, 2)
  /\ g \in Gid \ (Shared \cup proxies[c])
  /\ g \in held[c] \/ \A d \in Client : g \notin held[d]
  /\ Acquire(c, g)
  /\ queue' = [queue EXCEPT ![c] = @ \o <<Msg("register", g), Msg("define", g)>>]
  /\ UNCHANGED <<serverVars, status, serving, pulling, announced>>

\* UpdateVTKObjects and the like; objects with reserved ids send their
\* definition along with every state.
Update(c, g) ==
  /\ CanSend(c, 1)
  /\ g \in proxies[c]
  /\ queue' = [queue EXCEPT ![c] =
                 Append(@, Msg(IF g \in Shared THEN "define" ELSE "update", g))]
  /\ UNCHANGED <<serverVars, clientVars, status, serving, announced>>

\* Mutant: the id is not forgotten, and may be unregistered again.
DeleteKeepsId(c, g) ==
  /\ CanSend(c, 1)
  /\ g \in proxies[c] \ Shared
  /\ queue' = [queue EXCEPT ![c] = Append(@, Msg("unregister", g))]
  /\ UNCHANGED <<serverVars, proxies, held, pulling, status, serving, announced>>

\* ~vtkSMRemoteObject.
Delete(c, g) ==
  /\ CanSend(c, 1)
  /\ g \in proxies[c] \ Shared
  /\ proxies' = [proxies EXCEPT ![c] = @ \ {g}]
  /\ queue' = [queue EXCEPT ![c] = Append(@, Msg("unregister", g))]
  /\ UNCHANGED <<serverVars, held, pulling, status, serving, announced>>

\* A state notified by another client names an unknown proxy: FindState of
\* the server state locator pulls its definition, and blocks.
Discover(c, g) ==
  /\ CanSend(c, 1)
  /\ g \in announced \ (Shared \cup proxies[c])
  /\ pulling' = [pulling EXCEPT ![c] = g]
  /\ queue' = [queue EXCEPT ![c] = Append(@, Msg("pull", g))]
  /\ UNCHANGED <<serverVars, proxies, held, status, serving, announced>>

\* Disconnect: PreDisconnection, so that nothing else is sent, and close.
Leave(c) ==
  /\ CanSend(c, 1)
  /\ status' = [status EXCEPT ![c] = "leaving"]
  /\ queue' = [queue EXCEPT ![c] = Append(@, Msg("close", None))]
  /\ UNCHANGED <<serverVars, clientVars, serving, announced>>

\* The client dies; what it had sent may be lost from some point on.
Crash(c) ==
  /\ status[c] \in {"up", "leaving"}
  /\ status' = [status EXCEPT ![c] = "dead"]
  /\ \E n \in 0 .. Len(queue[c]) :
       queue' = [queue EXCEPT ![c] = SubSeq(@, 1, n)]
  /\ UNCHANGED <<serverVars, clientVars, serving, announced>>

-----------------------------------------------------------------------------
(* vtkPVSessionServer                                                      *)

\* The server reads an RMI of kind op from client c.
Receive(c, op) ==
  /\ serving
  /\ c \in Connected(status)
  /\ queue[c] # <<>>
  /\ Head(queue[c]).op = op
  /\ queue' = [queue EXCEPT ![c] = Tail(@)]

\* A new controller.
Connect(c) ==
  /\ serving
  /\ status[c] = "absent"
  /\ ControllersChanged([status EXCEPT ![c] = "up"])
  /\ UNCHANGED <<known, serving, queue, clientVars, announced, surplus>>

HandleRegister(c) ==
  /\ Receive(c, "register")
  /\ RegisterSI(Head(queue[c]).gid, c)
  /\ UNCHANGED <<status, serving, clientVars, announced, surplus>>

HandleUnRegister(c) ==
  /\ Receive(c, "unregister")
  /\ UnRegisterSI(Head(queue[c]).gid, c)
  /\ UNCHANGED <<known, status, serving, clientVars, announced, surplus>>

\* PUSH: PushState, then NotifyOtherClients, which first cleans up the
\* controllers that lost their socket and collects, if there are any.
HandlePush(c, op) ==
  LET g == Head(queue[c]).gid
  IN  /\ Receive(c, op)
      /\ surplus' = IF op = "define" /\ ref[g] = 0
                    THEN [surplus EXCEPT ![g] = Cardinality(Registrants(g) \ {c})]
                    ELSE surplus
      /\ status' = Cleaned(status)
      /\ IF status' = status
         THEN ref' = Created(g, op) /\ UNCHANGED registered
         ELSE GarbageCollect(Created(g, op), Controllers(status'))
      /\ announced' = announced \cup {g}
      /\ UNCHANGED <<known, serving, clientVars>>

\* Other reasons to notify every client: a master is elected for a client that
\* asks who is connected, or a plugin that one loads brings new definitions.
NotifyAllClients(c) ==
  /\ serving
  /\ c \in Connected(status)
  /\ status' = Cleaned(status)
  /\ status' # status
  /\ GarbageCollect(ref, Controllers(status'))
  /\ UNCHANGED <<known, serving, queue, clientVars, announced, surplus>>

\* PULL, and the client goes on: it creates the proxy from the definition,
\* which registers the id but pushes nothing (LocalPushOnly); without a
\* definition it creates nothing.
HandlePull(c) ==
  LET g == Head(queue[c]).gid
  IN  /\ serving
      /\ status[c] \in {"up", "dead"}
      /\ queue[c] # <<>>
      /\ Head(queue[c]).op = "pull"
      /\ IF status[c] = "up" /\ ref[g] > 0
         THEN /\ queue' = [queue EXCEPT ![c] = Append(Tail(@), Msg("register", g))]
              /\ Acquire(c, g)
         ELSE /\ queue' = [queue EXCEPT ![c] = Tail(@)]
              /\ UNCHANGED <<proxies, held>>
      /\ pulling' = [pulling EXCEPT ![c] = None]
      /\ UNCHANGED <<serverVars, status, serving, announced>>

\* Mutant: closing a session does not collect.
HandleCloseKeeps(c) ==
  /\ Receive(c, "close")
  /\ status' = [status EXCEPT ![c] = "gone"]
  /\ serving' = (Controllers(status') # {})
  /\ UNCHANGED <<ref, registered, known, clientVars, announced, surplus>>

\* CLOSE_SESSION: the controller goes, with the objects that it alone kept; the
\* server stops when no controller is left.
HandleClose(c) ==
  /\ Receive(c, "close")
  /\ ControllersChanged([status EXCEPT ![c] = "gone"])
  /\ serving' = (Controllers(status') # {})
  /\ UNCHANGED <<known, clientVars, announced, surplus>>

\* A read from a dead client fails: only its socket is closed.  The server
\* stops when it was the only one.
ReadError(c) ==
  /\ serving
  /\ status[c] = "dead"
  /\ queue[c] = <<>>
  /\ status' = [status EXCEPT ![c] = "lost"]
  /\ serving' = (Connected(status') # {})
  /\ UNCHANGED <<serverVars, clientVars, queue, announced>>

-----------------------------------------------------------------------------
Init ==
  /\ ref = [g \in Gid |-> 0]
  /\ registered = [c \in Client |-> {}]
  /\ known = {}
  /\ status = [c \in Client |-> "absent"]
  /\ serving = TRUE
  /\ queue = [c \in Client |-> <<>>]
  /\ proxies = [c \in Client |-> {}]
  /\ held = [c \in Client |-> {}]
  /\ pulling = [c \in Client |-> None]
  /\ announced = {}
  /\ surplus = [g \in Gid |-> 0]

Next ==
  \E c \in Client :
    \/ \E g \in Gid :
         \/ Attach(c, g)
         \/ Create(c, g)
         \/ Update(c, g)
         \/ Delete(c, g)
         \/ Discover(c, g)
    \/ Leave(c)
    \/ Crash(c)
    \/ Connect(c)
    \/ HandleRegister(c)
    \/ HandleUnRegister(c)
    \/ \E op \in {"define", "update"} : HandlePush(c, op)
    \/ NotifyAllClients(c)
    \/ HandlePull(c)
    \/ HandleClose(c)
    \/ ReadError(c)

Spec == Init /\ [][Next]_vars

-----------------------------------------------------------------------------
TypeOK ==
  /\ ref \in [Gid -> Nat]
  /\ registered \in [Client -> SUBSET Gid]
  /\ known \subseteq Client
  /\ status \in [Client -> Status]
  /\ serving \in BOOLEAN
  /\ queue \in [Client -> Seq(Message)]
  /\ proxies \in [Client -> SUBSET Gid]
  /\ held \in [Client -> SUBSET Gid]
  /\ pulling \in [Client -> Gid \cup {None}]
  /\ announced \subseteq Gid
  /\ surplus \in [Gid -> Nat]

\* No object leaks: while it lives, it has at most one reference for each
\* client that registered it, so it dies with the last of them at the latest,
\* however that client goes.  Of these references it lacks exactly those of
\* the clients that registered before the object was created.
RefsAreRegistrations ==
  \A g \in Gid :
    ref[g] > 0 => ref[g] + surplus[g] = Cardinality(Registrants(g))

\* A client whose controller is gone keeps no object alive: each action that
\* removes a controller collects what that client had registered.
NoOrphans ==
  \A c \in Client : registered[c] # {} /\ serving => c \in Controllers(status)

\* A client unregisters only what it has registered, and once: nothing it does
\* takes a reference that is not its own.
OwnReferencesOnly ==
  \A c \in Client : queue[c] # <<>> /\ Head(queue[c]).op = "unregister" =>
    Head(queue[c]).gid \in registered[c]

\* An object that a client has notified to be "used" (RegisterSIObject, "It
\* only increase its reference count") is not deleted because another client
\* unregisters it or goes away.
UsedObjectsStay ==
  [][ \A g \in Gid : ref[g] > 0 /\ ref'[g] = 0 => Registrants(g)' = {} ]_vars

\* An object that no client registered too early stays until the last client
\* that registered it is gone.
UsedObjectsStayWithoutSurplus ==
  [][ \A g \in Gid :
        ref[g] > 0 /\ surplus[g] = 0 /\ ref'[g] = 0 => Registrants(g)' = {} ]_vars

=============================================================================
