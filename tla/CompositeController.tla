------------------------- MODULE CompositeController -------------------------
(***************************************************************************)
(* The server side of a multi-client ParaView session: one                 *)
(* vtkCompositeMultiProcessController holds one socket controller per      *)
(* connected client and makes "the active one" the target of every reply.  *)
(*                                                                         *)
(* The controllers live in a std::vector and the active one is a raw       *)
(* pointer into that vector.  The pointer is therefore modelled as a slot  *)
(* number: erasing an element moves the later ones down by one, and the    *)
(* slot keeps its number while its content changes.  A slot beyond the end *)
(* still holds the Id of the element that was there last (ghost), and a    *)
(* null smart pointer.                                                     *)
(*                                                                         *)
(* One action is one turn of vtkTCPNetworkAccessManager's event loop: the  *)
(* server is single threaded, takes one RMI of one client, and runs its    *)
(* handler, with every event it fires, to the end.                         *)
(*                                                                         *)
(* The vtkSICollaborationManager lives as long as it is referenced (ref):  *)
(* once for the PUSH that created it, once for every client that           *)
(* registered it while it existed.  A registration made before counts for  *)
(* nothing, and is taken off all the same when its client leaves.          *)
(***************************************************************************)
EXTENDS Integers, FiniteSets, SequencesExt

CONSTANTS
  MaxClients,   \* bound: connections accepted over the life of the server
  MaxCrashes    \* bound: clients that vanish without closing their session

ASSUME MaxClientsAssumption == MaxClients \in Nat \ {0}
ASSUME MaxCrashesAssumption == MaxCrashes \in Nat

VARIABLES
  composite,  \* vtkCompositeInternals: vec, ghost, slot, comm, masters, down;
              \* the collaboration manager: ref, registered, released
  connected,  \* controllers whose socket the server believes connected
  gone,       \* clients that crashed; the server may not have noticed
  nextId,     \* vtkCompositeInternals::ControllerID
  serving,    \* has the event loop not been told to quit?
  last        \* history: the last delivery, and who should have got it

vars == <<composite, connected, gone, nextId, serving, last>>

Client == 1 .. MaxClients
NULL == 0

Nothing == [kind |-> "none", from |-> NULL, to |-> {}, due |-> {}]

-----------------------------------------------------------------------------
(* The active controller                                                   *)

\* GetActiveController: the smart pointer in the active slot.
ActiveController(c) == IF c.slot \in DOMAIN c.vec THEN c.vec[c.slot] ELSE NULL

\* ActiveController->Id; beyond the end of the vector, the Id left behind.
ActiveId(c) ==
  IF c.slot \in DOMAIN c.vec THEN c.vec[c.slot]
  ELSE c.ghost[c.slot - Len(c.vec)]

\* FindController, for a controller that is registered.
SlotOf(c, id) == CHOOSE i \in DOMAIN c.vec : c.vec[i] = id

\* Mutant: UpdateActiveCommunicator is forgotten.
ActivateControllerKeepsComm(c, src) ==
  IF ActiveController(c) = src THEN c ELSE [c EXCEPT !.slot = SlotOf(c, src)]

\* The observer of StartEvent, which ProcessRMIs fires before it reads.
ActivateController(c, src) ==
  IF ActiveController(c) = src THEN c
  ELSE [c EXCEPT !.slot = SlotOf(c, src), !.comm = src]

\* Mutant: push_back is forgotten.
RegisterControllerLosesIt(c, id) ==
  [c EXCEPT !.ghost = <<>>, !.slot = Len(c.vec) + 1, !.comm = id]

\* RegisterController, up to the event it fires.
RegisterController(c, id) ==
  [c EXCEPT !.vec = Append(c.vec, id), !.ghost = <<>>,
            !.slot = Len(c.vec) + 1, !.comm = id]

\* Mutant: the active slot is forgotten whoever goes.
UnRegisterControllerForgets(c, id) ==
  [c EXCEPT !.vec = RemoveAt(c.vec, SlotOf(c, id)),
            !.ghost = <<c.vec[Len(c.vec)]>> \o c.ghost,
            !.slot = NULL, !.comm = NULL, !.masters = @ \ {id}]

\* UnRegisterController: forgets the active slot only when the slot still
\* holds the controller that goes.
UnRegisterController(c, id) ==
  LET forget == ActiveController(c) = id
  IN  [c EXCEPT !.vec = RemoveAt(c.vec, SlotOf(c, id)),
                !.ghost = <<c.vec[Len(c.vec)]>> \o c.ghost,
                !.slot = IF forget THEN NULL ELSE @,
                !.comm = IF forget THEN NULL ELSE @,
                !.masters = @ \ {id}]

\* Controllers that CleanNonConnectedControllers collects.
NonConnected(c, conn) == ToSet(c.vec) \ conn

\* CleanNonConnectedControllers, up to the event it fires: what it collected
\* is unregistered in the order of the vector.
Purge(c, conn) ==
  LET purged[i \in 0 .. Len(c.vec)] ==
        IF i = 0 THEN c
        ELSE IF c.vec[i] \in conn THEN purged[i - 1]
        ELSE UnRegisterController(purged[i - 1], c.vec[i])
  IN  purged[Len(c.vec)]

-----------------------------------------------------------------------------
(* The master controller                                                   *)

ElectNewMaster(c) ==
  IF c.slot # NULL THEN ActiveId(c)
  ELSE IF c.vec # <<>> THEN c.vec[1]
  ELSE -1

\* SetMasterController calls itself with the elected id when the given one
\* is not registered; it never returns (and the stack overflows) when the
\* elected one is not registered either.
SetMasterController(c, id) ==
  LET registered == ToSet(c.vec)
      elected == ElectNewMaster(c)
  IN  IF id \in registered THEN [c EXCEPT !.masters = {id}]
      ELSE [c EXCEPT !.masters = {elected} \cap registered,
                     !.down = @ \/ elected \notin registered \cup {-1}]

\* GetMasterController elects, and tags, a master when there is none.
GetMasterController(c) ==
  IF c.masters # {} \/ ElectNewMaster(c) = -1 THEN c
  ELSE SetMasterController(c, ElectNewMaster(c))

-----------------------------------------------------------------------------
(* CompositeMultiProcessControllerChanged has two observers.  The server   *)
(* session comes first: it drops what departed clients had registered.     *)
(* Then the collaboration manager, if it still exists, builds the server   *)
(* state (which elects a master) and sends it to every client (which       *)
(* cleans, and fires the event again).                                     *)

\* ReleaseDeadClientSIObjects, for the collaboration manager: nothing when
\* no controller is left.
Collect(c) ==
  LET dead == IF c.vec = <<>> THEN {} ELSE c.registered \ ToSet(c.vec)
  IN  [c EXCEPT !.registered = @ \ dead,
                !.ref = IF Cardinality(dead) < @ THEN @ - Cardinality(dead)
                        ELSE 0]

\* Mutant: the broadcast does not clean up.
AnnounceWithoutPurge(c, conn) == GetMasterController(c)

\* Mutant: no election after the clean-up.
AnnounceElectsBeforePurge(c, conn) ==
  IF NonConnected(GetMasterController(c), conn) = {} THEN GetMasterController(c)
  ELSE Collect(Purge(GetMasterController(c), conn))

\* BroadcastToClients(BuildServerStateMessage()) of the manager.  The clean-up
\* can take its last reference; when that happens under the event of the
\* election, the manager is used after it was released.
Announce(c, conn) ==
  LET elected == GetMasterController(c)
      cleaned == IF NonConnected(elected, conn) = {} THEN elected
                 ELSE Collect(Purge(elected, conn))
  IN  IF cleaned.ref # 0 THEN GetMasterController(cleaned)
      ELSE [cleaned EXCEPT !.released = @ \/ elected.masters # c.masters]

Changed(c, conn) ==
  LET collected == Collect(c)
  IN  IF collected.ref = 0 THEN collected ELSE Announce(collected, conn)

Clean(c, conn) ==
  IF NonConnected(c, conn) = {} THEN c ELSE Changed(Purge(c, conn), conn)

\* NotifyOtherClients = TriggerRMI2All(sendToActiveToo = false): cleans, then
\* dereferences the active slot to know whom to leave out.
NotifyOtherClients(src, c0) ==
  LET c == Clean(c0, connected)
      fails == c.down \/ c.slot = NULL
  IN  /\ composite' = [c EXCEPT !.down = fails]
      /\ last' = [kind |-> "notify", from |-> src,
                  to |-> IF fails \/ c.released THEN {}
                         ELSE {id \in ToSet(c.vec) \cap connected :
                                  id # ActiveController(c)},
                  due |-> connected \ {src}]

\* Send and Receive of the composite go to its own Communicator.
Reply(src, c) ==
  last' = [kind |-> "reply", from |-> src,
           to |-> {c.comm} \ {NULL}, due |-> {src}]

-----------------------------------------------------------------------------
Init ==
  /\ composite = [vec |-> <<>>, ghost |-> <<>>, slot |-> NULL, comm |-> NULL,
                  masters |-> {}, down |-> FALSE,
                  ref |-> 0, registered |-> {}, released |-> FALSE]
  /\ connected = {}
  /\ gone = {}
  /\ nextId = 1
  /\ serving = TRUE
  /\ last = Nothing

\* The event loop runs and the process has not died.
Serving == serving /\ ~composite.down /\ ~composite.released

\* ConnectionCreatedEvent: vtkPVSessionServer registers a new controller.
Connect ==
  /\ Serving
  /\ nextId <= MaxClients
  /\ nextId' = nextId + 1
  /\ connected' = connected \cup {nextId}
  /\ composite' = Changed(RegisterController(composite, nextId), connected')
  /\ last' = Nothing
  /\ UNCHANGED <<gone, serving>>

\* A PUSH of any object but the collaboration manager.
Push(src) ==
  /\ Serving
  /\ src \in connected
  /\ NotifyOtherClients(src, ActivateController(composite, src))
  /\ UNCHANGED <<connected, gone, nextId, serving>>

\* REGISTER_SI of the collaboration manager, which every client sends once,
\* before it pushes or pulls it.
Register(src) ==
  LET c == ActivateController(composite, src)
  IN  /\ Serving
      /\ src \in connected \ composite.registered
      /\ composite' = [c EXCEPT !.registered = @ \cup {src},
                                !.ref = IF @ = 0 THEN 0 ELSE @ + 1]
      /\ last' = Nothing
      /\ UNCHANGED <<connected, gone, nextId, serving>>

\* A PUSH of the collaboration manager naming m as master (NULL: nobody).
\* It creates the server object when there is none; the update itself does
\* not broadcast.  When it changed something (the master, or a name: other)
\* the new server state goes to every client; then, as for every PUSH, the
\* message itself goes to the other clients.
PushCollaboration(src, m, other) ==
  LET c0 == ActivateController(composite, src)
      c1 == [c0 EXCEPT !.ref = IF @ = 0 THEN 1 ELSE @]
      c2 == IF m = NULL THEN c1 ELSE GetMasterController(c1)
      c3 == IF m = NULL THEN c1 ELSE SetMasterController(c2, m)
      changes == other \/ (m # NULL /\ c2.masters # {m})
  IN  /\ Serving
      /\ src \in connected \cap composite.registered
      /\ NotifyOtherClients(src, IF changes THEN Announce(c3, connected) ELSE c3)
      /\ UNCHANGED <<connected, gone, nextId, serving>>

\* PULL, LAST_RESULT and most GATHER_INFORMATION: computed, then answered.
Request(src) ==
  /\ Serving
  /\ src \in connected
  /\ composite' = ActivateController(composite, src)
  /\ Reply(src, composite')
  /\ UNCHANGED <<connected, gone, nextId, serving>>

\* GetMasterController from outside the manager: the election fires the event.
ReadMaster(c) ==
  IF c.masters # {} THEN c ELSE Changed(GetMasterController(c), connected)

\* GATHER_INFORMATION of vtkPVMultiClientsInformation.
GatherClients(src) ==
  /\ Serving
  /\ src \in connected
  /\ composite' = ReadMaster(ActivateController(composite, src))
  /\ Reply(src, composite')
  /\ UNCHANGED <<connected, gone, nextId, serving>>

\* PULL of the collaboration manager, which is referenced meanwhile; when
\* there is none the request comes back as it was.
PullCollaboration(src) ==
  LET c == ActivateController(composite, src)
      read == ReadMaster([c EXCEPT !.ref = @ + 1])
  IN  /\ Serving
      /\ src \in connected \cap composite.registered
      /\ composite' = IF c.ref = 0 THEN c
                      ELSE IF read.ref = 0 THEN [read EXCEPT !.released = TRUE]
                      ELSE [read EXCEPT !.ref = @ - 1]
      /\ Reply(src, composite')
      /\ UNCHANGED <<connected, gone, nextId, serving>>

\* CLOSE_SESSION: drops the active controller, and stops the server when no
\* controller is left.
CloseSession(src) ==
  /\ Serving
  /\ src \in connected
  /\ connected' = connected \ {src}
  /\ composite' =
       Changed(UnRegisterController(ActivateController(composite, src), src),
               connected')
  /\ serving' = (composite'.vec # <<>>)
  /\ last' = Nothing
  /\ UNCHANGED <<gone, nextId>>

\* A client process dies; the requests it had sent may still be read.
ClientCrash(src) ==
  /\ Serving
  /\ src \in connected \ gone
  /\ Cardinality(gone) < MaxCrashes
  /\ gone' = gone \cup {src}
  /\ last' = Nothing
  /\ UNCHANGED <<composite, connected, nextId, serving>>

\* Reading from a dead client fails: its socket is closed, its controller
\* stays registered.  The loop quits when it was the only socket.
ReadError(src) ==
  /\ Serving
  /\ src \in connected \cap gone
  /\ composite' = ActivateController(composite, src)
  /\ connected' = connected \ {src}
  /\ serving' = (connected # {src})
  /\ last' = Nothing
  /\ UNCHANGED <<gone, nextId>>

Next ==
  \/ Connect
  \/ \E src \in Client :
       \/ Push(src)
       \/ Register(src)
       \/ \E m \in 0 .. nextId - 1, other \in BOOLEAN :
            PushCollaboration(src, m, other)
       \/ Request(src)
       \/ GatherClients(src)
       \/ PullCollaboration(src)
       \/ CloseSession(src)
       \/ ClientCrash(src)
       \/ ReadError(src)

Spec == Init /\ [][Next]_vars

-----------------------------------------------------------------------------
(* Types                                                                   *)

TypeOK ==
  /\ composite.vec \in Seq(Client)
  /\ composite.ghost \in Seq(Client)
  /\ composite.slot \in 0 .. MaxClients
  /\ composite.comm \in 0 .. MaxClients
  /\ composite.masters \subseteq Client
  /\ composite.down \in BOOLEAN
  /\ composite.ref \in 0 .. MaxClients
  /\ composite.registered \subseteq Client
  /\ composite.released \in BOOLEAN
  /\ connected \subseteq ToSet(composite.vec)
  /\ gone \subseteq Client
  /\ nextId \in 1 .. MaxClients + 1
  /\ serving \in BOOLEAN

-----------------------------------------------------------------------------
(* Safety                                                                  *)

\* A state change pushed by one client is relayed to every other connected
\* client and not back to its author: vtkCompositeMultiProcessController.h
\* says of TriggerRMI2All that it lets the "server ... broadcast data to all
\* connected client with our without sending to the active client".
NotificationReachesOthers == last.kind = "notify" => last.to = last.due

\* Notifications reach exactly the other clients, and replies (Send on the
\* active controller, for which the client blocks) exactly the one that
\* asked, unless a crashed client preceded the author in the vector (erasing
\* from the vector moves only the slots behind the erased one), or the server
\* used the collaboration manager after its release.
MisdeliveryNeedsEarlierCrash ==
  last.to # last.due =>
    composite.released \/ \E dead \in gone : dead < last.from

\* One crash never takes the server with it by the active slot (forgotten
\* while its client is being served) or by an election (which never ends):
\* that needs a second client that crashed.  The manager is used after it was
\* released, in its own broadcast, only when a client crashed.
DownNeedsTwoCrashes ==
  /\ composite.down => Cardinality(gone) >= 2
  /\ composite.released => gone # {}

\* The server leaves its loop only when the last client has gone, and as soon
\* as it has, whichever way each client went: unless one crashed, and the
\* collaboration manager, whose broadcast cleans up dead controllers before
\* CloseActiveController counts the rest, was collected before the others left.
StopsWithLastClient ==
  /\ ~serving => connected = {}
  /\ Serving /\ connected = {} /\ nextId > 1 => composite.ref = 0 /\ gone # {}

\* Every client whose registration is still there was counted.
AllCounted == composite.ref = Cardinality(composite.registered)

\* Once there is a master there is one, and a registered one, as long as a
\* client is: no close, crash, clean-up or promotion of a departed client
\* leaves the session headless while the collaboration manager lives, and it
\* lives on for as long as a client that registered it stays, if every
\* registration was counted.
MasterNeverLost ==
  [][ (composite.ref > 0 /\ composite.masters # {}) =>
        \/ composite'.vec = <<>>
        \/ composite'.down \/ composite'.released
        \/ /\ Cardinality(composite'.masters) = 1
           /\ composite'.masters \subseteq ToSet(composite'.vec)
        \/ /\ composite'.ref = 0
           /\ AllCounted => composite.registered \cap connected' = {} ]_vars

=============================================================================
