# TLA+ models of ParaView's session layer

This directory keeps TLA+ specifications of the client/server session layer of
ParaView 5.6.1 (`src/ParaViewCore`) and of what is built on it (collaboration,
progress, undo and redo, animation), their TLC configurations, and TLAPS proofs.
Source paths below are relative to `src/ParaViewCore`, those that begin with `Qt`
to `src`.

| Module | Subject | Runs | Proofs |
|---|---|---|---|
| `CompositeController` | connections of a server, deliveries, master election | 2 | `CompositeController_proofs` |
| `IdAllocator`, `GlobalIdChunks` | global ids: what is promised, and the exchange that provides them | 2 | `GlobalIdChunks_proofs` |
| `SIObjectRegistry` | life of server objects | 2 | `SIObjectRegistry_proofs` |
| `Collaboration` | users, master, followed camera on server and clients | 1 | `Collaboration_proofs` |
| `ProgressCleanup` | progress pairs of clients and the answers they wait for | 1 | `ProgressCleanup_proofs` |
| `UndoHistory` | undo and redo | 2 | `UndoHistory_proofs` |
| `AnimationCache` | geometry caches and dirty flags | 1 | `AnimationCache_proofs` |
| `AnimationPlayer` | the play loop | 1 | `AnimationPlayer_proofs` |

## 1. Inventory

A ParaView server (`pvserver`) is single threaded. Its event loop
(`vtkTCPNetworkAccessManager::ProcessEventsInternal`) takes one message of one
socket and runs its handler, with all the events that the handler fires, to the
end. Several clients may be connected (`--multi-clients`). A client is single
threaded too; most of its messages are asynchronous RMIs, and for some it blocks
until the answer comes.

| Component | State | Operations | Hard behaviour | What makes it correct |
|---|---|---|---|---|
| Composite controller (`VTKExtensions/Core/vtkCompositeMultiProcessController`) | vector of controllers, pointer to the active one, its communicator, master flags | register, unregister, activate, clean up, broadcast, elect master | a pointer into a vector from which clean-up erases; elections and clean-ups nested in each other by events | answers go to who asked, notifications to everybody else; one registered master; the server stops with its last client |
| Session server (`ServerImplementation/Core/vtkPVSessionServer`) | share-only cache, observers | PUSH, PULL, REGISTER_SI, UNREGISTER_SI, EXECUTE_STREAM, LAST_RESULT, GATHER_INFORMATION, CLOSE_SESSION | interleaving of clients between two RMIs of one exchange; clients that vanish | each handler works for the client that sent the message |
| Session core (`vtkPVSessionCore`, `vtkPVSessionBase`) | server objects by weak pointer, registrations by client, known clients, next global id, interpreter with a last result | create, register, unregister, collect, execute, ids | two records (map, reference count) of one fact, updated at different times | an object lives exactly as long as some client uses it; ids are unique |
| Collaboration managers (`vtkSICollaborationManager`, `ServerManager/Core/vtkSMCollaborationManager`, `Qt/Components/pqCollaborationPanel`) | users, master, settings, whom to follow, cached cameras; a copy per client | rename, promote, change settings, follow, move the camera, update, announce, relay | each client pushes its copy of the whole state; the server announces and relays; a client's first PULL blocks | there is a master; copies converge; the camera followed is shown |
| Event loop (`ClientServerCore/Core/vtkTCPNetworkAccessManager`) | sockets, abort flag | select, accept and handshake, process, close | order of sockets, failures, blocking handshake | every client is served; the loop ends when it should |
| Client session (`ServerManager/Core/vtkSMSessionClient`) | chunk of ids, state history, `NoMoreDelete` | push, pull, register, ids, disconnect | requests that block, notifications that come meanwhile | what the client believes exists on the server does |
| Remote objects, proxies, locators (`vtkSMRemoteObject`, `vtkSMProxy`, `vtkSMStateLocator`, `vtkSMServerStateLocator`) | global id, session, cached states | create, delete, find, load state | discovery through notifications, re-creation with an old id | one registration per client and object |
| Undo/redo (`vtkUndoStack`, `vtkUndoSet`, `vtkSMUndoStack`, `vtkSMUndoStackBuilder`, `Qt/Core/pqUndoStack`) | two stacks, set under construction, nesting count, flags of excluded sections, cached states | begin, end, exclude, push, undo, redo, clear | nesting; states needed after their object is gone; elements that fail | an undo leads back to the states a section began with, a redo to those it ended with |
| Progress handler (`ClientServerCore/Core/vtkPVProgressHandler`, `vtkPVSession`, `Qt/Core/pqServer`) | enabled flag of each process, count of nested pairs | prepare, progress, clean up | one flag of the server for pairs of several clients; the role of the master wanders | nobody waits for a reply that never comes; progress ends everywhere |
| Satellites (`vtkPVSessionCore`, MPI) | copies of objects | RMI plus matching collective | error paths that skip a collective | root and satellites take part in the same collectives |
| Process module, sessions (`vtkProcessModule`) | session table, active session | register, unregister, activate | events during removal | the active session is registered |
| Properties, domains, links (`ServerManager/Core`) | checked and unchecked values | set, push, link | cascades | linked values agree |
| Caches and view updates (`ClientServerCore/Rendering`: `vtkPVCacheKeeper`, `vtkCacheSizeKeeper`, `vtkPVView`, `vtkPVDataRepresentation`, `vtkGeometryRepresentation`; `ServerManager/Rendering`) | dirty flags of proxies, time stamps, cached frames and their account on each process | mark modified, set time, update, save, clear | flags that stop each other; changes in the middle of a tick; accounts on several processes | what is shown is current; processes decide alike; the limit holds |
| Animation (`Animation`: players, `vtkSMAnimationScene`; `Qt/Core/pqAnimationScene`, `Qt/Components/pqVCRController`) | play state, time of the scene and of its proxy, loop, frame counters | play, stop, go to, set time, tick | events are processed inside every tick | no frame is skipped; the time shown is the scene's; plays end |
| Data delivery (`vtkPVDataDeliveryManager`) | time stamps of delivered data | deliver, redistribute | | not modelled |

Not candidates: VTK extensions (numerical filters, readers, writers), the Qt
application, Catalyst, plugins, Web, and everything vendored (`VTK`,
`ThirdParty`, `Utilities/VisItBridge`). Clients and server share no memory: they
interact by RMIs on FIFO sockets. Components of one process call each other, or
fire VTK events whose observers run inside the call; the important one is
`CompositeMultiProcessControllerChanged`, observed first by the session server,
which releases the objects of departed clients, the server's collaboration manager
possibly among them, and then by that manager, if it is still there: it broadcasts
the server's state, and thereby elects a master and cleans up controllers, which
fires the event again.

`PROJECT.json` lists every hazard at its line with the properties that cover it.

## 2. Modules

### CompositeController

`vtkCompositeInternals` with one client per controller id. `ActiveController` is
a raw pointer into `std::vector<Controller>`, so it is modelled as a *slot
number*: erasing an element moves the later ones down and the slot keeps its
number. A slot beyond the end holds a released smart pointer, but still the `Id`
of its last element (`ghost`), which elections read. That is what a
`std::vector` does with an erased element of this class; reading it is undefined
behaviour in C++, and the model takes the outcome that builds produce.

| TLA+ | Code |
|---|---|
| `composite.vec`, `.slot`, `.comm`, `.masters` | `Controllers`, `ActiveController`, `Communicator`, `IsMaster` flags |
| `composite.down` | the process has followed a null pointer, or recurs without end |
| `connected`, `gone` | sockets the server holds open; client processes that died |
| `composite.ref`, `.registered` | references to the `vtkSICollaborationManager` (0: there is none); clients in `ClientSIRegistrationMap` that registered it |
| `composite.released` | the manager was used after its last reference had gone |
| `Connect`, `CloseSession`, `ReadError` | `CreateController`, `OnCloseSessionRMI`, the error branch of `ProcessEventsInternal` |
| `Register` | REGISTER_SI of the collaboration manager, counted only if it exists |
| `Push`, `PushCollaboration` | PUSH, of anything or of the collaboration manager, which creates it |
| `Request`, `GatherClients`, `PullCollaboration` | the RMIs that are answered; those that read the master, and elect one |
| `Purge`, `Clean` | `CleanNonConnectedControllers` |
| `Changed`, `Collect`, `Announce` | the event: the session server's observer, then, if the manager is left, its own |

A client registers the manager, then pushes it, in RMIs that others' may come
between. A registration that comes before the first push is recorded but not
counted (SIObjectRegistry); when its client leaves it is taken off all the same, and
the manager may go while others use it. From then on the event announces nothing,
elects no master and cleans up no dead controller, until another push creates the
manager again. Building the server's state may elect a master, whose event, inside
it, broadcasts and cleans up; when that takes the last reference, the code goes on
with a released object (`released`). What it does then is undefined, and the model
stops there.

User names and connection ids are abstracted to one bit, `other`: did something
but the master change? (The short circuit of `findChanges` makes no difference to
the result.) ReadError leaves the controller registered, as the code does. `last`
is a history variable: the last delivery, and who should have had it.

### GlobalIdChunks

How clients obtain global ids: `vtkSMSessionClient` hands out ids of a chunk and
fetches the next one with EXECUTE_STREAM (asynchronous) and LAST_RESULT
(answered). The server keeps one `LocalGlobalID` and one interpreter result for
all. A client that waits has in its queue only what it sent before, the stream
and the request for the result, so `backlog`, `stream` and `result` represent the
queue. `Selected` is the order of `SelectSockets`: the first readable socket.

`IdAllocator` is what the callers of `GetNextChunkGlobalUniqueIdentifier` may
count on: each call gives as many consecutive ids as asked for, none of them
reserved or given before. The promise is kept to a client until something spoils
it. `ImplementsAllocator` says that the exchange implements it, with the ids
handed out for `given` and the clients with a disturbed exchange for `spoiled`:
interference between exchanges is the *only* thing that breaks it.

Ids are `vtkTypeUInt32`; the model stays below 2^32 (a server would have to hand
out four billion ids). A result without an id leaves the client's variable
uninitialised, or gives it an unrelated integer: `Unrelated` holds the values to
consider. A client that is quitting is not modelled here. `granted`, `handed` and
`disturbed` are history variables.

### SIObjectRegistry (and MCSIObjectRegistry)

The life of server objects that several clients share. `ref` is the VTK reference
count of the `vtkSIObject` (0: the weak pointer is null), `registered` is
`ClientSIRegistrationMap`, `known` is `KnownClients`, `queue` the RMIs under way.

| TLA+ | Code |
|---|---|
| `Attach`, `Create`, `Update`, `Delete` | `vtkSMRemoteObject::SetSession/SetGlobalID`, `vtkSMProxy::CreateVTKObjects`, `PushState`, `~vtkSMRemoteObject` |
| `Discover`, `HandlePull` | `vtkSMServerStateLocator::FindState`, the PULL handler, and the client's continuation in `NewProxy` (it blocks in between; the registration it sends is a queued RMI of its own) |
| `Leave`, `Crash` | `Disconnect` (`NoMoreDelete`, CLOSE_SESSION); death of the process, which may lose a suffix of what it sent |
| `HandleRegister`, `HandleUnRegister`, `HandlePush`, `HandleClose`, `ReadError` | the handlers of the session server and the event loop |
| `ControllersChanged`, `NotifyAllClients` | the observers of `CompositeMultiProcessControllerChanged`; broadcasts with other causes |

`status` distinguishes a client that died (`dead`), whose socket was closed
(`lost`) and whose controller was cleaned up (`gone`): objects are released only
in the last step. A new id is one that no client holds a state of: uniqueness of
ids, GlobalIdChunks' subject, is assumed here. `held` allows undo to create an
object again under its id. References that compound objects hold on their parts,
share-only messages and MPI satellites are left out. `surplus` is a history
variable: registrations that came before the object.

Clients are interchangeable (no action orders them), so TLC's runs of
MCSIObjectRegistry use symmetry; they check no liveness.

### UndoHistory (and MCUndoHistory)

Undo and redo as the application uses them. Every pushed state passes
`vtkSMSession::UpdateStateHistory`, which caches it and gives the builder the
state before and after. The builder adds an element to the open set, or pushes a
set of one element if no section is open. The GUI thread runs each handler to
its end, so each is one action.

| TLA+ | Code |
|---|---|
| `undoStack`, `redoStack` | `UndoStack`, `RedoStack` of `vtkUndoStackInternal`; `StackDepth` is the member |
| `undoSet`, `monitoring`, `ignoreAll` | `UndoSet`, `EnableMonitoring`, `IgnoreAllChanges` of `vtkSMUndoStackBuilder` |
| `nestedCount`, `ignoreStack` | `NestedCount`, `IgnoreAllChangesStack` of `pqUndoStack` |
| `cache` | the `StateMap` of the session's `vtkSMStateLocator` |
| `state`, `modified` | the remote objects' states; `pqProxy::ModifiedState` |
| `sections` | the calls between which the application is: `BEGIN_UNDO_SET`, `BEGIN_UNDO_EXCLUDE` |
| `ChangeProxy`, `CreateProxy`, `UnRegisterProxy`, `Apply` | a pushed property, `postCreatePipelineProxy`, `UnRegisterProxy`, `pqApplyBehavior::applied`, with what they record |
| `DeletedElsewhere` | `ProcessNotification` of a pipeline state from another client |
| `BeginUndoSet`, `EndUndoSet`, `BeginNonUndoable`, `EndNonUndoable`, `Clear` | the methods of `pqUndoStack` |
| `Undo`, `Redo` | `pqUndoStack::undo/redo` down to the elements (`Process`), with `updateAllModifiedProxies` (`Finish`) |

The Pipeline object's state is the set of registered proxies, so that undoing a
change of it creates and deletes proxies. While a set is processed the objects
that existed before, and those created, are held (`alive`); afterwards only
registered ones live. The state a proxy is created with comes from the set's own
elements, else from the session's cache, as `vtkSMStateLocator::FindState` looks
them up. `multiClients` is chosen at the start: the server's option does not
change while a client is connected. Cameras, widgets and the selection, which
the builder filters, and links and labels are left out.

`ClearDepth` is an assumption on the application: clear() is called in at most
that many open excluded sections. With two, clear() drops the flags of both and
the end of the inner one turns recording on in the outer one; no caller that
does this was found, hence 1. `begun`, `tainted` and the fields `from` and `to`
of a set are history variables: the states when the open section began, the
objects changed where nothing records (excluded sections, an undo in the middle
of a section, an undo that failed), and the states a set leads between.

### Collaboration

Every client's `vtkSMCollaborationManager` keeps a copy of who is in the session,
and pushes all of it when anything changes. The server takes names, master and
settings from it, announces its own state to everybody if that changed something,
and then relays the client's message to the others, as every PUSH. A client hears
two voices, and the second may be stale.

| TLA+ | Code |
|---|---|
| `manager[c]` | `vtkSMCollaborationManager::vtkInternal` of client c: `.users`, `.names`, `.master`, `.follow` (`UserToFollow`), `.settings`, `.state` (`LocalState`, the message last built), `.cached` (`LocalCameraStateCache`), `.shown` (whose camera the view has) |
| `server` | controllers (`.conn`), the registered master, options (`.settings`); of `vtkSICollaborationManager` the `.names`, the users it has a name for (`.named`), references to it (`.ref`, 0: there is none) and clients that registered it (`.registered`) |
| `Connect` | registration of a controller; what the new client sends: REGISTER_SI, its list, still empty, and a PULL |
| `HandleRegister`, `Create`, `Collect` | the references of the server's object: registration, the PUSH that creates it, collection when a client leaves |
| `HandlePull`, `ReceiveReply` | a PULL and its reply, for which the client waits (`awaiting`); without the object the reply is empty |
| `PromoteToMaster`, `SetUserLabel`, `ChangeSettings`, `ChooseUser`, `MoveCamera`, `UpdateUserInformations` | the widgets of `pqCollaborationPanel` and the methods they call |
| `LoadState`, `LoadUser`, `UpdateMaster`, `FollowUser`, `LoadCamera` | the methods of the manager, with the slots that its events reach |
| `HandlePush` | `vtkSICollaborationManager::Push` (`UpdateFromUsers`, `FindsChanges`), its announcement, and the relay by the session server |
| `Elect`, `Announcement` | `GetMasterController`, `BroadcastToClients` |
| `Leave`, `HandleClose` | `CLOSE_SESSION`: the controller goes, its registration is taken off, and the departure is announced if the object is left |

`Starts` says where the model starts: at a new server, or in a session that some
clients have joined (`Settled`, `Joined`), with every number of references that the
order of their registrations and the first PUSH can give. Such a session is reached
from a new server by joining alone; starting in it spares TLC the way.

`relay`, `object` and `decided` are history variables: has the server relayed a list
that was not its own state, and has it lost its object, and has it announced its
state since then; has a user chosen whom to follow or promoted anybody. No client
crashes here: what crashes do to deliveries is CompositeController's subject. Names
have two values, settings one bit, a camera is who moved it.

### ProgressCleanup

A client encloses long work in a pair of calls; only a client that believes to be
the master tells the server, and then blocks at the end until the server answers.

| TLA+ | Code |
|---|---|
| `master`, `serverMaster` | the copies of Collaboration, of which only the master matters |
| `count`, `enabled`, `waiting` | `vtkPVSession::ProgressCount`, `vtkPVProgressHandler`'s `EnableProgress`, a client blocked in `Receive(CLEANUP_TAG)` |
| `serverEnabled` | the server's `EnableProgress` |
| `PrepareProgress`, `CleanupPendingProgress` | the methods of the session and the handler |
| `HandlePrepare`, `HandleCleanup` | the same methods executed at the server from a stream |
| `ReceiveDone`, `ReceiveProgress`, `ProcessRMI` | what a blocked `Receive` reads by tag, and the client's event loop, which leaves notifications alone while a pair is open (`pqServer`) |
| `Request`, `HandleRequest` | any other work, which may report progress |
| `PromoteToMaster`, `PushList`, `HandlePush` | the role of the master wanders |

RMIs have one tag and are buffered while a client waits for another; progress
messages are read by any `Receive`. `twoMasters` is a history variable.

### AnimationCache (and MCAnimationCache)

One source, its representations in one view, on several processes with caches.
`pipe` is a record, since the code's calls are composed: `MarkModified`,
`SetUpdateTime`, `RequestData`, `PostUpdateData` and `Update` take one and return
the next, as the methods of those names change the objects.

| TLA+ | Code |
|---|---|
| `pipe.sourceDirty`, `.marked`, `.viewDirty` | `NeedsUpdate` of the source proxy, `MarkedModified` of representation proxies, `NeedsUpdate` of the view |
| `.updated` | `VTKRepresentationUpdated` |
| `.need` | representations whose VTK object is modified since its last `RequestData` |
| `.viewTime`, `.updateTime` | `ViewTime` of the view, `UpdateTime` of representations |
| `.cache`, `.size`, `.full` | `vtkPVCacheKeeper`, `vtkCacheSizeKeeper` on each process |
| `.applied` | the value key frames last gave the animated property |
| `tick` | the tick under way, and whether `UseCache` is on |
| `BeginTick`, `EndTick` | `vtkSMAnimationScene::TickInternal` before and after events are processed |
| `ModifyParam`, `EditKeyFrames`, `SetVisibility`, `SetCacheGeometryForAnimation`, `StillRender`, `UpdatePipeline` | what users do, between ticks or within one |

`disturbed` and `passed` are history variables: they name the ways in which a
frame may legitimately be older than its pipeline (below, Disagreements). `SetVisibility`
marks the view only: `MarkedModified` of a representation and its cache stay.

### AnimationPlayer

`vtkAnimationPlayer::Play` is one blocking call; the model cuts it at the events
that every tick processes. Variables carry the names of the members (`inPlay`,
`stopPlay`, `frame` for `FrameNo` or `Count`, `inTick`, `cue` for the state of the
scene as a cue). `outer` is the tick that waits while a play started in it goes
on. `SequenceNext`, `TimestepsNext` and `RealtimeNext` are the three
`GetNextTime`; the last picks any later instant since it reads a clock.
`PlayTick`, `PlayPast`, `EndTick`, `EndLoop` are the steps of the loop; `Play`,
`Stop`, `GoToTime`, `SetAnimationTime`, `SetLoop` what users do. `ignored`,
`resumed`, `last` and `ticks` are history variables.

Times are integers, in a unit so small that it stands for the error of a double.
`frameTime` gives the times of the frames as the code computes them: `FrameTimes`
holds the roundings to consider, which keep the frames in order and near their
places (`FrameTimesAssumption`), so that all that rounding decides is whether the
last one comes before the end, at it, or beyond it (with a start of 0, an end of 0.1
and 4 frames it comes beyond). Users may ask for any time (`Instants` need not lie in
the range): the scene does not tick outside its range (`SceneTicks`), but the
property keeps the time.

## 3. Runs

| Run | Bounds | What it shows |
|---|---|---|
| `composite_crash` | 4 connections, 3 crashes | Deliveries go astray only for a client behind a crashed one; one crash never takes the server down; it stops only with its last client, and always then, unless one crashed and the collaboration manager was collected; a master, once elected, is never lost while the manager lives, and it lives as long as a counted registration. |
| `composite_misdelivery` | 3 connections, 1 crash | **Violated**: after client 1 has crashed, a push of client 2 is notified to client 2. |
| `global_id_safety` | 3 clients, 3 requests, chunk 3, sizes 1 and 4, 1 asynchronous RMI each | Ids are shared only by clients with a disturbed exchange; the others get what IdAllocator promises; a waiting client is answered, or earlier sockets keep the server busy for ever. |
| `global_id_shared` | 2 clients, 2 requests | **Violated**: uniqueness of ids. |
| `si_object_life` | 2 clients, a reserved id and another, 3 RMIs in flight each | Counts, orphans, ownership and lifetime of objects that are created, discovered, undone, redone, and registered before they exist. |
| `si_object_dropped` | 2 clients, 1 reserved id | **Violated**: an object that a client registered is deleted when another leaves. |
| `undo_history` | 2 proxies, 2 values, depth 2, 4 changes, 2 nested sections | The history fits the application: the next undo starts from the present states, adjacent sets meet, at most `StackDepth` sets are kept; nothing is recorded in an excluded section; nested sections are one step. |
| `undo_rollback` | 2 proxies, 1 value, 3 nested sections | **Violated**: an undo that fails changes nothing. |
| `collaboration` | 2 clients from a new server and 3 user actions; or a third that joins two, and 2 user actions | While the server has its object there is a connected master; copies converge unless a stale list was relayed, or the object lost, since the last announcement; who follows a user shows that user's camera; an elected master is followed. |
| `progress_cleanup` | 3 clients, pairs nested twice, 4 actions besides clean-ups | Answers come only to who waits; nobody waits in vain unless two clients believed at once to be master; progress ends on every process; clean-ups end. |
| `animation_cache` | 2 processes with data of sizes 1 and 2, 2 representations, 2 times, 2 values, 2 sets of key frames, limit 3 | Processes cache alike; the account is exact and exceeds the limit by one update at most; frames and views are current, with three named exceptions. |
| `animation_player` | 5 frames from 0 to 40, time steps 0, 10, 30, 40, 2 frames per time step, 8 times to ask for, of which one before the start and one beyond the end; the last frame before the end, at it, beyond it | The time of the scene is the time shown, unless one was ignored or lies outside the range; no frame is skipped but a last one beyond the end and two by a resumed sequence; plays end. |

Why the bounds suffice. A stale slot of the composite controller needs one erased
controller before the active one, a null one two dead clients: four connections
give both with clients to spare on either side. An id exchange interferes with
another only while it is between its two RMIs; three clients allow a disturbed, a
disturbing and an undisturbed one at once; a chunk of 3 with sizes 1 and 4
exercises the exact-fit, the remainder and the larger-than-chunk cases that 500, 1
and 1 + the number of ports do. Ids of objects interact in the registry only
through the queues; two ids and queues of three hold the pairs that the code sends
(register, define) interleaved with another object's. The undo run bounds only the
changes to objects and the nesting; undo and redo may come any number of times, at
any point. Four changes with a stack of depth 2 drop sets at the bottom, put
several elements in one set, and create, change and delete a proxy that a later
undo creates again; two levels nest each kind of section in each. In Collaboration
two actions by two users, with a third client that joins meanwhile, give every
crossing of two lists, of a list and a promotion, and of either with a PULL; three
clients are needed for a relay to a third party. Two clients from a new server
register before and after the first PUSH in every order, so that the object is lost
when one of them leaves (one action) while the other goes on (two more): a PULL
without an object, and a PUSH that brings it back, need no third. Four actions of three clients
contain two promotions with a pair each, the shortest way to two masters; two
clients with seven actions were run once and gave nothing else. Two processes of
different size are what deciding alone takes; a limit of 3 lies between one and
two updates of the larger one; two of everything else tell the right frame from a
wrong one. In AnimationPlayer the time steps are uneven and lie on and off the
frames of the sequence, a time (5, 35) lies between both, one (-5, 50) on either side
of the range, and every mode and each rounding is chosen at the start.

The invariants and most action properties are proved for every bound besides
(section 4).

`CHECK_DEADLOCK FALSE` is used where the system really stops (the server with its
last client, a session in which nobody acts any more) and where bounded requests
run out. The animation runs check for deadlock.

Symmetry is used in `si_object_life`, `undo_history` and `animation_cache`, where
no action orders or names the elements, and which check no liveness.

### Fairness

*global_id_safety*: weak fairness of the server as a whole, since its loop never
stops while a socket is readable, and of `SendLastResult` and `ReceiveReply` of each
client, since both happen inside one call, without the user. None among clients:
the first readable socket wins, and that is why the property admits the case in
which earlier clients keep the server busy.

*progress_cleanup*: the server goes on reading each client's connection, and a
client that waits goes on receiving; both are loops without a user. Whether work
and users go on is up to them. (The server's fairness to each client is more than
the order of its sockets gives in general: it excludes the starvation that
`global_id_safety` shows, which is not the question here.)

*animation_player*: the loop of `Play` runs by itself, and the processing of the
events of a tick ends. Users may press Stop, but need not.

Undo and redo, collaboration and caches move when a user does something: no
fairness is justified, and they have no liveness properties.

### Disagreements of code and documentation

The four violated properties quote a comment of the source each
(`PROJECT.json`, `findings`): notifications that reach their author, ids that are
handed out twice, objects that die although a client uses them, and an undo that
fails half way and rolls back the wrong half: `vtkUndoSet::Undo` redoes the
elements before the failed one, which it had not undone, and leaves those after
it undone.

Other places where the code does less than a comment, a test or the obvious
expectation says. They appear as named exceptions in properties that hold:

- *Composite controller.* The comment at `vtkSICollaborationManager.cxx:139` has every
  departure announced. If the manager was collected in the same event
  (`vtkPVSessionServer.cxx:303`, which runs first), nothing is announced, nobody is
  elected, and the controller of a client that crashed stays: the server then does
  not stop when the last client closes its session (`vtkPVSessionServer.cxx:98`).
  `StopsWithLastClient` and `MasterNeverLost` except that, and say when it cannot
  happen. The manager may also be collected while it builds its state, and used on
  (`released`).
- *Collaboration.* After a promotion the new master is followed only until the
  promoting client's list is relayed, which still flags the user followed before
  (`vtkSMCollaborationManager.cxx:78`, against the comment at
  `pqCollaborationPanel.cxx:310`): `NewMasterIsFollowed` excludes promotions. A
  relayed list may be stale, and nothing corrects it until the next announcement
  (`vtkPVSessionServer.cxx:555`): `CopiesAgreeUnlessStaleRelay`. A session that has
  lost its object hears of no departure and has no master once he leaves, until
  somebody pushes: `object` is an exception beside `relay`. `ShowsFollowedCamera` needs
  that the object was never lost, even if it was announced again: a client whose PULL
  was answered with nothing receives cameras before it knows of anybody, and
  `UpdateMaster`, which then follows the master, does not show the one he has sent
  (`vtkSMCollaborationManager.cxx:78`). That takes four clients, so no run of TLC
  shows it; the proof needs the condition for this reason. Renaming a user
  rebuilds a master's message with whom he follows, and so shares a choice that
  was made earlier without being the master (`vtkSMCollaborationManager.cxx:93`).
- *Progress.* Two clients that both believe to be the master, because a stale list
  told one of them, may overlap their pairs; the second clean-up finds the flag
  reset and is not answered (`vtkPVProgressHandler.cxx:244`), and its client waits
  for ever.
- *Caches.* A property changed in the middle of a caching tick does not clear the
  cache, since `UseCache` is on (`vtkGeometryRepresentation.cxx:532`; the test
  `AnimationCache.py:107-108` changes it between ticks only); the frames of before
  stay until something else is modified. Edited key frames mark no representation.
  A hidden representation is not updated, so `MarkedModified` remains set
  (`vtkSMRepresentationProxy.cxx:207`) and hides further changes from its cache.
- *Playing.* Play pressed in the tick of a change of time by hand runs a play
  inside that tick, against the assertion at `vtkSMAnimationScene.cxx:439`. A
  sequence resumed at a time goes on with the frame nearest to it plus two
  (`vtkSequenceAnimationPlayer.cxx:69-74`), where the comment at lines 48-49 says "the
  frame NEXT to the one on which the animation WAS paused": resumed at frame k it
  skips k + 1; resumed between two frames, when the nearest is the later one, it
  skips that one and the next (`Forgone`). The last frame is not played when its time
  is computed to lie beyond the end (line 80 there, `vtkAnimationPlayer.cxx:97`). A
  time asked for in a tick is ignored by the scene but kept by its property
  (`pqAnimationScene.cxx:460-464`), and so is one outside the range
  (`vtkAnimationCue.cxx:87, 98`). A play in real
  time with an end of zero or less never ends (`vtkRealtimeAnimationPlayer.cxx:71`).

## 4. Proofs

The modules `*_proofs` hold for every value of the constants that satisfies the
named assumptions of their modules.

*GlobalIdChunks.* `IInv` says what an undisturbed exchange has reached at each
stage. Between stream and answer, the last result is the first id of a chunk just
granted to it, because whoever else ran something there would have disturbed it;
after the answer, the reply is that id. Chunks granted to different clients are
disjoint since all lie at or below `LocalGlobalID`, and each new one above.
`SharingNeedsDisturbance` and `NextIdIsFresh` alone are not inductive: they say
nothing of the exchange in progress. From `IInv` follow `TypeCorrect`,
`SharingIsDisturbance`, `FreshIds` and, when no exchange is ever disturbed,
`UndisturbedIdsUnique`. `Implements` is the refinement: a step that hands out ids
is a `Give` of IdAllocator (`GiveAny` for a client with a disturbed exchange), one
that disturbs somebody a `Spoil`, every other a stutter.

*SIObjectRegistry.* `RefsAreRegistrations` is not inductive on its own: an object
starts with one reference *because* its creator has registered it, which is true
when the definition is read only because the registration was sent before it on
the same FIFO. `QInv` states that for each position of each queue: every
definition and unregistration finds its id registered when its turn comes. The
proof has one lemma for each way a queue changes (append, take, truncate), the
counting facts on sets of registrants (`OneMore`, `OneLess`,
`CollectKeepsCounts`), and one step per action. `NoOrphans` completes the
invariant: a client whose controller is gone sends nothing more, and what it
registered is collected by the action that removes the controller. The action
property `UsedObjectsStayWithoutSurplus` follows from the counts before and after
a step.

*CompositeController.* The lemmas follow the operators, since events nest elections
in clean-ups and clean-ups in elections: `Fine` says what every state of the
controller is (the vector in the order of the ids, the slot a cell that holds or
has held a controller, one master at most), and `Follows(c, conn, u)` what any
nesting of them keeps from `c` to `u`: whom the slot serves unless an earlier client
crashed, and that the server runs if at most one controller is to be removed and it
is not the active one (`Ready`). `Sound` adds how the vector relates to the clients
connected and gone, and that the Communicator is that of the active controller
unless a client that crashed precedes it. None of the promises is inductive
without it. Of the collaboration manager, `Tidy` says that only registered
controllers have a registration of it while there is a controller, and `Balanced`
that it has at most as many references as registrations, so that whoever collects it
has run out of registrations or was not counted. `MasterStays` is the action property
that a master once elected is not lost, for which `Headed` (there is a master if
anybody is registered and there is a manager) is kept by every operation;
`Accounts` carries through any nesting of events that the references fall with the
registrations, which is why the manager outlives a counted one.

*UndoHistory.* `StackSteps` shows that a step leaves the two stacks, clears them,
moves one set between them, or pushes one, whatever it does to the objects; so
three theorems do not depend on what undoing an element does. `Bounded` follows since
only a push grows the total, and trims first. For `OneStep`, `SectionInv` ties
`NestedCount` to the number of open undo sections and `EnableMonitoring` to
`NestedCount`: an isolated change pushes only when nobody monitors, and the end of
a section only when it was the last. For `NothingExcluded`, `ExcludedInv` says that
`IgnoreAllChangesStack` holds FALSE for the outermost excluded section and TRUE for
those in it, or, after a `clear()` in one, only the TRUE of those in it; hence
`IgnoreAllChanges` is set as long as one is open. That is why
`ClearDepth <= 1` is a hypothesis of the theorem, and the property fails beyond it.
`TypeCorrect` does depend on what undoing does: `Processing` says what one element
does, and `RunInduction` carries what every element keeps through any number of
them in any order, whether they fail or not, by the well-founded order of the
numbers (a least element at which it fails does not exist). That exactly the
registered proxies have a state is the part of it that needs the proxies held until
the end of an undo (`alive`). `NoStateAssumption` says that "no state" is not one of
the states.

`HistoryStaysCurrent` needs more than that neighbouring sets agree: undoing must
lead where the set says. `Chronicle` is that invariant, over the timeline of the sets
to undo and to redo. Each set, and the open one, *tells* of the states it begins and
ends with (`Tells`): the first element of an object has its state before, the last
one the state after, an object without element has not changed, and a proxy that is
updated is there by then, whichever way one reads. A proxy that a set deletes
without updating it is still in the session's cache as it was (`Kept`), or undoing
could not create it again. No proxy is created in two sets or deleted in two
(`Once`): ids are not used again, and this is why a change in one set does not
disturb what another one must find in the cache. `RunReaches` gives the last
element's say about each object, `UndoLeads` and `RedoLeads` read the set in the
order in which it is processed, and `Arriving` concludes. The steps are then
`RecordingTells` (one more element in the open set), `PushedOn` and `Forgotten` (a
set joins, the oldest leave), `BackOutside` and `ForthOutside` (a set moves),
`BackWithin` and `ForthWithin` (a set moves in the middle of a section, or half of
it), and `BehindKeeps`: what happens behind the back of the stack only adds objects
to those left out (`tainted`), and what is said of the others stays true. `HInv` is
stated for sessions of one client only, as the property is; with several the
builder records nothing.

*Collaboration.* `MasterStays` is about the server and the order of what clients
send. While the server has its object, a departure is followed by an announcement,
hence by an election, and so is a connection; when it has none, the PUSH that creates
it may leave it without a master, but that PUSH is a list of nobody, which its client
follows by a PULL, and answering that elects one. What lists contain does not matter
otherwise: the server replaces a master who is not connected by the author of the
list. `IInv` says that a list of nobody is followed by a PULL (`Sent`), and, as long
as the object has not been lost, which RMIs may precede which in a queue
(`CreatesFirst`), who waits for a reply, and when a master may be missing.

The other theorems are about what the lists say. Loading a list is a fold over its
users in the code; the model writes it as a recursive function, and the lemmas on
loading show what its last value is by induction over the position in the list
(again by the least counterexample, since the library's induction theorems cannot be
used here). `TInv` holds the types: a list that comes from the server names every
user once, a copy has a name for each of its users. `NewsArrives` (`CInv`) is the
inductive form of `CopiesAgree`: unless a stale list has been relayed, or the object lost,
since the server last spoke, each client either has a message under way that tells the state
of the server, or has loaded it, and what it has changed since is under way in the
other direction. For `CameraIsShown` (`SInv`), a list that says whom to follow comes
after one that names that master, at each place of each queue; so the camera kept
for the master is the one shown. `NInv` of `MasterIsFollowed` says that, as long as
nobody chose whom to follow, every list anywhere names the master, nobody, or
somebody who has left: none that is under way can take a client back.

*ProgressCleanup.* A client that has sent its prepare keeps believing to be the
master until its clean-up is answered, because it handles no notification
meanwhile. So a pair that is open at the server belongs to somebody who believes
to be the master; if that can be only one client, no other pair can reset the flag
before its clean-up comes (`WaitsAreAnswered`). `IInv` ties the flag to open pairs
and clean-ups under way (`ServerInv`), orders prepare and clean-up in each queue
(`QueueInv`), gives each waiting client one answer (`WaitInv`, `DoneInv`), and says
that whatever enables a client is followed by what disables it (`EnabledInv`). The
theorems `AnswersAreAwaited` and `AllProgressEnds` hold however many masters there
are.

*AnimationCache.* `ShownIsCurrent` and `FramesAreCurrent` depend on what each dirty
flag says of those below it: a dirty source has marked all its representations, a
marked one needs an update; what needs no update shows, and what is not marked
caches, current data; a marked representation has an empty cache between ticks,
unless it is among the exceptions. These are the conjuncts of `IInv`. The lemmas
follow the operators (`MarkingIsSafe`, `PassingTimeIsSafe`, `RequestingIsSafe`,
`FillingIsSafe`, `UpdatingIsSafe`: what each keeps of a record that satisfies the
invariant, for any time, data and caching), then one per action.
`ProcessesDecideAlike` and `CacheIsBounded` come from the same invariant.
For `AccountHolds` the frames of a process are counted as a set of pairs of a
representation and a time: what clearing subtracts is the size of the frames it
removes, and what filling adds that of the new ones, because the caches filled were
empty or lacked that time.

*AnimationPlayer.* While a tick of a play processes events, the current time of the
player is the one ticked last (`Ticked`); between two ticks it is the next time,
behind which nothing is left out (`Between`); before the first it is where the loop
starts (`Started`). Only the loop changes these, since a scene in a tick ignores
every other time. `NextTime` says what each player returns: for a sequence that
`FrameNo` and the current time stay in step, for time steps that the least later one
exists (the set is finite). `Rounded` says what any rounding of the frames leaves
true: the frames are in order, the one nearest to frame n is n, and those after the
last lie beyond the end. A time outside the range changes the state of the cue only,
which no loop relies on (`OutsideTime`). `NothingIsSkipped` is an action property: a
step that ticks, or ends a loop, has `Between` before it.

What TLAPS cannot do here stays with TLC: liveness (`AnsweredUnlessCrowdedOut`,
`CleanupEnds`, `PlayEnds`). Every other property of the passing runs is proved.

## 5. Not modelled

The repository has five and a half million lines, of which nearly all are vendored
libraries, VTK, readers, filters, widgets and their data: sequential or numerical
code without interaction. The models cover the parts in which several clients,
processes or event handlers meet; `PROJECT.json` lists the others, with status
`not_modelled`, and why. What the modelled components leave out:

- *Server*: satellites, share-only messages and their cache, split data and render
  servers, the handshake, contents of states.
- *Collaboration*: crashes (see CompositeController), chat and mouse pointers, which
  are only relayed, contents of cameras, the panel's widgets.
- *Progress*: crashes, the barrier of MPI servers, message events, two servers.
- *Undo*: cameras, widgets, selections, links, labels, several sessions.
- *Caches*: several views, representations in representations, pipelines of several
  filters, delivery of data, cached data that grows after it was measured, a limit that
  is lowered in the session (`CacheLimit` is a constant; the code then keeps what is
  cached until the next clearing).
- *Playing*: the playback window; a change of mode or range during a play (the
  player of the new mode then reads members that nothing has set,
  `vtkCompositeAnimationPlayer.cxx:84`, `vtkSequenceAnimationPlayer.cxx:75`); saving
  of animations; a play inside a play's tick, which the code refuses, and more than
  one inside another tick.

Some suspicious code has no promise to check it against: the share-only cache keeps
one message per id for ever (`vtkPVSessionServer.cxx:269`); the garbage collector of
the state locator is never started (`vtkSMStateLocator.cxx:306`).

## 6. Plan

Done: the modules of section 2. Left, in this order:

1. A shared object with a set of users as an abstract specification, implemented by
   SIObjectRegistry without surplus.
2. `ServerLifecycle`: CompositeController composed with SIObjectRegistry, so that
   clean-up, collection and shutdown are those of the code at once.
3. `UndoHistory`: labels, links, and the elements that hold one property.
4. `SatelliteCollectives`; `Connections`: handshake, abort flag, accepting during
   service; `SessionTable` (process module).
