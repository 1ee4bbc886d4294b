----------------------------- MODULE Collaboration -----------------------------
(***************************************************************************)
(* Who is in a multi-client session, who is its master, and whose camera   *)
(* one follows.  Every client keeps a copy of this in its                  *)
(* vtkSMCollaborationManager; the server's is spread over its controllers, *)
(* its options and vtkSICollaborationManager.                              *)
(*                                                                         *)
(* A client that changes anything pushes the whole of its copy.  The       *)
(* server takes names, master and settings from it, tells everybody its    *)
(* own state if that changed something, and then, as for every PUSH,       *)
(* relays the message of the client to the others.  So a client hears two  *)
(* voices: the server's, and other clients' views, which may be stale.     *)
(*                                                                         *)
(* The server's object lives as long as it is referenced: once for the     *)
(* push that created it, once for every client that registered it while it *)
(* existed.  Without it the server announces nothing.                      *)
(*                                                                         *)
(* No client crashes here (see CompositeController).  Connections between  *)
(* client and server are FIFO; a client that waits for the reply of a PULL *)
(* buffers the notifications that come first.                              *)
(***************************************************************************)
EXTENDS Integers, SequencesExt

CONSTANTS
  NClients,  \* bound: clients that ever connect; their ids are 1 .. NClients
  MaxOps,    \* bound: what users do, connecting aside
  Starts     \* where the model starts: how many of the clients have joined
             \* (settled), how many will ever (clients), what users have done

ASSUME NClientsAssumption == NClients \in Nat \ {0}
ASSUME MaxOpsAssumption == MaxOps \in Nat
ASSUME StartsAssumption ==
  Starts \subseteq [settled : 0 .. NClients, clients : 0 .. NClients,
                    ops : 0 .. MaxOps]

VARIABLES
  manager,   \* the clients' vtkSMCollaborationManager::vtkInternal
  server,    \* conn, master, settings; of its vtkSICollaborationManager: names,
             \* named (users it has a name for), ref (references to it; 0:
             \* there is none), registered (clients that registered it)
  toServer,  \* RMIs each client has sent
  toClient,  \* notifications and replies for each client
  unborn,    \* clients that have not connected yet
  awaiting,  \* clients that wait for the reply of a PULL
  ops,       \* what users have done so far
  relay,     \* history: has the server relayed a list that was not its own
             \* state? "fresh": never, "healed": not since it last announced
             \* its state, "stale": it has
  object,    \* history: has the server lost its object while clients were
             \* connected? "fresh": never, "healed": not since it last announced
             \* its state, "stale": it has
  decided    \* history: has a user chosen whom to follow, or promoted one?

vars ==
  <<manager, server, toServer, toClient, unborn, awaiting, ops, relay, object,
    decided>>

Client == 1 .. NClients
NULL == 0
Stop == -1             \* FollowUser(-1): the user moves the camera
Name == {"User", "Renamed"}
Unnamed == ""

-----------------------------------------------------------------------------
(* Messages                                                                *)

Flagged(id, users) == IF id \in users THEN id ELSE NULL

\* A list of ClientInfo.  settings stands for disable_further_connections and
\* connect_id, which every ClientInfo carries and the code treats alike.
UserList(users, names, master, follow, settings) ==
  [users |-> users,
   names |-> [u \in Client |-> IF u \in users THEN names[u] ELSE Unnamed],
   master |-> Flagged(master, users), follow |-> Flagged(follow, users),
   settings |-> users # {} /\ settings]

NoUsers == UserList({}, [u \in Client |-> Unnamed], NULL, NULL, FALSE)

Users(list) == [kind |-> "users", list |-> list]
Reply(list) == [kind |-> "reply", list |-> list]
Camera(c) == [kind |-> "camera", from |-> c]
Request(kind) == [kind |-> kind]

-----------------------------------------------------------------------------
(* The client's copy                                                       *)

\* A manager as its constructor leaves it.
NewManager ==
  [users |-> {}, names |-> [u \in Client |-> Unnamed], master |-> NULL,
   follow |-> NULL, settings |-> FALSE, state |-> NoUsers,
   cached |-> {}, shown |-> NULL]

\* UpdateState: rebuilds the message, and decides whom to follow.
UpdateState(k, follow) ==
  [k EXCEPT !.follow = follow,
            !.state = UserList(k.users, k.names, k.master, follow, k.settings)]

\* FollowUser: the master's choice goes into the message.  Then the last
\* camera received from that user is shown, now or (PendingCameraUpdate)
\* at the end of the notification, in which case the last one wins.
FollowUser(k, me, id) ==
  LET chosen == IF k.master = me THEN UpdateState(k, id)
                ELSE [k EXCEPT !.follow = id]
  IN  IF k.follow = id THEN k
      ELSE IF id \in k.cached THEN [chosen EXCEPT !.shown = id]
      ELSE chosen

\* Mutant: nobody follows the new master.
UpdateMasterAlone(k, me, id) ==
  IF k.master = id THEN k
  ELSE UpdateState([k EXCEPT !.master = id],
                   IF k.follow = NULL THEN id ELSE k.follow)

\* UpdateMaster, with the panel's slot onNewMaster, which follows him.
UpdateMaster(k, me, id) ==
  IF k.master = id THEN k
  ELSE FollowUser(UpdateState([k EXCEPT !.master = id],
                              IF k.follow = NULL THEN id ELSE k.follow),
                  me, id)

UpdateUserName(k, id, name) ==
  IF k.names[id] = name THEN k
  ELSE UpdateState([k EXCEPT !.names[id] = name], k.follow)

\* SetDisableFurtherConnections and UpdateConnectID.
UpdateSettings(k, settings) ==
  IF k.settings = settings THEN k
  ELSE UpdateState([k EXCEPT !.settings = settings],
                   IF k.follow = NULL THEN k.master ELSE k.follow)

\* One ClientInfo of a list; a follow_cam flag reaches the panel's slot
\* followUserCamera.
LoadUser(k, me, list, id) ==
  LET named == UpdateUserName(k, id, list.names[id])
      mastered == IF id = list.master THEN UpdateMaster(named, me, id) ELSE named
      set == UpdateSettings(mastered, list.settings)
  IN  IF id = list.follow THEN FollowUser(set, me, id) ELSE set

\* The entries of a list, in the order of the ids, one after the other.
LoadUsers(k, me, list) ==
  LET loaded[n \in 0 .. NClients] ==
        IF n = 0 THEN k
        ELSE IF n \in list.users THEN LoadUser(loaded[n - 1], me, list, n)
        ELSE loaded[n - 1]
  IN  loaded[NClients]

\* Mutant: the list is extended, never cleared.
LoadStateKeepsUsers(k, me, list) ==
  LoadUsers([k EXCEPT !.users = @ \cup list.users], me, list)

\* LoadState of a list of users; the same list from the client's own pull or
\* from a notification, in which whatever the slots push stays local.
LoadState(k, me, list) ==
  LET loaded == LoadUsers([k EXCEPT !.users = list.users], me, list)
  IN  IF list.users = {} THEN k
      ELSE IF list.follow = NULL THEN loaded
      ELSE [loaded EXCEPT !.follow = list.follow]

\* Mutant: the camera is kept for later even if its user is followed.
LoadCameraOnlyStores(k, from) == [k EXCEPT !.cached = @ \cup {from}]

\* LoadState of another user's camera: StoreCameraByUser, UpdateCamera.
LoadCamera(k, from) ==
  [k EXCEPT !.cached = @ \cup {from},
            !.shown = IF k.follow = from THEN from ELSE @]

-----------------------------------------------------------------------------
(* The server                                                              *)

\* Mutant: only the active client can be elected.
ElectActiveOnly(s, active) ==
  IF s.master # NULL \/ active \notin s.conn THEN s
  ELSE [s EXCEPT !.master = active]

\* GetMasterController: elects the active client, else the first one.
Elect(s, active) ==
  IF s.master # NULL \/ s.conn = {} THEN s
  ELSE [s EXCEPT !.master = IF active \in s.conn THEN active ELSE Min(s.conn)]

BuildServerState(s) == UserList(s.conn, s.names, s.master, NULL, s.settings)

\* What an event or a change makes the server say to every client.  An
\* election fires the event once more, hence the second copy.
Announcement(s, active) ==
  LET list == BuildServerState(Elect(s, active))
  IN  IF s.ref = 0 THEN <<>>
      ELSE IF s.master = NULL THEN <<Users(list), Users(list)>>
      ELSE <<Users(list)>>

\* The server once it has built its state: everybody in it has a name.
Stated(s, active) == [Elect(s, active) EXCEPT !.named = @ \cup s.conn]

\* The server once it has made an announcement.
Announced(s, active) == IF s.ref = 0 THEN s ELSE Stated(s, active)

\* REGISTER_SI counts only when the object exists.
RegisterSI(s, c) ==
  [s EXCEPT !.registered = @ \cup {c}, !.ref = IF @ = 0 THEN 0 ELSE @ + 1]

\* A PUSH creates the object, with no names, when there is none.
Create(s) ==
  IF s.ref # 0 THEN s
  ELSE [s EXCEPT !.ref = 1, !.names = [u \in Client |-> "User"], !.named = {}]

\* ReleaseDeadClientSIObjects when c has left: its registration is taken off,
\* counted or not; nothing when nobody is left.
Collect(s, c) ==
  IF s.conn = {} \/ c \notin s.registered THEN s
  ELSE [s EXCEPT !.registered = @ \ {c}, !.ref = IF @ = 0 THEN 0 ELSE @ - 1]

\* Mutant: a master who has left is not noticed.
UpdateFromUsersTrusts(s, author, list) ==
  IF list.master = NULL THEN s
  ELSE [s EXCEPT !.master = list.master, !.settings = list.settings]

\* UpdateFromUsers.  Only the entry of the master carries settings.  A
\* master who has left is replaced by the author, the active client.
UpdateFromUsers(s, author, list) ==
  LET named == [s EXCEPT !.named = @ \cup list.users,
                         !.names = [u \in Client |->
                  IF u \in list.users THEN list.names[u] ELSE s.names[u]]]
  IN  IF list.master = NULL THEN named
      ELSE [named EXCEPT
              !.master = IF list.master \in s.conn THEN list.master ELSE author,
              !.settings = list.settings]

\* What UpdateFromUsers returns.
FindsChanges(s, author, list) ==
  \/ \E u \in list.users : u \notin s.named \/ s.names[u] # list.names[u]
  \/ /\ list.master # NULL
     /\ \/ Elect(s, author).master # list.master
        \/ s.settings # list.settings

\* A relayed list that is not what the server would have said.
IsStale(s, msg) ==
  /\ msg.kind = "users"
  /\ msg.list.users # {}
  /\ [msg.list EXCEPT !.follow = NULL] # BuildServerState(s)

\* What a history remembers once the server has said something.
Healed(history, said) ==
  IF history = "stale" /\ said # <<>> THEN "healed" ELSE history

-----------------------------------------------------------------------------
\* The server when clients 1 .. n have joined, one after the other.  The first
\* one created the object; the registrations of others that did not precede
\* that were counted: ref references in all.
Settled(n, ref) ==
  [conn |-> 1 .. n, names |-> [c \in Client |-> "User"],
   master |-> IF n = 0 THEN NULL ELSE 1, settings |-> FALSE,
   named |-> 1 .. n, ref |-> ref, registered |-> 1 .. n]

References(n) == IF n = 0 THEN {0} ELSE 1 .. n

\* The first n clients then have heard the server's state when they joined
\* and as each later one connected.
Joined(c, n) ==
  LET heard[i \in 0 .. n] ==
        IF i < c THEN NewManager
        ELSE LoadState(heard[i - 1], c, BuildServerState(Settled(i, i)))
  IN  heard[n]

Init ==
  /\ \E start \in Starts :
       /\ manager = [c \in Client |-> Joined(c, start.settled)]
       /\ \E ref \in References(start.settled) :
            server = Settled(start.settled, ref)
       /\ unborn = start.settled + 1 .. start.clients
       /\ ops = start.ops
  /\ toServer = [c \in Client |-> <<>>]
  /\ toClient = [c \in Client |-> <<>>]
  /\ awaiting = {}
  /\ relay = "fresh"
  /\ object = "fresh"
  /\ decided = FALSE

\* The user of c can do something: c has joined and has not left.
Active(c) ==
  /\ c \in server.conn \ awaiting
  /\ \A i \in DOMAIN toServer[c] : toServer[c][i].kind # "close"

\* The server announces, then relays what `author` pushed (<<>>: nothing).
Speak(s, active, announces, author, relayed) ==
  LET said == IF announces THEN Announcement(s, active) ELSE <<>>
      now  == IF announces THEN Announced(s, active) ELSE s
      others == now.conn \ {author}
  IN  /\ server' = now
      /\ toClient' = [c \in Client |->
                        IF c \notin now.conn THEN <<>>
                        ELSE IF c = author THEN toClient[c] \o said
                        ELSE toClient[c] \o said \o relayed]
      /\ relay' = IF others # {} /\ \E m \in ToSet(relayed) : IsStale(now, m)
                  THEN "stale" ELSE Healed(relay, said)
      /\ object' = IF s.ref = 0 /\ server.ref # 0 THEN "stale"
                   ELSE Healed(object, said)

\* A client connects: its controller is registered, which is announced.  Its
\* manager registers itself, and the application makes the session active:
\* UpdateUserInformations pushes the list, still empty, and pulls.  The server
\* has stopped when all that ever connected have left.
Connect(c) ==
  /\ c \in unborn
  /\ server.conn # {} \/ c = 1
  /\ \A b \in unborn : c <= b
  /\ unborn' = unborn \ {c}
  /\ Speak([server EXCEPT !.conn = @ \cup {c}], c, TRUE, NULL, <<>>)
  /\ toServer' = [toServer EXCEPT ![c] =
                   <<Request("register"), Users(NoUsers), Request("pull")>>]
  /\ awaiting' = awaiting \cup {c}
  /\ UNCHANGED <<manager, ops, decided>>

\* The reply of the pull: notifications that came before stay buffered.
ReceiveReply(c) ==
  /\ c \in awaiting
  /\ \E i \in DOMAIN toClient[c] :
       /\ toClient[c][i].kind = "reply"
       /\ manager' = [manager EXCEPT ![c] = LoadState(@, c, toClient[c][i].list)]
       /\ toClient' = [toClient EXCEPT ![c] = RemoveAt(@, i)]
  /\ awaiting' = awaiting \ {c}
  /\ UNCHANGED <<server, toServer, unborn, ops, relay, object, decided>>

\* Something a user does: the client's copy changes and may be pushed.
Does(c, k, pushed) ==
  /\ Active(c)
  /\ ops < MaxOps
  /\ ops' = ops + 1
  /\ manager' = [manager EXCEPT ![c] = k]
  /\ toServer' = [toServer EXCEPT ![c] = @ \o pushed]
  /\ awaiting' = IF Request("pull") \in ToSet(pushed) THEN awaiting \cup {c}
                 ELSE awaiting
  /\ UNCHANGED <<server, toClient, unborn, relay, object>>

\* The panel lets the master promote a user of its list, itself included.
PromoteToMaster(c, id) ==
  LET k == UpdateMaster(manager[c], c, id)
  IN  /\ manager[c].master = c
      /\ id \in manager[c].users
      /\ Does(c, k, <<Users(k.state)>>)
      /\ decided' = TRUE

\* The panel lets users rename themselves.
SetUserLabel(c, name) ==
  LET k == UpdateUserName(manager[c], c, name)
  IN  /\ c \in manager[c].users
      /\ manager[c].names[c] # name
      /\ Does(c, k, <<Users(k.state)>>)
      /\ UNCHANGED decided

\* DisableFurtherConnections and SetConnectID, shown to the master only; the
\* connect-id is pushed whenever its editing ends, changed or not.
ChangeSettings(c, settings) ==
  LET k == UpdateSettings(manager[c], settings)
  IN  /\ manager[c].master = c
      /\ Does(c, k, <<Users(k.state)>>)
      /\ UNCHANGED decided

\* UpdateUserInformations: the user switched between servers and came back.
\* A client that knows of nobody, not even itself, pulls.
UpdateUserInformations(c) ==
  /\ Does(c, manager[c],
          <<Users(manager[c].state)>> \o
          IF manager[c].users = {} THEN <<Request("pull")>> ELSE <<>>)
  /\ UNCHANGED decided

\* FollowUser from the panel; a master that chooses shares it.
ChooseUser(c, id) ==
  LET k == FollowUser(manager[c], c, id)
  IN  /\ id \in manager[c].users \ {manager[c].follow}
      /\ Does(c, k, IF k.master = c THEN <<Users(k.state)>> ELSE <<>>)
      /\ decided' = TRUE

\* The user moves the camera: stopFollowingCamera, and the camera is pushed.
MoveCamera(c) ==
  LET k == FollowUser(manager[c], c, Stop)
      shares == k.master = c /\ manager[c].follow # Stop
  IN  /\ Does(c, [k EXCEPT !.shown = c],
              (IF shares THEN <<Users(k.state)>> ELSE <<>>) \o <<Camera(c)>>)
      /\ decided' = TRUE

\* Disconnect: CLOSE_SESSION is the last thing the client sends.
Leave(c) ==
  /\ Does(c, manager[c], <<Request("close")>>)
  /\ UNCHANGED decided

\* A client handles a notification.
Notified(c) ==
  LET msg == Head(toClient[c])
  IN  /\ Active(c)
      /\ toClient[c] # <<>>
      /\ toClient' = [toClient EXCEPT ![c] = Tail(@)]
      /\ manager' = [manager EXCEPT ![c] =
                       IF msg.kind = "camera" THEN LoadCamera(@, msg.from)
                       ELSE LoadState(@, c, msg.list)]
      /\ UNCHANGED <<server, toServer, unborn, awaiting, ops, relay, object, decided>>

\* The server reads an RMI of client c.
Reads(c, kind) ==
  /\ toServer[c] # <<>>
  /\ Head(toServer[c]).kind = kind
  /\ toServer' = [toServer EXCEPT ![c] = Tail(@)]
  /\ UNCHANGED <<manager, unborn, awaiting, ops, decided>>

\* REGISTER_SI of the manager.
HandleRegister(c) ==
  /\ Reads(c, "register")
  /\ server' = RegisterSI(server, c)
  /\ UNCHANGED <<toClient, relay, object>>

\* PUSH of the manager's state.
HandlePush(c) ==
  LET msg == Head(toServer[c])
      s == Create(server)
  IN  /\ Reads(c, "users")
      /\ Speak(UpdateFromUsers(s, c, msg.list), c, FindsChanges(s, c, msg.list),
               c, <<msg>>)

\* PUSH of a camera: share-only, hence relayed and not processed.
HandleCamera(c) ==
  /\ Reads(c, "camera")
  /\ Speak(server, c, FALSE, c, <<Head(toServer[c])>>)

\* PULL; if it has to elect a master, that is announced before the reply.
\* Without the object the request comes back as it was sent, with no user.
HandlePull(c) ==
  LET now == Announced(server, c)
      said == IF now.master = server.master THEN <<>>
              ELSE <<Users(BuildServerState(now))>>
      reply == IF server.ref = 0 THEN NoUsers ELSE BuildServerState(now)
  IN  /\ Reads(c, "pull")
      /\ server' = now
      /\ toClient' = [b \in Client |->
           IF b \notin now.conn THEN <<>>
           ELSE toClient[b] \o said \o
                IF b = c THEN <<Reply(reply)>> ELSE <<>>]
      /\ relay' = Healed(relay, said)
      /\ object' = Healed(object, said)

\* CLOSE_SESSION: the controller goes and its registration with it; then, if
\* there still is an object, this is announced.
HandleClose(c) ==
  LET gone == [server EXCEPT !.conn = @ \ {c},
                             !.master = IF @ = c THEN NULL ELSE @]
  IN  /\ Reads(c, "close")
      /\ Speak(Collect(gone, c), NULL, TRUE, NULL, <<>>)

Next ==
  \E c \in Client :
    \/ Connect(c)
    \/ ReceiveReply(c)
    \/ \E id \in Client : PromoteToMaster(c, id) \/ ChooseUser(c, id)
    \/ \E name \in Name : SetUserLabel(c, name)
    \/ \E settings \in BOOLEAN : ChangeSettings(c, settings)
    \/ UpdateUserInformations(c)
    \/ MoveCamera(c)
    \/ Leave(c)
    \/ Notified(c)
    \/ HandleRegister(c)
    \/ HandlePush(c)
    \/ HandleCamera(c)
    \/ HandlePull(c)
    \/ HandleClose(c)

Spec == Init /\ [][Next]_vars

-----------------------------------------------------------------------------
(* Types                                                                   *)

Lists ==
  [users : SUBSET Client, names : [Client -> Name \cup {Unnamed}],
   master : Client \cup {NULL}, follow : Client \cup {NULL}, settings : BOOLEAN]

TypeOK ==
  /\ \A c \in Client :
       /\ manager[c].users \subseteq Client
       /\ manager[c].names \in [Client -> Name \cup {Unnamed}]
       /\ manager[c].master \in Client \cup {NULL}
       /\ manager[c].follow \in Client \cup {NULL, Stop}
       /\ manager[c].cached \subseteq Client \ {c}
       /\ manager[c].shown \in Client \cup {NULL}
       /\ manager[c].state \in Lists
  /\ server.conn \subseteq Client \ unborn
  /\ server.names \in [Client -> Name]
  /\ server.named \subseteq Client
  /\ server.registered \subseteq Client
  /\ server.ref \in Nat
  /\ server.master \in server.conn \cup {NULL}
  /\ awaiting \subseteq Client
  /\ ops \in 0 .. MaxOps

-----------------------------------------------------------------------------
(* Properties                                                              *)

\* Nothing is under way, and at least one client has joined.
Quiet ==
  /\ awaiting = {}
  /\ \A c \in Client : toServer[c] = <<>> /\ toClient[c] = <<>>

\* A client's copy is the server's state.
Agrees(c) ==
  /\ manager[c].users = server.conn
  /\ manager[c].master = server.master
  /\ manager[c].settings = server.settings
  /\ \A u \in server.conn : manager[c].names[u] = server.names[u]

\* While the server's object exists the session has a master, who is
\* connected, or a client is about to ask, which elects one: also when the
\* master leaves, when several leave one after the other, when a stale list
\* names one who has left, and when a push brings back an object that was lost.
SessionHasMaster ==
  (server.ref > 0 /\ server.conn # {}) =>
    \/ server.master \in server.conn
    \/ \E c \in server.conn : Request("pull") \in ToSet(toServer[c])

\* Once everything under way has arrived, every client's copy is the
\* server's state, whatever crossed what, unless the server has relayed a
\* list that was not its own state, or lost its object, after it last
\* announced its state.  In particular a change that the server ignored, or
\* undid because of a staler push, is undone at its author too.
CopiesAgreeUnlessStaleRelay ==
  (Quiet /\ relay # "stale" /\ object # "stale") =>
    \A c \in server.conn : Agrees(c)

\* A client that follows a user whose camera it has received shows that
\* camera, however the choice was made: by its user, by the master, or
\* because the master changed.  Only a stale list can name a new master and
\* somebody else to follow at once (the server announces a new master before
\* it relays the message that promoted him): then LoadState shows the
\* master's camera, and sets UserToFollow without showing the other's.  And
\* only if the server has lost its object does a client receive cameras before
\* it knows of anybody: UpdateMaster, which then follows the master, does not
\* show the camera he has sent already.
ShowsFollowedCamera ==
  (relay = "fresh" /\ object = "fresh") => \A c \in Client :
    manager[c].follow \in manager[c].cached => manager[c].shown = manager[c].follow

\* Once everything under way has arrived, everybody follows the master, also
\* when the server has elected him because others left; unless a user chose
\* whom to follow, or the master promoted another, who flags the user all
\* followed before in the list that is relayed last, or the server has lost
\* its object and announced nothing since.
NewMasterIsFollowed ==
  (Quiet /\ ~decided /\ relay = "fresh" /\ object # "stale") =>
    \A c \in server.conn : manager[c].follow = server.master

=============================================================================
