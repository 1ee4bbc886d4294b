---------------------------- MODULE ProgressCleanup ----------------------------
(***************************************************************************)
(* How clients and server agree on when progress is reported.              *)
(*                                                                         *)
(* A client encloses long work in PrepareProgress and                      *)
(* CleanupPendingProgress.  The outermost pair is sent to the server, but  *)
(* only by a client that believes to be the master; at the end it blocks   *)
(* until the server answers.  The server has one flag for all clients,     *)
(* answers the client whose clean-up finds it set, and tells the others    *)
(* that progress has ended.                                                *)
(*                                                                         *)
(* Who is master is known from copies (see Collaboration), of which only   *)
(* the master is kept here: two clients may believe for a while that they  *)
(* are.  Connections are FIFO; RMIs that arrive while a client waits for   *)
(* something else are buffered, progress messages are handled at once.     *)
(***************************************************************************)
EXTENDS Naturals, SequencesExt

CONSTANTS
  Client,
  First,    \* the master when the model starts
  MaxDepth, \* bound: nested pairs
  MaxOps    \* bound: what clients do, clean-up aside

ASSUME FirstAssumption == First \in Client
ASSUME BoundsAssumption == MaxDepth \in Nat /\ MaxOps \in Nat

VARIABLES
  master,        \* each client's copy of who is the master
  count,         \* each client's vtkPVSession::ProgressCount
  enabled,       \* each client's vtkPVProgressHandler's EnableProgress
  waiting,       \* clients in CleanupPendingProgress, in Receive(CLEANUP_TAG)
  serverEnabled, \* the server's EnableProgress
  serverMaster,  \* the master by the server's state
  toServer,      \* RMIs each client has sent
  toClient,      \* RMIs and messages for each client
  ops,           \* what clients have done so far
  twoMasters     \* history: have two clients believed at once to be master?

clients == <<master, count, enabled, waiting>>
server == <<serverEnabled, serverMaster>>
vars == <<clients, server, toServer, toClient, ops, twoMasters>>

-----------------------------------------------------------------------------
(* Messages                                                                *)

\* To the server: prepare, cleanup (streams), request (any other work), and
\* push (the list of users, of which the master is kept).
\* To clients: the RMIs list and ended (CLEANUP_TAG_RMI), and, with tags of
\* their own, progress and done (CLEANUP_TAG).
Message(kind) == [kind |-> kind]
Naming(kind, id) == [kind |-> kind, master |-> id]

IsRMI(m) == m.kind \in {"list", "ended"}

\* What a Receive for a tag reads: the first message that is no RMI.
NextTagged(q, i) ==
  /\ i \in DOMAIN q
  /\ ~IsRMI(q[i])
  /\ \A j \in DOMAIN q : j < i => IsRMI(q[j])

SendToServer(c, m) == toServer' = [toServer EXCEPT ![c] = Append(@, m)]

\* Mutant: the pairs of all clients are sent.
IsMasterOrNot(c) == c \in Client

IsMaster(c) == master[c] = c
SeesTwoMasters(copies) ==
  \E c, d \in Client : c # d /\ copies[c] = c /\ copies[d] = d

-----------------------------------------------------------------------------
Init ==
  /\ master = [c \in Client |-> First]
  /\ count = [c \in Client |-> 0]
  /\ enabled = [c \in Client |-> FALSE]
  /\ waiting = {}
  /\ serverEnabled = FALSE
  /\ serverMaster = First
  /\ toServer = [c \in Client |-> <<>>]
  /\ toClient = [c \in Client |-> <<>>]
  /\ ops = 0
  /\ twoMasters = FALSE

Does ==
  /\ ops < MaxOps
  /\ ops' = ops + 1

\* The stream is sent to the server, then executed by the client itself.
PrepareProgress(c) ==
  /\ Does
  /\ c \notin waiting
  /\ count[c] < MaxDepth
  /\ count' = [count EXCEPT ![c] = @ + 1]
  /\ IF count[c] = 0 /\ IsMaster(c)
     THEN /\ SendToServer(c, Message("prepare"))
          /\ enabled' = [enabled EXCEPT ![c] = TRUE]
     ELSE UNCHANGED <<toServer, enabled>>
  /\ UNCHANGED <<master, waiting, server, toClient, twoMasters>>

\* Mutant: the count is taken down once more when the outermost pair ends.
CleanupPendingProgressTwice(c) ==
  /\ c \notin waiting
  /\ count[c] > 0
  /\ count' = [count EXCEPT ![c] = IF @ = 1 THEN @ - 2 ELSE @ - 1]
  /\ IF count[c] = 1 /\ IsMaster(c)
     THEN /\ SendToServer(c, Message("cleanup"))
          /\ waiting' = IF enabled[c] THEN waiting \cup {c} ELSE waiting
     ELSE UNCHANGED <<toServer, waiting>>
  /\ UNCHANGED <<master, enabled, server, toClient, ops, twoMasters>>

\* The same for the clean-up: the client's own handler waits for the answer,
\* unless it has been cleaned up before.
CleanupPendingProgress(c) ==
  /\ c \notin waiting
  /\ count[c] > 0
  /\ count' = [count EXCEPT ![c] = @ - 1]
  /\ IF count[c] = 1 /\ IsMaster(c)
     THEN /\ SendToServer(c, Message("cleanup"))
          /\ waiting' = IF enabled[c] THEN waiting \cup {c} ELSE waiting
     ELSE UNCHANGED <<toServer, waiting>>
  /\ UNCHANGED <<master, enabled, server, toClient, ops, twoMasters>>

\* Mutant: a message in front of the answer blocks it.
ReceiveDoneInOrder(c) ==
  /\ c \in waiting
  /\ toClient[c] # <<>> /\ Head(toClient[c]).kind = "done"
  /\ toClient' = [toClient EXCEPT ![c] = Tail(@)]
  /\ waiting' = waiting \ {c}
  /\ enabled' = [enabled EXCEPT ![c] = FALSE]
  /\ UNCHANGED <<master, count, server, toServer, ops, twoMasters>>

\* The answer that CleanupPendingProgress waits for.
ReceiveDone(c) ==
  /\ c \in waiting
  /\ \E i \in DOMAIN toClient[c] :
       /\ NextTagged(toClient[c], i)
       /\ toClient[c][i].kind = "done"
       /\ toClient' = [toClient EXCEPT ![c] = RemoveAt(@, i)]
  /\ waiting' = waiting \ {c}
  /\ enabled' = [enabled EXCEPT ![c] = FALSE]
  /\ UNCHANGED <<master, count, server, toServer, ops, twoMasters>>

\* A progress message, met by any Receive; it enables the handler of a client
\* that has prepared nothing.
ReceiveProgress(c) ==
  /\ \E i \in DOMAIN toClient[c] :
       /\ NextTagged(toClient[c], i)
       /\ toClient[c][i].kind = "progress"
       /\ toClient' = [toClient EXCEPT ![c] = RemoveAt(@, i)]
  /\ enabled' = [enabled EXCEPT ![c] = TRUE]
  /\ UNCHANGED <<master, count, waiting, server, toServer, ops, twoMasters>>

\* What an RMI does at client c.
Process(c, m) ==
  /\ toClient' = [toClient EXCEPT ![c] = Tail(@)]
  /\ IF m.kind = "list"
     THEN /\ master' = [master EXCEPT ![c] = m.master]
          /\ UNCHANGED enabled
     ELSE /\ enabled' = [enabled EXCEPT ![c] = FALSE]
          /\ UNCHANGED master
  /\ twoMasters' = (twoMasters \/ SeesTwoMasters(master'))
  /\ UNCHANGED <<count, waiting, server, toServer, ops>>

\* Mutant: notifications are processed between the two calls of a pair.
ProcessRMIAnyTime(c) ==
  /\ c \notin waiting
  /\ toClient[c] # <<>>
  /\ IsRMI(Head(toClient[c]))
  /\ Process(c, Head(toClient[c]))

\* The event loop of a client, which leaves RMIs alone while progress is
\* pending (isProgressPending).
ProcessRMI(c) ==
  /\ c \notin waiting
  /\ count[c] = 0
  /\ toClient[c] # <<>>
  /\ IsRMI(Head(toClient[c]))
  /\ Process(c, Head(toClient[c]))

\* Any other work that a client gives to the server.
Request(c) ==
  /\ Does
  /\ c \notin waiting
  /\ SendToServer(c, Message("request"))
  /\ UNCHANGED <<clients, server, toClient, twoMasters>>

\* The master promotes somebody; its own copy changes at once.
PromoteToMaster(c, id) ==
  /\ Does
  /\ c \notin waiting /\ count[c] = 0
  /\ IsMaster(c)
  /\ master' = [master EXCEPT ![c] = id]
  /\ SendToServer(c, Naming("push", id))
  /\ UNCHANGED <<count, enabled, waiting, server, toClient, twoMasters>>

\* A client pushes its list for another reason, a new name say.
PushList(c) ==
  /\ Does
  /\ c \notin waiting /\ count[c] = 0
  /\ SendToServer(c, Naming("push", master[c]))
  /\ UNCHANGED <<clients, server, toClient, twoMasters>>

-----------------------------------------------------------------------------
(* The server                                                              *)

Reads(c, kind) ==
  /\ toServer[c] # <<>>
  /\ Head(toServer[c]).kind = kind
  /\ toServer' = [toServer EXCEPT ![c] = Tail(@)]
  /\ UNCHANGED <<clients, ops, twoMasters>>

HandlePrepare(c) ==
  /\ Reads(c, "prepare")
  /\ serverEnabled' = TRUE
  /\ UNCHANGED <<serverMaster, toClient>>

\* Mutant: only the client that cleans up hears of it.
HandleCleanupAlone(c) ==
  /\ Reads(c, "cleanup")
  /\ serverEnabled' = FALSE
  /\ toClient' = IF serverEnabled
                 THEN [toClient EXCEPT ![c] = Append(@, Message("done"))]
                 ELSE toClient
  /\ UNCHANGED serverMaster

\* Already cleaned up: nothing.  Else the others are told, and c is answered.
HandleCleanup(c) ==
  /\ Reads(c, "cleanup")
  /\ serverEnabled' = FALSE
  /\ toClient' = IF serverEnabled
                 THEN [d \in Client |-> Append(toClient[d],
                         Message(IF d = c THEN "done" ELSE "ended"))]
                 ELSE toClient
  /\ UNCHANGED serverMaster

\* Work may report progress, to every client; too frequent reports are
\* dropped.
HandleRequest(c) ==
  /\ Reads(c, "request")
  /\ \/ /\ serverEnabled
        /\ toClient' = [d \in Client |-> Append(toClient[d], Message("progress"))]
     \/ UNCHANGED toClient
  /\ UNCHANGED server

\* The server adopts the master of the list, tells everybody if that is new,
\* and relays the list to the others (who may hear the same twice: once here).
HandlePush(c) ==
  LET id == Head(toServer[c]).master
  IN  /\ Reads(c, "push")
      /\ serverMaster' = id
      /\ toClient' = [d \in Client |->
                        IF d = c /\ id = serverMaster THEN toClient[d]
                        ELSE Append(toClient[d], Naming("list", id))]
      /\ UNCHANGED serverEnabled

Next ==
  \E c \in Client :
    \/ PrepareProgress(c)
    \/ CleanupPendingProgress(c)
    \/ ReceiveDone(c)
    \/ ReceiveProgress(c)
    \/ ProcessRMI(c)
    \/ Request(c)
    \/ \E id \in Client : PromoteToMaster(c, id)
    \/ PushList(c)
    \/ HandlePrepare(c)
    \/ HandleCleanup(c)
    \/ HandleRequest(c)
    \/ HandlePush(c)

Spec == Init /\ [][Next]_vars

\* The server goes on reading, and a client that waits goes on receiving;
\* whether users and the work between the two calls go on is up to them.
Fairness ==
  \A c \in Client :
    /\ WF_vars(HandlePrepare(c) \/ HandleCleanup(c) \/ HandleRequest(c) \/ HandlePush(c))
    /\ WF_vars(ReceiveDone(c) \/ (c \in waiting /\ ReceiveProgress(c)))

FairSpec == Spec /\ Fairness

-----------------------------------------------------------------------------
(* Types                                                                   *)

ToServer == [kind : {"prepare", "cleanup", "request"}]
            \cup [kind : {"push"}, master : Client]
ToClient == [kind : {"ended", "done", "progress"}]
            \cup [kind : {"list"}, master : Client]

TypeOK ==
  /\ master \in [Client -> Client]
  /\ count \in [Client -> 0 .. MaxDepth]
  /\ enabled \in [Client -> BOOLEAN]
  /\ waiting \subseteq Client
  /\ serverEnabled \in BOOLEAN
  /\ serverMaster \in Client
  /\ toServer \in [Client -> Seq(ToServer)]
  /\ toClient \in [Client -> Seq(ToClient)]
  /\ ops \in 0 .. MaxOps
  /\ twoMasters \in BOOLEAN

-----------------------------------------------------------------------------
(* Properties                                                              *)

Sent(c, kind) == \E i \in DOMAIN toServer[c] : toServer[c][i].kind = kind
Due(c, kind) == \E i \in DOMAIN toClient[c] : toClient[c][i].kind = kind

\* vtkPVProgressHandler.cxx says of the server that "we send a reply back to
\* the client saying we are done cleaning up", for which the client waits:
\* whoever waits has an answer, or a clean-up to be answered, under way.
NobodyWaitsInVain ==
  \A c \in waiting : Sent(c, "cleanup") \/ Due(c, "done")

\* A client waits in vain only after two clients believed at once to be the
\* master: as long as one at most does, pairs do not overlap at the server,
\* although a demoted master's messages may still be under way.
WaitsInVainOnlyAfterTwoMasters == twoMasters \/ NobodyWaitsInVain

\* An answer comes only to a client that waits for it: in any other Receive
\* it would be a wrong tag, at which the client aborts.
NoStrayAnswer ==
  \A c \in Client : Due(c, "done") => c \in waiting

\* Once nothing is under way and no pair is open, no process takes itself to
\* be in progress, however many clients were masters.
ProgressEnds ==
  (/\ waiting = {}
   /\ \A c \in Client : count[c] = 0 /\ toServer[c] = <<>> /\ toClient[c] = <<>>)
  => ~serverEnabled /\ \A c \in Client : ~enabled[c]

\* A client that waits is let go, unless two clients have believed at once to
\* be the master.
CleanupEnds ==
  \A c \in Client : c \in waiting ~> (c \notin waiting \/ twoMasters)

=============================================================================
