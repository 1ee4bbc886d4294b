--------------------------- MODULE GlobalIdChunks ---------------------------
(***************************************************************************)
(* How the clients of one server obtain global ids for their proxies.      *)
(*                                                                         *)
(* The server core hands out consecutive chunks of ids.  A client takes    *)
(* ids from the chunk it holds and fetches another when that runs out, by  *)
(* an EXECUTE_STREAM (which runs GetNextGlobalIdChunk in the interpreter   *)
(* that all clients share) and then, as a second RMI, a LAST_RESULT (which *)
(* reads the interpreter's last result, whoever produced it).              *)
(*                                                                         *)
(* A client's FIFO to the server can only hold: some asynchronous RMIs     *)
(* (pushes, other streams: backlog), then a chunk request, then its        *)
(* LAST_RESULT, because the client blocks until it is answered.            *)
(*                                                                         *)
(* Ids are vtkTypeUInt32; the model stays below the 2^32 they can count.   *)
(***************************************************************************)
EXTENDS Integers, FiniteSets

CONSTANTS
  NClients,      \* clients 1 .. NClients, in the order they connected
  Sizes,         \* ids asked for at once: 1, or 1 + MAX_NUMBER_OF_PORTS
  ChunkSize,     \* least number of ids a client fetches: 500
  Reserved,      \* vtkReservedRemoteObjectIds::RESERVED_MAX_IDS
  Unrelated,     \* what a client may read as id when the result holds none
  MaxRequests,   \* bound: chunk requests, over all clients
  MaxBacklog     \* bound: asynchronous RMIs of one client in flight

ASSUME NClientsAssumption == NClients \in Nat
ASSUME SizesAssumption == Sizes \subseteq Nat \ {0}
ASSUME ChunkSizeAssumption == ChunkSize \in Nat \ {0}
ASSUME ReservedAssumption == Reserved \in Nat
ASSUME UnrelatedAssumption == Unrelated \subseteq Nat
ASSUME BoundsAssumption == MaxRequests \in Nat /\ MaxBacklog \in Nat

VARIABLES
  localGlobalID,  \* vtkPVSessionCore::LocalGlobalID
  lastResult,     \* the first id in the interpreter's last result, or NoId
  backlog,        \* [client -> asynchronous RMIs the server has yet to read]
  want,           \* [client -> ids its caller is waiting for, 0 when none]
  stream,         \* [client -> its chunk request: none, sent or run]
  result,         \* [client -> its LAST_RESULT: none, sent or answered]
  reply,          \* [client -> the id in the answer]
  lastGlobalID,   \* [client -> LastGlobalID, the next id it hands out]
  available,      \* [client -> LastGlobalIDAvailable]
  requests,       \* number of chunk requests so far
  granted,        \* history: [client -> ids the server took for it]
  handed,         \* history: [client -> ids it gave to proxies]
  disturbed       \* history: clients whose exchange another client disturbed

vars == <<localGlobalID, lastResult, backlog, want, stream, result, reply,
          lastGlobalID, available, requests, granted, handed, disturbed>>

Client == 1 .. NClients
NoId == 0

Chunk(first, size) == first .. first + size - 1

\* chunkSizeRequest of GetNextChunkGlobalUniqueIdentifier.
Request(n) == IF n > ChunkSize THEN n ELSE ChunkSize

-----------------------------------------------------------------------------
(* The client                                                              *)

Idle(c) == want[c] = 0

\* Mutant: any remainder of the chunk will do.
MustFetchWhenEmpty(c, n) == lastGlobalID[c] >= available[c]

\* The chunk in hand is too small (or, by one, just big enough).
MustFetch(c, n) == lastGlobalID[c] + n >= available[c]

\* GetNextChunkGlobalUniqueIdentifier without a trip to the server.
TakeIds(c, n) ==
  /\ Idle(c)
  /\ ~MustFetch(c, n)
  /\ handed' = [handed EXCEPT ![c] = @ \cup Chunk(lastGlobalID[c], n)]
  /\ lastGlobalID' = [lastGlobalID EXCEPT ![c] = @ + n]
  /\ UNCHANGED <<localGlobalID, lastResult, backlog, want, stream, result,
                 reply, available, requests, granted, disturbed>>

\* Mutant: the client goes on with the size it requested of the server.
SendStreamRoundsUp(c, n) ==
  /\ Idle(c)
  /\ MustFetch(c, n)
  /\ requests < MaxRequests
  /\ requests' = requests + 1
  /\ want' = [want EXCEPT ![c] = Request(n)]
  /\ stream' = [stream EXCEPT ![c] = "sent"]
  /\ UNCHANGED <<localGlobalID, lastResult, backlog, result, reply,
                 lastGlobalID, available, granted, handed, disturbed>>

\* ... and with one: ExecuteStream sends the request and returns ...
SendStream(c, n) ==
  /\ Idle(c)
  /\ MustFetch(c, n)
  /\ requests < MaxRequests
  /\ requests' = requests + 1
  /\ want' = [want EXCEPT ![c] = n]
  /\ stream' = [stream EXCEPT ![c] = "sent"]
  /\ UNCHANGED <<localGlobalID, lastResult, backlog, result, reply,
                 lastGlobalID, available, granted, handed, disturbed>>

\* ... GetLastResult sends the second RMI ...
SendLastResult(c) ==
  /\ ~Idle(c)
  /\ result[c] = "none"
  /\ result' = [result EXCEPT ![c] = "sent"]
  /\ UNCHANGED <<localGlobalID, lastResult, backlog, want, stream, reply,
                 lastGlobalID, available, requests, granted, handed, disturbed>>

\* Mutant: the ids that are returned stay in the chunk.
ReceiveReplyKeepsIds(c) ==
  /\ result[c] = "answered"
  /\ lastGlobalID' = [lastGlobalID EXCEPT ![c] = reply[c]]
  /\ available' = [available EXCEPT ![c] = reply[c] + Request(want[c])]
  /\ handed' = [handed EXCEPT ![c] = @ \cup Chunk(reply[c], want[c])]
  /\ want' = [want EXCEPT ![c] = 0]
  /\ stream' = [stream EXCEPT ![c] = "none"]
  /\ result' = [result EXCEPT ![c] = "none"]
  /\ UNCHANGED <<localGlobalID, lastResult, backlog, reply, requests, granted,
                 disturbed>>

\* ... and takes the id in the answer for the first one of its chunk.
ReceiveReply(c) ==
  /\ result[c] = "answered"
  /\ lastGlobalID' = [lastGlobalID EXCEPT ![c] = reply[c] + want[c]]
  /\ available' = [available EXCEPT ![c] = reply[c] + Request(want[c])]
  /\ handed' = [handed EXCEPT ![c] = @ \cup Chunk(reply[c], want[c])]
  /\ want' = [want EXCEPT ![c] = 0]
  /\ stream' = [stream EXCEPT ![c] = "none"]
  /\ result' = [result EXCEPT ![c] = "none"]
  /\ UNCHANGED <<localGlobalID, lastResult, backlog, reply, requests, granted,
                 disturbed>>

\* Any PUSH or EXECUTE_STREAM of the client that runs the interpreter.
SendOther(c) ==
  /\ Idle(c)
  /\ backlog[c] < MaxBacklog
  /\ backlog' = [backlog EXCEPT ![c] = @ + 1]
  /\ UNCHANGED <<localGlobalID, lastResult, want, stream, result, reply,
                 lastGlobalID, available, requests, granted, handed, disturbed>>

-----------------------------------------------------------------------------
(* The server                                                              *)

Ready(c) == backlog[c] > 0 \/ stream[c] = "sent" \/ result[c] = "sent"

\* Mutant: the last readable socket wins.
SelectedLast(c) == Ready(c) /\ \A d \in c + 1 .. NClients : ~Ready(d)

\* vtkSocket::SelectSockets takes the first readable socket of the list, and
\* the controllers come in the order they connected.
Selected(c) == Ready(c) /\ \A d \in 1 .. c - 1 : ~Ready(d)

\* The exchanges of other clients that sit between stream and result.
Disturbs(c) == {d \in Client \ {c} : stream[d] = "run" /\ result[d] # "answered"}

\* ExecuteStreamInternal, on a stream (or SI object update) without an id.
RunOther(c) ==
  /\ Selected(c)
  /\ backlog[c] > 0
  /\ backlog' = [backlog EXCEPT ![c] = @ - 1]
  /\ lastResult' = NoId
  /\ disturbed' = disturbed \cup Disturbs(c)
  /\ UNCHANGED <<localGlobalID, want, stream, result, reply, lastGlobalID,
                 available, requests, granted, handed>>

\* Mutant: the server counts whole chunks only.
RunStreamFixedSize(c) ==
  /\ Selected(c)
  /\ backlog[c] = 0
  /\ stream[c] = "sent"
  /\ lastResult' = localGlobalID + 1
  /\ localGlobalID' = localGlobalID + ChunkSize
  /\ stream' = [stream EXCEPT ![c] = "run"]
  /\ granted' = [granted EXCEPT ![c] =
                   @ \cup Chunk(localGlobalID + 1, Request(want[c]))]
  /\ disturbed' = disturbed \cup Disturbs(c)
  /\ UNCHANGED <<backlog, want, result, reply, lastGlobalID, available,
                 requests, handed>>

\* ExecuteStreamInternal, on GetNextGlobalIdChunk.
RunStream(c) ==
  /\ Selected(c)
  /\ backlog[c] = 0
  /\ stream[c] = "sent"
  /\ lastResult' = localGlobalID + 1
  /\ localGlobalID' = localGlobalID + Request(want[c])
  /\ stream' = [stream EXCEPT ![c] = "run"]
  /\ granted' = [granted EXCEPT ![c] =
                   @ \cup Chunk(localGlobalID + 1, Request(want[c]))]
  /\ disturbed' = disturbed \cup Disturbs(c)
  /\ UNCHANGED <<backlog, want, result, reply, lastGlobalID, available,
                 requests, handed>>

\* SendLastResultToClient.  A result without an id leaves the client's
\* variable as it was (uninitialised), or fills it with an unrelated integer.
AnswerLastResult(c) ==
  /\ Selected(c)
  /\ backlog[c] = 0
  /\ stream[c] = "run"
  /\ result[c] = "sent"
  /\ \E id \in IF lastResult = NoId THEN Unrelated ELSE {lastResult} :
       reply' = [reply EXCEPT ![c] = id]
  /\ result' = [result EXCEPT ![c] = "answered"]
  /\ UNCHANGED <<localGlobalID, lastResult, backlog, want, stream,
                 lastGlobalID, available, requests, granted, handed, disturbed>>

Serve(c) == RunOther(c) \/ RunStream(c) \/ AnswerLastResult(c)

-----------------------------------------------------------------------------
Init ==
  /\ localGlobalID = Reserved
  /\ lastResult = NoId
  /\ backlog = [c \in Client |-> 0]
  /\ want = [c \in Client |-> 0]
  /\ stream = [c \in Client |-> "none"]
  /\ result = [c \in Client |-> "none"]
  /\ reply = [c \in Client |-> NoId]
  /\ lastGlobalID = [c \in Client |-> 0]
  /\ available = [c \in Client |-> 0]
  /\ requests = 0
  /\ granted = [c \in Client |-> {}]
  /\ handed = [c \in Client |-> {}]
  /\ disturbed = {}

Next ==
  \E c \in Client :
    \/ \E n \in Sizes : TakeIds(c, n) \/ SendStream(c, n)
    \/ SendLastResult(c)
    \/ ReceiveReply(c)
    \/ SendOther(c)
    \/ RunOther(c)
    \/ RunStream(c)
    \/ AnswerLastResult(c)

\* The server loop always takes the next RMI that is there; a client inside
\* GetNextChunkGlobalUniqueIdentifier goes on without waiting for its user.
Fairness ==
  /\ WF_vars(\E c \in Client : Serve(c))
  /\ \A c \in Client : WF_vars(SendLastResult(c)) /\ WF_vars(ReceiveReply(c))

Spec == Init /\ [][Next]_vars
FairSpec == Spec /\ Fairness

-----------------------------------------------------------------------------
TypeOK ==
  /\ localGlobalID \in Nat
  /\ lastResult \in Nat
  /\ backlog \in [Client -> 0 .. MaxBacklog]
  /\ want \in [Client -> Sizes \cup {0}]
  /\ stream \in [Client -> {"none", "sent", "run"}]
  /\ result \in [Client -> {"none", "sent", "answered"}]
  /\ reply \in [Client -> Nat]
  /\ lastGlobalID \in [Client -> Nat]
  /\ available \in [Client -> Nat]
  /\ requests \in 0 .. MaxRequests
  /\ granted \in [Client -> SUBSET Nat]
  /\ handed \in [Client -> SUBSET Nat]
  /\ disturbed \subseteq Client

\* No id is ever given to proxies of two clients (the "Reserved ids" of
\* GetNextChunkGlobalUniqueIdentifier's documentation).
IdsUnique ==
  \A c, d \in Client : c # d => handed[c] \cap handed[d] = {}

\* Two clients share an id only if one of their chunk exchanges was disturbed:
\* the server ran something for another client between the EXECUTE_STREAM and
\* the LAST_RESULT.  No other interleaving duplicates an id, nor does a client
\* hand out one that the server did not take for it.
SharingNeedsDisturbance ==
  \A c \in Client \ disturbed :
    /\ handed[c] \subseteq granted[c]
    /\ \A d \in Client \ (disturbed \cup {c}) : handed[c] \cap handed[d] = {}

\* A client whose exchanges went undisturbed never hands out an id twice, nor
\* a reserved one, whatever sizes it asks for: what it has handed out lies
\* above the reserved ids and strictly below its next id.
NextIdIsFresh ==
  \A c \in Client \ disturbed :
    \A id \in handed[c] : Reserved < id /\ id < lastGlobalID[c]

\* The exchange implements an allocator that gives every id once, to all
\* clients whose exchanges have not been disturbed.
Allocator == INSTANCE IdAllocator
  WITH given <- handed, next <- lastGlobalID, spoiled <- disturbed

\* Every call of GetNextChunkGlobalUniqueIdentifier by an undisturbed client
\* returns a whole chunk of fresh ids, also while other clients are disturbed
\* and hand out whatever they read.
ImplementsAllocator == Allocator!Spec

\* A client that waits for ids gets them, or the server spends its time on
\* clients that connected earlier: the first readable socket always wins.
AnsweredUnlessCrowdedOut ==
  \A c \in Client :
    \/ (want[c] # 0) ~> (want[c] = 0)
    \/ []<><<\E d \in 1 .. c - 1 : Serve(d)>>_vars

=============================================================================
