------------------------ MODULE GlobalIdChunks_proofs ------------------------
(***************************************************************************)
(* For every number of clients, every chunk size and every bound: a client *)
(* whose chunk exchanges go undisturbed hands out only ids that the server *)
(* took for it alone, and each of them once.                               *)
(*                                                                         *)
(* The argument follows a chunk from the server to the client.  While it   *)
(* is in flight its first id is the interpreter's last result, then the    *)
(* reply; the whole chunk is granted to the client and lies above all the  *)
(* client has handed out.  Only a step for another client can replace the  *)
(* last result in between, and that is what makes the client disturbed.    *)
(***************************************************************************)
EXTENDS GlobalIdChunks, TLAPS

\* A client waits exactly while its chunk request is under way, and is
\* answered only after the request has run, which what it had sent before did.
Phases ==
  \A c \in Client :
    /\ want[c] = 0 <=> stream[c] = "none"
    /\ want[c] = 0 => result[c] = "none"
    /\ result[c] = "answered" => stream[c] = "run"
    /\ stream[c] = "run" => backlog[c] = 0

\* The server's counter is at or above every id it granted, ...
Counted ==
  /\ Reserved <= localGlobalID
  /\ \A c \in Client : \A id \in granted[c] : Reserved < id /\ id <= localGlobalID

\* ... so that no id is granted twice.
GrantedOnce ==
  \A c, d \in Client : c # d => granted[c] \cap granted[d] = {}

\* The ids a client has left are its own and above those it handed out.
InHand(c) ==
  /\ handed[c] \subseteq granted[c]
  /\ \A id \in handed[c] : id < lastGlobalID[c]
  /\ Chunk(lastGlobalID[c], available[c] - lastGlobalID[c]) \subseteq granted[c]

\* Where the first id of a chunk in flight is found.
First(c) == IF result[c] = "answered" THEN reply[c] ELSE lastResult

\* A chunk in flight is the client's own and above the ids it handed out.
InFlight(c) ==
  stream[c] = "run" =>
    /\ First(c) > 0
    /\ Chunk(First(c), Request(want[c])) \subseteq granted[c]
    /\ \A id \in handed[c] : id < First(c)

IInv ==
  /\ TypeOK
  /\ Phases
  /\ Counted
  /\ GrantedOnce
  /\ \A c \in Client \ disturbed : InHand(c) /\ InFlight(c)

-----------------------------------------------------------------------------

\* A request of n ids fetches at least n of them, and at least one.
LEMMA RequestCovers ==
  ASSUME NEW n \in Sizes
  PROVE  /\ n \in Nat \ {0}
         /\ Request(n) \in Nat \ {0}
         /\ n <= Request(n)
  BY SizesAssumption, ChunkSizeAssumption DEF Request

\* The invariant holds initially.
LEMMA InitInductive == Init => IInv
  BY ReservedAssumption, BoundsAssumption
  DEF Init, IInv, TypeOK, Phases, Counted, GrantedOnce, InHand, InFlight,
      First, Chunk, Client, NoId

\* Every step keeps the types.
LEMMA StepKeepsTypes == TypeOK /\ Phases /\ [Next]_vars => TypeOK'
  <1> SUFFICES ASSUME TypeOK, Phases, [Next]_vars PROVE TypeOK'
    OBVIOUS
  <1> USE DEF TypeOK
  <1>1. CASE UNCHANGED vars
    BY <1>1 DEF vars
  <1>2. ASSUME NEW c \in Client, NEW n \in Sizes, TakeIds(c, n) PROVE TypeOK'
    BY <1>2, RequestCovers DEF TakeIds, Chunk
  <1>3. ASSUME NEW c \in Client, NEW n \in Sizes, SendStream(c, n) PROVE TypeOK'
    BY <1>3, BoundsAssumption DEF SendStream
  <1>4. ASSUME NEW c \in Client, SendLastResult(c) PROVE TypeOK'
    BY <1>4 DEF SendLastResult
  <1>5. ASSUME NEW c \in Client, ReceiveReply(c) PROVE TypeOK'
    <2>1. want[c] \in Sizes
      BY <1>5 DEF ReceiveReply, Phases
    <2> QED
      BY <1>5, <2>1, RequestCovers DEF ReceiveReply, Chunk
  <1>6. ASSUME NEW c \in Client, SendOther(c) PROVE TypeOK'
    BY <1>6, BoundsAssumption DEF SendOther
  <1>7. ASSUME NEW c \in Client, RunOther(c) PROVE TypeOK'
    BY <1>7, BoundsAssumption DEF RunOther, Disturbs, NoId
  <1>8. ASSUME NEW c \in Client, RunStream(c) PROVE TypeOK'
    <2>1. want[c] \in Sizes
      BY <1>8 DEF RunStream, Phases
    <2> QED
      BY <1>8, <2>1, RequestCovers DEF RunStream, Disturbs, Chunk
  <1>9. ASSUME NEW c \in Client, AnswerLastResult(c) PROVE TypeOK'
    BY <1>9, UnrelatedAssumption DEF AnswerLastResult, NoId
  <1> QED
    BY <1>1, <1>2, <1>3, <1>4, <1>5, <1>6, <1>7, <1>8, <1>9 DEF Next

\* Every step keeps the phases, the counter and the grants.
LEMMA StepKeepsGrants ==
  TypeOK /\ Phases /\ Counted /\ GrantedOnce /\ [Next]_vars
    => Phases' /\ Counted' /\ GrantedOnce'
  <1> SUFFICES ASSUME TypeOK, Phases, Counted, GrantedOnce, [Next]_vars
               PROVE  Phases' /\ Counted' /\ GrantedOnce'
    OBVIOUS
  <1> USE DEF TypeOK
  <1>1. CASE UNCHANGED vars
    BY <1>1 DEF vars, Phases, Counted, GrantedOnce
  <1>2. ASSUME NEW c \in Client, NEW n \in Sizes, TakeIds(c, n)
        PROVE  Phases' /\ Counted' /\ GrantedOnce'
    BY <1>2 DEF TakeIds, Phases, Counted, GrantedOnce
  <1>3. ASSUME NEW c \in Client, NEW n \in Sizes, SendStream(c, n)
        PROVE  Phases' /\ Counted' /\ GrantedOnce'
    BY <1>3, RequestCovers DEF SendStream, Idle, Phases, Counted, GrantedOnce
  <1>4. ASSUME NEW c \in Client, SendLastResult(c)
        PROVE  Phases' /\ Counted' /\ GrantedOnce'
    BY <1>4 DEF SendLastResult, Idle, Phases, Counted, GrantedOnce
  <1>5. ASSUME NEW c \in Client, ReceiveReply(c)
        PROVE  Phases' /\ Counted' /\ GrantedOnce'
    BY <1>5 DEF ReceiveReply, Phases, Counted, GrantedOnce
  <1>6. ASSUME NEW c \in Client, SendOther(c)
        PROVE  Phases' /\ Counted' /\ GrantedOnce'
    BY <1>6 DEF SendOther, Idle, Phases, Counted, GrantedOnce
  <1>7. ASSUME NEW c \in Client, RunOther(c)
        PROVE  Phases' /\ Counted' /\ GrantedOnce'
    BY <1>7 DEF RunOther, Phases, Counted, GrantedOnce
  <1>8. ASSUME NEW c \in Client, RunStream(c)
        PROVE  Phases' /\ Counted' /\ GrantedOnce'
    <2>1. want[c] \in Sizes
      BY <1>8 DEF RunStream, Phases
    <2>2. Phases'
      BY <1>8 DEF RunStream, Phases
    <2>3. Counted'
      BY <1>8, <2>1, RequestCovers, ReservedAssumption
      DEF RunStream, Counted, Chunk
    <2>4. GrantedOnce'
      BY <1>8, <2>1, RequestCovers
      DEF RunStream, Counted, GrantedOnce, Chunk
    <2> QED
      BY <2>2, <2>3, <2>4
  <1>9. ASSUME NEW c \in Client, AnswerLastResult(c)
        PROVE  Phases' /\ Counted' /\ GrantedOnce'
    BY <1>9 DEF AnswerLastResult, Phases, Counted, GrantedOnce
  <1> QED
    BY <1>1, <1>2, <1>3, <1>4, <1>5, <1>6, <1>7, <1>8, <1>9 DEF Next

\* Every step keeps an undisturbed client's chunks its own and fresh.
LEMMA StepKeepsChunks ==
  IInv /\ [Next]_vars => \A c \in Client \ disturbed' : (InHand(c) /\ InFlight(c))'
  <1> SUFFICES ASSUME IInv, [Next]_vars,
                      NEW d \in Client, d \notin disturbed'
               PROVE  (InHand(d) /\ InFlight(d))'
    BY DEF IInv
  <1> USE DEF IInv, TypeOK
  <1>0. disturbed \subseteq disturbed'
    BY DEF Next, vars, TakeIds, SendStream, SendLastResult, ReceiveReply,
           SendOther, RunOther, RunStream, AnswerLastResult
  <1>d. InHand(d) /\ InFlight(d)
    BY <1>0
  <1>1. CASE UNCHANGED vars
    BY <1>1, <1>d DEF vars, InHand, InFlight, First
  <1>2. ASSUME NEW c \in Client, NEW n \in Sizes, TakeIds(c, n)
        PROVE  (InHand(d) /\ InFlight(d))'
    <2>1. InHand(d)'
      BY <1>2, <1>d, RequestCovers DEF TakeIds, MustFetch, InHand, Chunk
    <2>2. c = d => stream[d] # "run"
      BY <1>2 DEF TakeIds, Idle, Phases
    <2>3. InFlight(d)'
      BY <1>2, <1>d, <2>2 DEF TakeIds, InFlight, First
    <2> QED
      BY <2>1, <2>3
  <1>3. ASSUME NEW c \in Client, NEW n \in Sizes, SendStream(c, n)
        PROVE  (InHand(d) /\ InFlight(d))'
    BY <1>3, <1>d DEF SendStream, InHand, InFlight, First
  <1>4. ASSUME NEW c \in Client, SendLastResult(c)
        PROVE  (InHand(d) /\ InFlight(d))'
    BY <1>4, <1>d DEF SendLastResult, InHand, InFlight, First
  <1>5. ASSUME NEW c \in Client, ReceiveReply(c)
        PROVE  (InHand(d) /\ InFlight(d))'
    <2>1. CASE c # d
      BY <1>5, <1>d, <2>1 DEF ReceiveReply, InHand, InFlight, First
    <2>2. CASE c = d
      <3>1. want[c] \in Sizes /\ stream[c] = "run"
        BY <1>5 DEF ReceiveReply, Phases
      <3>2. InHand(d)'
        BY <1>5, <1>d, <2>2, <3>1, RequestCovers
        DEF ReceiveReply, InHand, InFlight, First, Chunk
      <3> QED
        BY <1>5, <2>2, <3>2 DEF ReceiveReply, InFlight
    <2> QED
      BY <2>1, <2>2
  <1>6. ASSUME NEW c \in Client, SendOther(c)
        PROVE  (InHand(d) /\ InFlight(d))'
    BY <1>6, <1>d DEF SendOther, InHand, InFlight, First
  <1>7. ASSUME NEW c \in Client, RunOther(c)
        PROVE  (InHand(d) /\ InFlight(d))'
    <2>1. c = d => stream[d] # "run"
      BY <1>7 DEF RunOther, Phases
    <2> QED
      BY <1>7, <1>d, <2>1 DEF RunOther, Disturbs, InHand, InFlight, First
  <1>8. ASSUME NEW c \in Client, RunStream(c)
        PROVE  (InHand(d) /\ InFlight(d))'
    <2>1. want[c] \in Sizes
      BY <1>8 DEF RunStream, Phases
    <2>2. CASE c # d
      BY <1>8, <1>d, <2>2 DEF RunStream, Disturbs, InHand, InFlight, First
    <2>3. CASE c = d
      <3>1. InHand(d)'
        BY <1>8, <1>d, <2>3 DEF RunStream, InHand
      <3>2. First(d)' = localGlobalID + 1
        BY <1>8, <2>3 DEF RunStream, Phases, First
      <3>3. InFlight(d)'
        BY <1>8, <1>d, <2>1, <2>3, <3>2, ReservedAssumption
        DEF RunStream, Counted, InHand, InFlight
      <3> QED
        BY <3>1, <3>3
    <2> QED
      BY <2>2, <2>3
  <1>9. ASSUME NEW c \in Client, AnswerLastResult(c)
        PROVE  (InHand(d) /\ InFlight(d))'
    <2>1. CASE c # d
      BY <1>9, <1>d, <2>1 DEF AnswerLastResult, InHand, InFlight, First
    <2>2. CASE c = d
      BY <1>9, <1>d, <2>2 DEF AnswerLastResult, InHand, InFlight, First, NoId
    <2> QED
      BY <2>1, <2>2
  <1> QED
    BY <1>1, <1>2, <1>3, <1>4, <1>5, <1>6, <1>7, <1>8, <1>9 DEF Next

-----------------------------------------------------------------------------

\* The inductive invariant holds throughout.
THEOREM Inductive == Spec => []IInv
  <1>1. Init => IInv
    BY InitInductive
  <1>2. IInv /\ [Next]_vars => IInv'
    BY StepKeepsTypes, StepKeepsGrants, StepKeepsChunks DEF IInv
  <1> QED
    BY <1>1, <1>2, PTL DEF Spec

\* Type correctness, for every number of clients.
THEOREM TypeCorrect == Spec => []TypeOK
  <1>1. IInv => TypeOK
    BY DEF IInv
  <1> QED
    BY <1>1, Inductive, PTL

\* Two clients share an id only if an exchange of one of them was disturbed
\* between its EXECUTE_STREAM and its LAST_RESULT, and an undisturbed client
\* hands out only ids that the server took for it.
THEOREM SharingIsDisturbance == Spec => []SharingNeedsDisturbance
  <1>1. IInv => SharingNeedsDisturbance
    BY DEF IInv, GrantedOnce, InHand, SharingNeedsDisturbance
  <1> QED
    BY <1>1, Inductive, PTL

\* An undisturbed client hands out no id twice and no reserved one.
THEOREM FreshIds == Spec => []NextIdIsFresh
  <1>1. IInv => NextIdIsFresh
    BY DEF IInv, Counted, InHand, NextIdIsFresh
  <1> QED
    BY <1>1, Inductive, PTL

\* When no client's exchange was disturbed (one client is enough for that, or
\* a server that lets no other client in between), ids are unique.
THEOREM UndisturbedIdsUnique == Spec => [](disturbed = {} => IdsUnique)
  <1>1. SharingNeedsDisturbance /\ disturbed = {} => IdsUnique
    BY DEF SharingNeedsDisturbance, IdsUnique
  <1> QED
    BY <1>1, SharingIsDisturbance, PTL
-----------------------------------------------------------------------------
(* The exchange implements the allocator.                                  *)

\* An undisturbed client's call returns a whole chunk of fresh ids: the n ids
\* from `first` on, granted to it and above all it has handed out.
LEMMA CallGives ==
  ASSUME IInv, NEW c \in Client, c \notin disturbed,
         NEW first \in Nat, NEW n \in Sizes,
         Chunk(first, n) \subseteq granted[c],
         \A id \in handed[c] : id < first,
         handed' = [handed EXCEPT ![c] = @ \cup Chunk(first, n)],
         lastGlobalID' = [lastGlobalID EXCEPT ![c] = first + n],
         UNCHANGED disturbed
  PROVE  Allocator!Give(c)
  <1> DEFINE ids == handed'[c] \ handed[c]
  <1>0. n \in Nat \ {0}
    BY RequestCovers
  <1>1. handed[c] \subseteq Nat /\ handed'[c] = handed[c] \cup Chunk(first, n)
    BY DEF IInv, TypeOK
  <1>2. ids = first .. first + n - 1
    BY <1>0, <1>1 DEF Chunk
  <1>3. first \in ids
    <2>1. first \in first .. first + n - 1
      BY <1>0
    <2> HIDE DEF ids
    <2> QED
      BY <1>2, <2>1
  <1>4. \A id \in ids : id > Reserved
    BY <1>1, ReservedAssumption DEF IInv, Counted, TypeOK
  <1>5. ASSUME NEW d \in Client \ disturbed PROVE ids \cap handed[d] = {}
    <2>1. CASE d = c
      BY <2>1
    <2>2. CASE d # c
      <3>1. granted[c] \cap granted[d] = {}
        BY <2>2 DEF IInv, GrantedOnce
      <3>2. handed[d] \subseteq granted[d]
        BY DEF IInv, InHand
      <3> QED
        BY <1>1, <3>1, <3>2
    <2> QED
      BY <2>1, <2>2
  <1>6. handed' = [handed EXCEPT ![c] = @ \cup ids]
    BY <1>1 DEF IInv, TypeOK
  <1>7. \E i \in ids, k \in Sizes :
          /\ ids = i .. i + k - 1
          /\ lastGlobalID' = [lastGlobalID EXCEPT ![c] = i + k]
    BY <1>2, <1>3
  <1> QED
    BY <1>4, <1>5, <1>6, <1>7 DEF Allocator!Give

\* A disturbed client's call may return anything.
LEMMA CallGivesAny ==
  ASSUME IInv, NEW c \in disturbed, NEW ids, NEW id,
         handed' = [handed EXCEPT ![c] = @ \cup ids],
         lastGlobalID' = [lastGlobalID EXCEPT ![c] = id],
         UNCHANGED disturbed
  PROVE  Allocator!GiveAny(c)
  <1>1. c \in Client
    BY DEF IInv, TypeOK
  <1>2. handed' = [handed EXCEPT ![c] = @ \cup (handed'[c] \ handed[c])]
    BY <1>1 DEF IInv, TypeOK
  <1>3. lastGlobalID' = [lastGlobalID EXCEPT ![c] = lastGlobalID'[c]]
    BY <1>1 DEF IInv, TypeOK
  <1> QED
    BY <1>2, <1>3 DEF Allocator!GiveAny

\* Every step of the exchange is a call, spoils some client, or is invisible.
LEMMA StepImplements ==
  IInv /\ [Next]_vars
    => Allocator!Next \/ UNCHANGED <<handed, lastGlobalID, disturbed>>
  <1> SUFFICES ASSUME IInv, [Next]_vars
               PROVE  Allocator!Next \/ UNCHANGED <<handed, lastGlobalID, disturbed>>
    OBVIOUS
  <1>0. TypeOK /\ disturbed \subseteq Client
    BY DEF IInv, TypeOK
  <1>1. CASE UNCHANGED vars
    BY <1>1 DEF vars
  <1>2. ASSUME NEW c \in Client, NEW n \in Sizes, TakeIds(c, n)
        PROVE  Allocator!Next
    <2>1. CASE c \in disturbed
      <3>1. Allocator!GiveAny(c)
        BY <1>2, <2>1, CallGivesAny DEF TakeIds
      <3> QED
        BY <3>1 DEF Allocator!Next
    <2>2. CASE c \notin disturbed
      <3>1. InHand(c)
        BY <2>2 DEF IInv
      <3>2. lastGlobalID[c] \in Nat /\ available[c] \in Nat /\ n \in Nat \ {0}
        BY <1>0, RequestCovers DEF TypeOK
      <3>3. Chunk(lastGlobalID[c], n) \subseteq granted[c]
        BY <1>2, <3>1, <3>2 DEF TakeIds, MustFetch, InHand, Chunk
      <3>4. lastGlobalID' = [lastGlobalID EXCEPT ![c] = lastGlobalID[c] + n]
        BY <1>2 DEF TakeIds
      <3>5. Allocator!Give(c)
        BY <1>2, <2>2, <3>1, <3>2, <3>3, <3>4, CallGives DEF TakeIds, InHand
      <3> QED
        BY <3>5 DEF Allocator!Next
    <2> QED
      BY <2>1, <2>2
  <1>3. ASSUME NEW c \in Client, ReceiveReply(c)
        PROVE  Allocator!Next
    <2>1. CASE c \in disturbed
      <3>1. Allocator!GiveAny(c)
        BY <1>3, <2>1, CallGivesAny DEF ReceiveReply
      <3> QED
        BY <3>1 DEF Allocator!Next
    <2>2. CASE c \notin disturbed
      <3>1. want[c] \in Sizes /\ stream[c] = "run" /\ First(c) = reply[c]
        BY <1>0, <1>3 DEF ReceiveReply, IInv, Phases, First, TypeOK
      <3>2. InFlight(c)
        BY <2>2 DEF IInv
      <3>3. reply[c] \in Nat /\ Chunk(reply[c], want[c]) \subseteq granted[c]
        BY <1>0, <3>1, <3>2, RequestCovers DEF InFlight, Chunk, TypeOK
      <3>4. \A id \in handed[c] : id < reply[c]
        BY <3>1, <3>2 DEF InFlight
      <3>5. Allocator!Give(c)
        BY <1>3, <2>2, <3>1, <3>3, <3>4, CallGives DEF ReceiveReply
      <3> QED
        BY <3>5 DEF Allocator!Next
    <2> QED
      BY <2>1, <2>2
  <1>4. ASSUME NEW c \in Client, RunOther(c) \/ RunStream(c)
        PROVE  Allocator!Next
    BY <1>0, <1>4 DEF RunOther, RunStream, Disturbs, Allocator!Next, Allocator!Spoil
  <1>5. ASSUME NEW c \in Client, NEW n \in Sizes,
               \/ SendStream(c, n) \/ SendLastResult(c) \/ SendOther(c)
               \/ AnswerLastResult(c)
        PROVE  UNCHANGED <<handed, lastGlobalID, disturbed>>
    BY <1>5 DEF SendStream, SendLastResult, SendOther, AnswerLastResult
  <1>6. ASSUME NEW c \in Client,
               SendLastResult(c) \/ SendOther(c) \/ AnswerLastResult(c)
        PROVE  UNCHANGED <<handed, lastGlobalID, disturbed>>
    BY <1>6 DEF SendLastResult, SendOther, AnswerLastResult
  <1> QED
    BY <1>1, <1>2, <1>3, <1>4, <1>5, <1>6 DEF Next

\* GlobalIdChunks implements IdAllocator: each call of an undisturbed client
\* returns a whole chunk of ids that are not reserved and that no undisturbed
\* client was given before.
THEOREM Implements == Spec => ImplementsAllocator
  <1>1. Init => Allocator!Init
    BY DEF Init, Allocator!Init
  <1>2. IInv /\ [Next]_vars
          => [Allocator!Next]_<<handed, lastGlobalID, disturbed>>
    BY StepImplements
  <1> QED
    BY <1>1, <1>2, Inductive, PTL DEF Spec, ImplementsAllocator, Allocator!Spec
=============================================================================
