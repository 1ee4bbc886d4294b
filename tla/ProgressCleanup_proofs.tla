------------------------ MODULE ProgressCleanup_proofs ------------------------
(***************************************************************************)
(* For every number of clients and however deep their pairs nest: answers  *)
(* come to who waits for them, progress ends, and nobody waits in vain     *)
(* unless two clients have believed at once to be the master.              *)
(*                                                                         *)
(* The argument: a client that has sent its prepare keeps believing to be  *)
(* the master until its clean-up is answered, because it handles no        *)
(* notification meanwhile.  So a pair that is open at the server belongs   *)
(* to somebody who believes to be the master, and if that can be only one  *)
(* client, no other pair can reset the flag before its clean-up comes.     *)
(***************************************************************************)
EXTENDS ProgressCleanup, SequenceTheorems, TLAPS

-----------------------------------------------------------------------------
(* The inductive invariant                                                 *)

\* A client in a pair that it has sent.
Open(c) == master[c] = c /\ count[c] > 0

\* What is in a client's queue: its prepare only until its clean-up is
\* answered, its clean-up as the last thing before it waits.
QueueInv(c) ==
  \A i \in DOMAIN toServer[c] :
    /\ toServer[c][i].kind = "prepare" => Open(c) \/ c \in waiting
    /\ toServer[c][i].kind = "cleanup" => c \in waiting /\ i = Len(toServer[c])

\* Who waits believes to be the master, and sends nothing.
WaitInv(c) ==
  c \in waiting =>
    /\ master[c] = c
    /\ count[c] = 0
    /\ \A i \in DOMAIN toServer[c] :
         i = Len(toServer[c]) => toServer[c][i].kind = "cleanup"

\* Once the answer is under way, everything before it has been read.
DoneInv(c) ==
  \A i \in DOMAIN toClient[c] :
    toClient[c][i].kind = "done" =>
      /\ c \in waiting
      /\ DOMAIN toServer[c] = {}
      /\ \A j \in DOMAIN toClient[c] : toClient[c][j].kind = "done" => j = i

\* A client without an open pair is in progress only if it will be told of
\* the end; progress that was reported is followed by the end.
EnabledInv(c) ==
  /\ Open(c) => enabled[c]
  /\ enabled[c] => \/ serverEnabled
                   \/ Open(c)
                   \/ c \in waiting
                   \/ Due(c, "ended")
  /\ \A i \in DOMAIN toClient[c] :
       toClient[c][i].kind = "progress" =>
         \/ serverEnabled
         \/ \E j \in DOMAIN toClient[c] :
              j > i /\ toClient[c][j].kind \in {"ended", "done"}

\* The flag of the server is set by an open pair.
ServerInv == serverEnabled => \E c \in Client : Open(c) \/ Sent(c, "cleanup")

\* A pair is open at the server until its clean-up is read, and then answered.
AnswerInv(c) ==
  /\ Open(c) => serverEnabled \/ Sent(c, "prepare")
  /\ c \in waiting =>
       \/ Due(c, "done")
       \/ Sent(c, "cleanup") /\ (serverEnabled \/ Sent(c, "prepare"))

OneMasterInv ==
  ~twoMasters => ~SeesTwoMasters(master) /\ \A c \in Client : AnswerInv(c)

ClientInv(c) == QueueInv(c) /\ WaitInv(c) /\ DoneInv(c) /\ EnabledInv(c)

IInv == TypeOK /\ ServerInv /\ OneMasterInv /\ \A c \in Client : ClientInv(c)

-----------------------------------------------------------------------------
(* Queues and types                                                        *)

\* What a queue holds once a message is appended.
LEMMA Appended ==
  ASSUME NEW S, NEW q \in Seq(S), NEW m \in S, NEW t, t = Append(q, m)
  PROVE  /\ t \in Seq(S)
         /\ Len(q) \in Nat /\ DOMAIN q = 1 .. Len(q)
         /\ Len(t) = Len(q) + 1 /\ DOMAIN t = 1 .. Len(q) + 1
         /\ \A i \in 1 .. Len(q) : t[i] = q[i]
         /\ t[Len(q) + 1] = m
BY AppendProperties, LenProperties

\* What is left of a queue once its head is taken.
LEMMA Headless ==
  ASSUME NEW S, NEW q \in Seq(S), q # <<>>, NEW t, t = Tail(q)
  PROVE  /\ t \in Seq(S)
         /\ Len(q) \in Nat \ {0} /\ DOMAIN q = 1 .. Len(q)
         /\ Len(t) = Len(q) - 1 /\ DOMAIN t = 1 .. Len(q) - 1
         /\ \A i \in 1 .. Len(q) - 1 : t[i] = q[i + 1]
         /\ Head(q) = q[1] /\ 1 \in DOMAIN q
BY HeadTailProperties, LenProperties, EmptySeq

\* What is left of a queue once its n-th message is taken out.
LEMMA Removed ==
  ASSUME NEW S, NEW q \in Seq(S), NEW n \in DOMAIN q, NEW t, t = RemoveAt(q, n)
  PROVE  /\ t \in Seq(S)
         /\ Len(q) \in Nat \ {0} /\ DOMAIN q = 1 .. Len(q)
         /\ Len(t) = Len(q) - 1 /\ DOMAIN t = 1 .. Len(q) - 1
         /\ \A i \in 1 .. Len(q) - 1 : i < n => t[i] = q[i]
         /\ \A i \in 1 .. Len(q) - 1 : ~(i < n) => t[i] = q[i + 1]
<1> DEFINE a == SubSeq(q, 1, n - 1)
           b == SubSeq(q, n + 1, Len(q))
<1>1. Len(q) \in Nat \ {0} /\ DOMAIN q = 1 .. Len(q) /\ n \in 1 .. Len(q)
  BY LenProperties
<1>2. /\ a \in Seq(S) /\ Len(a) = n - 1
      /\ \A i \in 1 .. n - 1 : a[i] = q[i]
  <2>1. \A i \in 1 .. n - 1 : q[i] \in S
    BY <1>1, ElementOfSeq
  <2>2. QED
    BY <1>1, <2>1, SubSeqProperties
<1>3. /\ b \in Seq(S) /\ Len(b) = Len(q) - n
      /\ \A i \in 1 .. Len(q) - n : b[i] = q[i + n]
  <2>1. \A i \in n + 1 .. Len(q) : q[i] \in S
    BY <1>1, ElementOfSeq
  <2>2. QED
    BY <1>1, <2>1, SubSeqProperties
<1>4. t = a \o b
  BY DEF RemoveAt
<1> HIDE DEF a, b
<1>5. t \in Seq(S) /\ Len(t) = Len(a) + Len(b)
  BY <1>2, <1>3, <1>4, ConcatProperties
<1>6. ASSUME NEW i \in 1 .. Len(a) + Len(b)
      PROVE  /\ i <= Len(a) => t[i] = a[i]
             /\ ~(i <= Len(a)) => t[i] = b[i - Len(a)]
  <2>1. a \in Seq(S) /\ b \in Seq(S)
    BY <1>2, <1>3
  <2>2. (a \o b)[i] = IF i <= Len(a) THEN a[i] ELSE b[i - Len(a)]
    BY <2>1, ConcatProperties
  <2>3. QED
    BY <1>4, <2>2
<1>7. Len(t) = Len(q) - 1
  BY <1>1, <1>2, <1>3, <1>5
<1>8. ASSUME NEW i \in 1 .. Len(q) - 1
      PROVE  (i < n => t[i] = q[i]) /\ (~(i < n) => t[i] = q[i + 1])
  <2>1. CASE i < n
    <3>1. i \in 1 .. n - 1 /\ i <= Len(a) /\ i \in 1 .. Len(a) + Len(b)
      BY <1>1, <1>2, <1>3, <2>1
    <3>2. QED
      BY <1>2, <1>6, <2>1, <3>1
  <2>2. CASE ~(i < n)
    <3>1. /\ i - (n - 1) \in 1 .. Len(q) - n /\ ~(i <= Len(a))
          /\ i \in 1 .. Len(a) + Len(b) /\ i - Len(a) = i - (n - 1)
          /\ (i - (n - 1)) + n = i + 1
      BY <1>1, <1>2, <1>3, <2>2
    <3>2. QED
      BY <1>3, <1>6, <2>2, <3>1
  <2>3. QED
    BY <2>1, <2>2
<1>9. QED
  BY <1>1, <1>5, <1>7, <1>8, LenProperties

\* The messages of the actions are of the queues' types.
LEMMA Messages ==
  /\ \A k \in {"prepare", "cleanup", "request"} :
       Message(k) \in ToServer /\ Message(k).kind = k
  /\ \A k \in {"ended", "done", "progress"} :
       Message(k) \in ToClient /\ Message(k).kind = k
  /\ \A id \in Client : Naming("push", id) \in ToServer /\ Naming("push", id).kind = "push"
  /\ \A id \in Client : Naming("list", id) \in ToClient /\ Naming("list", id).kind = "list"
BY DEF Message, Naming, ToServer, ToClient

\* What type correctness says of a client.
LEMMA ClientTypes ==
  ASSUME TypeOK, NEW c \in Client
  PROVE  /\ master[c] \in Client
         /\ count[c] \in 0 .. MaxDepth /\ count[c] \in Nat
         /\ enabled[c] \in BOOLEAN
         /\ toServer[c] \in Seq(ToServer)
         /\ toClient[c] \in Seq(ToClient)
BY BoundsAssumption DEF TypeOK

\* Sending keeps the type of the queues to the server.
LEMMA SendTypes ==
  ASSUME TypeOK, NEW c \in Client, NEW m \in ToServer, SendToServer(c, m)
  PROVE  toServer' \in [Client -> Seq(ToServer)]
BY AppendProperties DEF TypeOK, SendToServer

\* So does reading them.
LEMMA ReadTypes ==
  ASSUME TypeOK, NEW c \in Client, NEW k, Reads(c, k)
  PROVE  toServer' \in [Client -> Seq(ToServer)]
BY HeadTailProperties DEF TypeOK, Reads

\* Receiving keeps the type of the queues to the clients.
LEMMA ReceiveTypes ==
  ASSUME TypeOK, NEW c \in Client, NEW i \in DOMAIN toClient[c],
         toClient' = [toClient EXCEPT ![c] = RemoveAt(@, i)]
  PROVE  toClient' \in [Client -> Seq(ToClient)]
BY Removed DEF TypeOK

\* So does telling every client something.
LEMMA TellTypes ==
  ASSUME TypeOK, NEW f \in [Client -> ToClient],
         toClient' = [d \in Client |-> Append(toClient[d], f[d])]
  PROVE  toClient' \in [Client -> Seq(ToClient)]
BY AppendProperties DEF TypeOK

\* Every step keeps the types.
LEMMA TypeStep ==
  ASSUME TypeOK, [Next]_vars
  PROVE  TypeOK'
<1> USE BoundsAssumption
<1>1. CASE UNCHANGED vars
  BY <1>1 DEF TypeOK, vars, clients, server
<1>2. ASSUME NEW c \in Client, PrepareProgress(c) PROVE TypeOK'
  <2>1. toServer' \in [Client -> Seq(ToServer)]
    BY <1>2, Messages, SendTypes DEF PrepareProgress, TypeOK
  <2>2. count' \in [Client -> 0 .. MaxDepth] /\ ops' \in 0 .. MaxOps
    BY <1>2 DEF PrepareProgress, TypeOK, Does
  <2>3. enabled' \in [Client -> BOOLEAN]
    BY <1>2 DEF PrepareProgress, TypeOK
  <2>4. UNCHANGED <<master, waiting, server, toClient, twoMasters>>
    BY <1>2 DEF PrepareProgress
  <2>5. QED
    BY <2>1, <2>2, <2>3, <2>4 DEF TypeOK, server
<1>3. ASSUME NEW c \in Client, CleanupPendingProgress(c) PROVE TypeOK'
  <2>1. toServer' \in [Client -> Seq(ToServer)]
    BY <1>3, Messages, SendTypes DEF CleanupPendingProgress, TypeOK
  <2>2. count' \in [Client -> 0 .. MaxDepth]
    <3>1. count[c] - 1 \in 0 .. MaxDepth
      BY <1>3, ClientTypes DEF CleanupPendingProgress
    <3>2. count' = [count EXCEPT ![c] = @ - 1]
      BY <1>3 DEF CleanupPendingProgress
    <3>3. QED
      BY <3>1, <3>2 DEF TypeOK
  <2>3. waiting' \subseteq Client
    BY <1>3 DEF CleanupPendingProgress, TypeOK
  <2>4. UNCHANGED <<master, enabled, server, toClient, ops, twoMasters>>
    BY <1>3 DEF CleanupPendingProgress
  <2>5. QED
    BY <2>1, <2>2, <2>3, <2>4 DEF TypeOK, server
<1>4. ASSUME NEW c \in Client, ReceiveDone(c) PROVE TypeOK'
  <2>1. toClient' \in [Client -> Seq(ToClient)]
    BY <1>4, ReceiveTypes DEF ReceiveDone
  <2>2. QED
    BY <1>4, <2>1 DEF ReceiveDone, TypeOK, server
<1>5. ASSUME NEW c \in Client, ReceiveProgress(c) PROVE TypeOK'
  <2>1. toClient' \in [Client -> Seq(ToClient)]
    BY <1>5, ReceiveTypes DEF ReceiveProgress
  <2>2. QED
    BY <1>5, <2>1 DEF ReceiveProgress, TypeOK, server
<1>6. ASSUME NEW c \in Client, ProcessRMI(c) PROVE TypeOK'
  <2> DEFINE m == Head(toClient[c])
  <2>1. m \in ToClient /\ Tail(toClient[c]) \in Seq(ToClient)
    BY <1>6, HeadTailProperties, ClientTypes DEF ProcessRMI
  <2>2. m.kind = "list" => m.master \in Client
    BY <2>1 DEF ToClient
  <2>3. toClient' \in [Client -> Seq(ToClient)]
    BY <1>6, <2>1 DEF ProcessRMI, Process, TypeOK
  <2>4. /\ twoMasters' \in BOOLEAN
        /\ UNCHANGED <<count, waiting, server, toServer, ops>>
    BY <1>6 DEF ProcessRMI, Process, TypeOK, SeesTwoMasters
  <2>5. master' \in [Client -> Client] /\ enabled' \in [Client -> BOOLEAN]
    <3> HIDE DEF m
    <3>1. \/ m.kind = "list" /\ master' = [master EXCEPT ![c] = m.master] /\ enabled' = enabled
          \/ enabled' = [enabled EXCEPT ![c] = FALSE] /\ master' = master
      BY <1>6 DEF m, ProcessRMI, Process
    <3>2. ASSUME m.kind = "list", master' = [master EXCEPT ![c] = m.master],
                 enabled' = enabled
          PROVE  master' \in [Client -> Client] /\ enabled' \in [Client -> BOOLEAN]
      BY <2>2, <3>2 DEF TypeOK
    <3>3. ASSUME enabled' = [enabled EXCEPT ![c] = FALSE], master' = master
          PROVE  master' \in [Client -> Client] /\ enabled' \in [Client -> BOOLEAN]
      BY <3>3 DEF TypeOK
    <3>4. QED
      BY <3>1, <3>2, <3>3
  <2>6. QED
    BY <2>3, <2>4, <2>5 DEF TypeOK, server
<1>7. ASSUME NEW c \in Client, Request(c) PROVE TypeOK'
  <2>1. toServer' \in [Client -> Seq(ToServer)]
    BY <1>7, Messages, SendTypes DEF Request
  <2>2. QED
    BY <1>7, <2>1 DEF Request, TypeOK, Does, server, clients
<1>8. ASSUME NEW c \in Client, NEW id \in Client, PromoteToMaster(c, id) PROVE TypeOK'
  <2>1. toServer' \in [Client -> Seq(ToServer)]
    BY <1>8, Messages, SendTypes DEF PromoteToMaster
  <2>2. master' \in [Client -> Client] /\ ops' \in 0 .. MaxOps
    BY <1>8 DEF PromoteToMaster, TypeOK, Does
  <2>3. UNCHANGED <<count, enabled, waiting, server, toClient, twoMasters>>
    BY <1>8 DEF PromoteToMaster
  <2>4. QED
    BY <2>1, <2>2, <2>3 DEF TypeOK, server
<1>9. ASSUME NEW c \in Client, PushList(c) PROVE TypeOK'
  <2>1. toServer' \in [Client -> Seq(ToServer)]
    BY <1>9, Messages, SendTypes, ClientTypes DEF PushList
  <2>2. QED
    BY <1>9, <2>1 DEF PushList, TypeOK, Does, server, clients
<1>10. ASSUME NEW c \in Client, HandlePrepare(c) PROVE TypeOK'
  BY <1>10, ReadTypes DEF HandlePrepare, Reads, clients, TypeOK
<1>11. ASSUME NEW c \in Client, HandleCleanup(c) PROVE TypeOK'
  <2> DEFINE f == [d \in Client |-> Message(IF d = c THEN "done" ELSE "ended")]
  <2>1. f \in [Client -> ToClient]
    BY Messages
  <2>2. toClient' = toClient \/ toClient' = [d \in Client |-> Append(toClient[d], f[d])]
    BY <1>11 DEF HandleCleanup
  <2> HIDE DEF f
  <2>3. toClient' \in [Client -> Seq(ToClient)]
    BY <2>1, <2>2, TellTypes DEF TypeOK
  <2>4. QED
    BY <1>11, <2>3, ReadTypes DEF HandleCleanup, Reads, clients, TypeOK
<1>12. ASSUME NEW c \in Client, HandleRequest(c) PROVE TypeOK'
  <2> DEFINE f == [d \in Client |-> Message("progress")]
  <2>1. f \in [Client -> ToClient]
    BY Messages
  <2>2. toClient' = toClient \/ toClient' = [d \in Client |-> Append(toClient[d], f[d])]
    BY <1>12 DEF HandleRequest
  <2> HIDE DEF f
  <2>3. toClient' \in [Client -> Seq(ToClient)]
    BY <2>1, <2>2, TellTypes DEF TypeOK
  <2>4. QED
    BY <1>12, <2>3, ReadTypes DEF HandleRequest, Reads, clients, server, TypeOK
<1>13. ASSUME NEW c \in Client, HandlePush(c) PROVE TypeOK'
  <2> DEFINE id == Head(toServer[c]).master
  <2>1. id \in Client
    <3>1. Head(toServer[c]) \in ToServer /\ Head(toServer[c]).kind = "push"
      BY <1>13, HeadTailProperties, ClientTypes DEF HandlePush, Reads
    <3>2. QED
      BY <3>1 DEF ToServer
  <2>2. /\ serverMaster' = id
        /\ toClient' = [d \in Client |->
                          IF d = c /\ id = serverMaster THEN toClient[d]
                          ELSE Append(toClient[d], Naming("list", id))]
    BY <1>13 DEF HandlePush
  <2> HIDE DEF id
  <2>3. toClient' \in [Client -> Seq(ToClient)]
    <3>1. Naming("list", id) \in ToClient
      BY <2>1, Messages
    <3>2. \A d \in Client : Append(toClient[d], Naming("list", id)) \in Seq(ToClient)
      BY <3>1, ClientTypes, AppendProperties
    <3>3. QED
      BY <2>2, <3>2, ClientTypes
  <2>4. QED
    BY <1>13, <2>1, <2>2, <2>3, ReadTypes DEF HandlePush, Reads, clients, TypeOK
<1>14. QED
  BY <1>1, <1>2, <1>3, <1>4, <1>5, <1>6, <1>7, <1>8, <1>9, <1>10, <1>11, <1>12, <1>13 DEF Next

-----------------------------------------------------------------------------
(* The server reads                                                        *)

\* The queues when the server has read an RMI of c.
LEMMA ReadQueues ==
  ASSUME TypeOK, NEW c \in Client, NEW k, Reads(c, k)
  PROVE  /\ \A d \in Client \ {c} : toServer'[d] = toServer[d]
         /\ Len(toServer[c]) \in Nat \ {0} /\ DOMAIN toServer[c] = 1 .. Len(toServer[c])
         /\ toServer[c][1].kind = k
         /\ Len(toServer'[c]) = Len(toServer[c]) - 1
         /\ DOMAIN toServer'[c] = 1 .. Len(toServer[c]) - 1
         /\ \A i \in 1 .. Len(toServer[c]) - 1 : toServer'[c][i] = toServer[c][i + 1]
<1> DEFINE q == toServer[c]
           t == Tail(q)
<1>1. q \in Seq(ToServer) /\ q # <<>> /\ Head(q).kind = k
  BY ClientTypes DEF Reads
<1>2. toServer'[c] = t /\ \A d \in Client \ {c} : toServer'[d] = toServer[d]
  BY DEF Reads, TypeOK
<1>3. /\ Len(q) \in Nat \ {0} /\ DOMAIN q = 1 .. Len(q)
      /\ Len(t) = Len(q) - 1 /\ DOMAIN t = 1 .. Len(q) - 1
      /\ \A i \in 1 .. Len(q) - 1 : t[i] = q[i + 1]
      /\ Head(q) = q[1]
  <2> HIDE DEF q
  <2>1. QED
    BY <1>1, Headless
<1> HIDE DEF t
<1>4. QED
  BY <1>1, <1>2, <1>3

\* What is left in the queues, and what is not.
LEMMA ReadSent ==
  ASSUME TypeOK, NEW c \in Client, NEW k, Reads(c, k)
  PROVE  /\ \A d \in Client : \A l : d # c \/ l # k => (Sent(d, l)' <=> Sent(d, l))
         /\ UNCHANGED <<master, count, enabled, waiting, twoMasters>>
<1>1. UNCHANGED <<master, count, enabled, waiting, twoMasters>>
  BY DEF Reads, clients
<1>2. ASSUME NEW d \in Client, d # c, NEW l PROVE Sent(d, l)' <=> Sent(d, l)
  BY <1>2, ReadQueues DEF Sent
<1>3. ASSUME NEW l, l # k PROVE Sent(c, l)' <=> Sent(c, l)
  <2> DEFINE n == Len(toServer[c])
  <2>1. /\ n \in Nat \ {0} /\ DOMAIN toServer[c] = 1 .. n /\ toServer[c][1].kind = k
        /\ DOMAIN toServer'[c] = 1 .. n - 1
        /\ \A i \in 1 .. n - 1 : toServer'[c][i] = toServer[c][i + 1]
    BY ReadQueues
  <2> HIDE DEF n
  <2>2. ASSUME Sent(c, l) PROVE Sent(c, l)'
    <3>1. PICK i \in 1 .. n : toServer[c][i].kind = l
      BY <2>1, <2>2 DEF Sent
    <3>2. i # 1
      BY <1>3, <2>1, <3>1
    <3>3. i - 1 \in 1 .. n - 1 /\ (i - 1) + 1 = i
      BY <2>1, <3>1, <3>2
    <3>4. toServer'[c][i - 1].kind = l
      BY <2>1, <3>1, <3>3
    <3>5. QED
      BY <2>1, <3>3, <3>4 DEF Sent
  <2>3. ASSUME Sent(c, l)' PROVE Sent(c, l)
    <3>1. PICK i \in 1 .. n - 1 : toServer'[c][i].kind = l
      BY <2>1, <2>3 DEF Sent
    <3>2. i + 1 \in 1 .. n
      BY <2>1
    <3>3. QED
      BY <2>1, <3>1, <3>2 DEF Sent
  <2>4. QED
    BY <2>2, <2>3
<1>4. QED
  BY <1>1, <1>2, <1>3

\* A handler has read a message: what is in the queues, and what was read.
LEMMA ReadQueueInv ==
  ASSUME TypeOK, NEW c \in Client, NEW k, Reads(c, k),
         \A d \in Client : ClientInv(d)
  PROVE  /\ \A d \in Client : QueueInv(d)' /\ WaitInv(d)'
         /\ k = "cleanup" => c \in waiting /\ DOMAIN toServer'[c] = {}
         /\ k = "prepare" => Open(c) \/ (c \in waiting /\ Sent(c, "cleanup")')
         /\ ~Due(c, "done")
<1> DEFINE n == Len(toServer[c])
<1>1. /\ n \in Nat \ {0} /\ DOMAIN toServer[c] = 1 .. n /\ toServer[c][1].kind = k
      /\ DOMAIN toServer'[c] = 1 .. n - 1 /\ Len(toServer'[c]) = n - 1
      /\ \A i \in 1 .. n - 1 : toServer'[c][i] = toServer[c][i + 1]
  BY ReadQueues
<1>2. UNCHANGED <<master, count, waiting>>
  BY ReadSent
<1>3. QueueInv(c) /\ WaitInv(c) /\ DoneInv(c)
  BY DEF ClientInv
<1>4. \A i \in 1 .. n - 1 : i + 1 \in 1 .. n
  BY <1>1
<1>5. 1 \in 1 .. n
  BY <1>1
<1>6. \A i \in 1 .. n :
        /\ toServer[c][i].kind = "prepare" => Open(c) \/ c \in waiting
        /\ toServer[c][i].kind = "cleanup" => c \in waiting /\ i = n
  BY <1>1, <1>3 DEF QueueInv
<1>7. c \in waiting => /\ master[c] = c /\ count[c] = 0
                       /\ toServer[c][n].kind = "cleanup"
  BY <1>1, <1>3 DEF WaitInv
<1> HIDE DEF n
<1>8. ASSUME NEW d \in Client, d # c PROVE QueueInv(d)' /\ WaitInv(d)'
  <2>1. toServer'[d] = toServer[d] /\ QueueInv(d) /\ WaitInv(d)
    BY <1>8, ReadQueues DEF ClientInv
  <2>2. QED
    BY <1>2, <2>1 DEF QueueInv, WaitInv, Open
<1>9. QueueInv(c)'
  <2>1. ASSUME NEW i \in 1 .. n - 1
        PROVE  /\ toServer'[c][i].kind = "prepare" => Open(c)' \/ c \in waiting'
               /\ toServer'[c][i].kind = "cleanup" => c \in waiting' /\ i = n - 1
    <3>1. toServer'[c][i] = toServer[c][i + 1] /\ i + 1 \in 1 .. n
      BY <1>1, <1>4
    <3>2. Open(c)' <=> Open(c)
      BY <1>2 DEF Open
    <3>3. i + 1 = n => i = n - 1
      BY <1>1
    <3>4. QED
      BY <1>2, <1>6, <3>1, <3>2, <3>3
  <2>2. QED
    BY <1>1, <2>1 DEF QueueInv
<1>10. WaitInv(c)'
  <2>1. ASSUME NEW i \in 1 .. n - 1, i = n - 1, c \in waiting
        PROVE  toServer'[c][i].kind = "cleanup"
    <3>1. i + 1 = n
      BY <1>1, <2>1
    <3>2. QED
      BY <1>1, <1>7, <2>1, <3>1
  <2>2. QED
    BY <1>1, <1>2, <1>7, <2>1 DEF WaitInv
<1>11. k = "cleanup" => c \in waiting /\ DOMAIN toServer'[c] = {}
  <2>1. ASSUME k = "cleanup" PROVE c \in waiting /\ n = 1
    BY <1>1, <1>5, <1>6, <2>1
  <2>2. n = 1 => DOMAIN toServer'[c] = {}
    BY <1>1
  <2>3. QED
    BY <2>1, <2>2
<1>12. ASSUME k = "prepare" PROVE Open(c) \/ (c \in waiting /\ Sent(c, "cleanup")')
  <2>1. Open(c) \/ c \in waiting
    BY <1>1, <1>5, <1>6, <1>12
  <2>2. ASSUME c \in waiting PROVE Sent(c, "cleanup")'
    <3>1. n # 1
      BY <1>1, <1>7, <1>12, <2>2
    <3>2. n - 1 \in 1 .. n - 1 /\ (n - 1) + 1 = n
      BY <1>1, <3>1
    <3>3. toServer'[c][n - 1].kind = "cleanup"
      BY <1>1, <1>7, <2>2, <3>2
    <3>4. QED
      BY <1>1, <3>2, <3>3 DEF Sent
  <2>3. QED
    BY <2>1, <2>2
<1>13. ~Due(c, "done")
  BY <1>1, <1>3, <1>5 DEF DoneInv, Due
<1>14. QED
  BY <1>8, <1>9, <1>10, <1>11, <1>12, <1>13

\* What a client is told keeps its invariant.
LEMMA ToldInv ==
  ASSUME TypeOK, NEW d \in Client, NEW m \in ToClient,
         DoneInv(d), EnabledInv(d),
         UNCHANGED <<master, count, enabled, waiting>>,
         toClient'[d] = Append(toClient[d], m),
         DOMAIN toServer[d] = {} => DOMAIN toServer'[d] = {},
         m.kind = "done" => /\ d \in waiting /\ DOMAIN toServer'[d] = {}
                            /\ ~Due(d, "done"),
         m.kind = "progress" => serverEnabled',
         (serverEnabled /\ ~serverEnabled') => m.kind \in {"ended", "done"}
  PROVE  DoneInv(d)' /\ EnabledInv(d)'
<1> DEFINE q == toClient[d]
           t == toClient'[d]
           n == Len(toClient[d])
<1>1. q \in Seq(ToClient) /\ t = Append(q, m)
  BY ClientTypes
<1> HIDE DEF q, t
<1>2. /\ Len(q) \in Nat /\ DOMAIN q = 1 .. Len(q)
      /\ DOMAIN t = 1 .. Len(q) + 1
      /\ \A i \in 1 .. Len(q) : t[i] = q[i]
      /\ t[Len(q) + 1] = m
  BY <1>1, Appended
<1> USE DEF q, t
<1>3. /\ n \in Nat /\ DOMAIN toClient[d] = 1 .. n
      /\ DOMAIN toClient'[d] = 1 .. n + 1
      /\ \A i \in 1 .. n : toClient'[d][i] = toClient[d][i]
      /\ toClient'[d][n + 1] = m
  BY <1>2
<1> HIDE DEF q, t, n
<1>4. \A i \in 1 .. n + 1 : i \in 1 .. n \/ i = n + 1
  BY <1>3
<1>5. n + 1 \in 1 .. n + 1 /\ \A i \in 1 .. n : i \in 1 .. n + 1 /\ n + 1 > i
  BY <1>3
<1>6. \A i \in 1 .. n : toClient[d][i].kind = "done" =>
         /\ d \in waiting
         /\ DOMAIN toServer[d] = {}
         /\ \A j \in 1 .. n : toClient[d][j].kind = "done" => j = i
  BY <1>3 DEF DoneInv
<1>7. Due(d, "done") <=> \E i \in 1 .. n : toClient[d][i].kind = "done"
  BY <1>3 DEF Due
<1>8. DoneInv(d)'
  <2>1. ASSUME NEW i \in 1 .. n + 1, toClient'[d][i].kind = "done"
        PROVE  /\ d \in waiting'
               /\ DOMAIN toServer'[d] = {}
               /\ \A j \in 1 .. n + 1 : toClient'[d][j].kind = "done" => j = i
    <3>1. CASE m.kind = "done"
      <4>1. \A j \in 1 .. n : toClient'[d][j].kind # "done"
        BY <1>3, <1>7, <3>1
      <4>2. QED
        BY <1>4, <2>1, <3>1, <4>1
    <3>2. CASE m.kind # "done"
      <4>1. \A j \in 1 .. n + 1 : toClient'[d][j].kind = "done" =>
              j \in 1 .. n /\ toClient[d][j].kind = "done"
        BY <1>3, <1>4, <3>2
      <4>2. QED
        BY <1>6, <2>1, <4>1
    <3>3. QED
      BY <3>1, <3>2
  <2>2. QED
    BY <1>3, <2>1 DEF DoneInv
<1>9. Open(d)' <=> Open(d)
  BY DEF Open
<1>10. Due(d, "ended") => Due(d, "ended")'
  BY <1>3, <1>5 DEF Due
<1>11. m.kind = "ended" => Due(d, "ended")'
  BY <1>3, <1>5 DEF Due
<1>12. enabled'[d] => \/ serverEnabled' \/ Open(d)' \/ d \in waiting'
                      \/ Due(d, "ended")'
  BY <1>9, <1>10, <1>11 DEF EnabledInv
<1>13. ASSUME NEW i \in 1 .. n + 1, toClient'[d][i].kind = "progress", ~serverEnabled'
       PROVE  \E j \in 1 .. n + 1 :
                 j > i /\ toClient'[d][j].kind \in {"ended", "done"}
  <2>1. i \in 1 .. n /\ toClient[d][i].kind = "progress"
    BY <1>3, <1>4, <1>13
  <2>2. CASE serverEnabled
    BY <1>3, <1>5, <1>13, <2>1, <2>2
  <2>3. CASE ~serverEnabled
    <3>1. PICK j \in 1 .. n : j > i /\ toClient[d][j].kind \in {"ended", "done"}
      BY <1>3, <2>1, <2>3 DEF EnabledInv
    <3>2. QED
      BY <1>3, <1>5, <3>1
  <2>4. QED
    BY <2>2, <2>3
<1>14. EnabledInv(d)'
  <2>1. Open(d)' => enabled'[d]
    BY <1>9 DEF EnabledInv
  <2>2. QED
    BY <1>3, <1>12, <1>13, <2>1 DEF EnabledInv
<1>15. QED
  BY <1>8, <1>14

\* So does silence, unless progress ends.
LEMMA UntoldInv ==
  ASSUME NEW d \in Client, DoneInv(d), EnabledInv(d),
         UNCHANGED <<master, count, enabled, waiting>>,
         toClient'[d] = toClient[d],
         DOMAIN toServer[d] = {} => DOMAIN toServer'[d] = {},
         serverEnabled => serverEnabled'
  PROVE  DoneInv(d)' /\ EnabledInv(d)'
<1>1. Open(d)' <=> Open(d)
  BY DEF Open
<1>2. Due(d, "ended")' <=> Due(d, "ended")
  BY DEF Due
<1>3. DoneInv(d)'
  BY DEF DoneInv
<1>4. EnabledInv(d)'
  BY <1>1, <1>2 DEF EnabledInv
<1>5. QED
  BY <1>3, <1>4

\* Nothing that was empty is filled by reading.
LEMMA ReadEmpty ==
  ASSUME TypeOK, NEW c \in Client, NEW k, Reads(c, k)
  PROVE  \A d \in Client : DOMAIN toServer[d] = {} => DOMAIN toServer'[d] = {}
<1>1. \A d \in Client \ {c} : toServer'[d] = toServer[d]
  BY ReadQueues
<1>2. DOMAIN toServer[c] # {}
  <2>1. Len(toServer[c]) \in Nat \ {0} /\ DOMAIN toServer[c] = 1 .. Len(toServer[c])
    BY ReadQueues
  <2>2. 1 \in DOMAIN toServer[c]
    BY <2>1
  <2>3. QED
    BY <2>2
<1>3. QED
  BY <1>1, <1>2

\* A message more is a message more.
LEMMA ToldDue ==
  ASSUME TypeOK, NEW d \in Client, NEW m \in ToClient,
         toClient'[d] = Append(toClient[d], m)
  PROVE  /\ \A l : Due(d, l) => Due(d, l)'
         /\ Due(d, m.kind)'
<1> DEFINE q == toClient[d]
           t == toClient'[d]
<1>1. q \in Seq(ToClient) /\ t = Append(q, m)
  BY ClientTypes
<1> HIDE DEF q, t
<1>2. /\ Len(q) \in Nat /\ DOMAIN q = 1 .. Len(q)
      /\ DOMAIN t = 1 .. Len(q) + 1
      /\ \A i \in 1 .. Len(q) : t[i] = q[i]
      /\ t[Len(q) + 1] = m
  BY <1>1, Appended
<1>3. \A i \in 1 .. Len(q) : i \in 1 .. Len(q) + 1
  BY <1>2
<1>4. Len(q) + 1 \in 1 .. Len(q) + 1
  BY <1>2
<1>5. \A l : (\E i \in DOMAIN q : q[i].kind = l) => \E i \in DOMAIN t : t[i].kind = l
  BY <1>2, <1>3
<1>6. \E i \in DOMAIN t : t[i].kind = m.kind
  BY <1>2, <1>4
<1>7. QED
  BY <1>5, <1>6 DEF Due, q, t

\* The server handles a prepare: its sender has an open pair, or waits.
LEMMA HandlePrepareKeeps ==
  ASSUME IInv, NEW c \in Client, HandlePrepare(c)
  PROVE  ServerInv' /\ OneMasterInv' /\ \A d \in Client : ClientInv(d)'
<1>1. /\ Reads(c, "prepare")
      /\ serverEnabled' = TRUE /\ toClient' = toClient
  BY DEF HandlePrepare
<1>2. /\ TypeOK /\ \A d \in Client : ClientInv(d)
  BY DEF IInv
<1>3. /\ \A d \in Client : QueueInv(d)' /\ WaitInv(d)'
      /\ Open(c) \/ (c \in waiting /\ Sent(c, "cleanup")')
  BY <1>1, <1>2, ReadQueueInv
<1>4. /\ UNCHANGED <<master, count, enabled, waiting, twoMasters>>
      /\ \A d \in Client : Sent(d, "cleanup")' <=> Sent(d, "cleanup")
  BY <1>1, <1>2, ReadSent
<1>5. \A d \in Client : ClientInv(d)'
  <2> TAKE d \in Client
  <2>1. DoneInv(d)' /\ EnabledInv(d)'
    <3>1. DoneInv(d) /\ EnabledInv(d)
      BY <1>2 DEF ClientInv
    <3>2. QED
      BY <1>1, <1>2, <1>4, <3>1, ReadEmpty, UntoldInv
  <2>2. QED
    BY <1>3, <2>1 DEF ClientInv
<1>6. ServerInv'
  BY <1>3, <1>4 DEF ServerInv, Open
<1>7. OneMasterInv'
  <2>1. SUFFICES ASSUME ~twoMasters
                 PROVE  ~SeesTwoMasters(master)' /\ \A d \in Client : AnswerInv(d)'
    BY <1>4 DEF OneMasterInv
  <2>2. ~SeesTwoMasters(master) /\ \A d \in Client : AnswerInv(d)
    BY <2>1 DEF OneMasterInv, IInv
  <2>3. ASSUME NEW d \in Client PROVE AnswerInv(d)'
    <3>1. Due(d, "done")' <=> Due(d, "done")
      BY <1>1 DEF Due
    <3>2. QED
      BY <1>1, <1>4, <2>2, <3>1 DEF AnswerInv
  <2>4. QED
    BY <1>4, <2>2, <2>3 DEF SeesTwoMasters
<1>8. QED
  BY <1>5, <1>6, <1>7

\* Two handlers that leave the flag alone and may tell clients something.
LEMMA TellingKeeps ==
  ASSUME IInv, NEW c \in Client, NEW k \in {"request", "push"}, Reads(c, k),
         UNCHANGED serverEnabled,
         NEW m \in ToClient, m.kind \in {"progress", "list"},
         m.kind = "progress" /\ toClient' # toClient => serverEnabled,
         \A d \in Client : \/ toClient'[d] = toClient[d]
                           \/ toClient' # toClient /\ toClient'[d] = Append(toClient[d], m)
  PROVE  ServerInv' /\ OneMasterInv' /\ \A d \in Client : ClientInv(d)'
<1>1. TypeOK /\ \A d \in Client : ClientInv(d)
  BY DEF IInv
<1>2. \A d \in Client : QueueInv(d)' /\ WaitInv(d)'
  BY <1>1, ReadQueueInv
<1>3. /\ UNCHANGED <<master, count, enabled, waiting, twoMasters>>
      /\ \A d \in Client : Sent(d, "cleanup")' <=> Sent(d, "cleanup")
      /\ \A d \in Client : Sent(d, "prepare")' <=> Sent(d, "prepare")
  BY <1>1, ReadSent
<1>4. \A d \in Client : ClientInv(d)'
  <2> TAKE d \in Client
  <2>1. DoneInv(d) /\ EnabledInv(d)
    BY <1>1 DEF ClientInv
  <2>2. DOMAIN toServer[d] = {} => DOMAIN toServer'[d] = {}
    BY <1>1, ReadEmpty
  <2>3. CASE toClient'[d] = toClient[d]
    <3>1. DoneInv(d)' /\ EnabledInv(d)'
      BY <1>3, <2>1, <2>2, <2>3, UntoldInv
    <3>2. QED
      BY <1>2, <3>1 DEF ClientInv
  <2>4. CASE toClient' # toClient /\ toClient'[d] = Append(toClient[d], m)
    <3>1. DoneInv(d)' /\ EnabledInv(d)'
      BY <1>1, <1>3, <2>1, <2>2, <2>4, ToldInv
    <3>2. QED
      BY <1>2, <3>1 DEF ClientInv
  <2>5. QED
    BY <2>3, <2>4
<1>5. ServerInv'
  BY <1>3 DEF ServerInv, Open, IInv
<1>6. OneMasterInv'
  <2>1. SUFFICES ASSUME ~twoMasters
                 PROVE  ~SeesTwoMasters(master)' /\ \A d \in Client : AnswerInv(d)'
    BY <1>3 DEF OneMasterInv
  <2>2. ~SeesTwoMasters(master) /\ \A d \in Client : AnswerInv(d)
    BY <2>1 DEF OneMasterInv, IInv
  <2>3. ASSUME NEW d \in Client PROVE AnswerInv(d)'
    <3>1. Due(d, "done") => Due(d, "done")'
      <4>1. CASE toClient'[d] = toClient[d]
        BY <4>1 DEF Due
      <4>2. CASE toClient'[d] = Append(toClient[d], m)
        BY <1>1, <4>2, ToldDue
      <4>3. QED
        BY <4>1, <4>2
    <3>2. Open(d)' <=> Open(d)
      BY <1>3 DEF Open
    <3>3. QED
      BY <1>3, <2>2, <3>1, <3>2 DEF AnswerInv
  <2>4. QED
    BY <1>3, <2>2, <2>3 DEF SeesTwoMasters
<1>7. QED
  BY <1>4, <1>5, <1>6

\* The server handles a request, which may report progress.
LEMMA HandleRequestKeeps ==
  ASSUME IInv, NEW c \in Client, HandleRequest(c)
  PROVE  ServerInv' /\ OneMasterInv' /\ \A d \in Client : ClientInv(d)'
<1> DEFINE m == Message("progress")
<1>1. m \in ToClient /\ m.kind = "progress"
  BY Messages
<1>2. Reads(c, "request") /\ UNCHANGED serverEnabled
  BY DEF HandleRequest, server
<1>3. \/ serverEnabled /\ toClient' = [d \in Client |-> Append(toClient[d], m)]
      \/ toClient' = toClient
  BY DEF HandleRequest
<1> HIDE DEF m
<1>4. QED
  BY <1>1, <1>2, <1>3, TellingKeeps

\* The server handles a list of users.
LEMMA HandlePushKeeps ==
  ASSUME IInv, TypeOK', NEW c \in Client, HandlePush(c)
  PROVE  ServerInv' /\ OneMasterInv' /\ \A d \in Client : ClientInv(d)'
<1> DEFINE m == Naming("list", serverMaster')
<1>1. m \in ToClient /\ m.kind = "list"
  BY Messages DEF TypeOK
<1>2. Reads(c, "push") /\ UNCHANGED serverEnabled
  BY DEF HandlePush
<1>3. \A d \in Client : \/ toClient'[d] = toClient[d]
                        \/ toClient'[d] = Append(toClient[d], m)
  BY DEF HandlePush
<1> HIDE DEF m
<1>4. \A d \in Client : toClient'[d] # toClient[d] => toClient' # toClient
  OBVIOUS
<1>5. QED
  BY <1>1, <1>2, <1>3, <1>4, TellingKeeps

\* With one master at most, the pair that ends is the only one, and the flag
\* is set: nobody else loses it.
LEMMA HandleCleanupKeeps ==
  ASSUME IInv, NEW c \in Client, HandleCleanup(c)
  PROVE  ServerInv' /\ OneMasterInv' /\ \A d \in Client : ClientInv(d)'
<1> DEFINE f(d) == Message(IF d = c THEN "done" ELSE "ended")
<1>1. TypeOK /\ \A d \in Client : ClientInv(d)
  BY DEF IInv
<1>2. Reads(c, "cleanup") /\ serverEnabled' = FALSE
  BY DEF HandleCleanup
<1>3. IF serverEnabled THEN \A d \in Client : toClient'[d] = Append(toClient[d], f(d))
                       ELSE toClient' = toClient
  BY DEF HandleCleanup
<1>4. /\ \A d \in Client : QueueInv(d)' /\ WaitInv(d)'
      /\ c \in waiting /\ DOMAIN toServer'[c] = {} /\ ~Due(c, "done")
  BY <1>1, <1>2, ReadQueueInv
<1>5. UNCHANGED <<master, count, enabled, waiting, twoMasters>>
  BY <1>1, <1>2, ReadSent
<1>6. /\ \A d \in Client : f(d) \in ToClient /\ f(d).kind \in {"ended", "done"}
      /\ \A d \in Client : f(d).kind = "done" <=> d = c
  BY Messages
<1> HIDE DEF f
<1>7. \A d \in Client : ClientInv(d)'
  <2> TAKE d \in Client
  <2>1. DoneInv(d) /\ EnabledInv(d)
    BY <1>1 DEF ClientInv
  <2>2. DOMAIN toServer[d] = {} => DOMAIN toServer'[d] = {}
    BY <1>1, <1>2, ReadEmpty
  <2>3. CASE serverEnabled
    <3>1. toClient'[d] = Append(toClient[d], f(d))
      BY <1>3, <2>3
    <3>2. DoneInv(d)' /\ EnabledInv(d)'
      BY <1>1, <1>4, <1>5, <1>6, <2>1, <2>2, <3>1, ToldInv
    <3>3. QED
      BY <1>4, <3>2 DEF ClientInv
  <2>4. CASE ~serverEnabled
    <3>1. DoneInv(d)' /\ EnabledInv(d)'
      BY <1>3, <1>5, <2>1, <2>2, <2>4, UntoldInv
    <3>2. QED
      BY <1>4, <3>1 DEF ClientInv
  <2>5. QED
    BY <2>3, <2>4
<1>8. ServerInv'
  BY <1>2 DEF ServerInv
<1>9. OneMasterInv'
  <2>1. SUFFICES ASSUME ~twoMasters
                 PROVE  ~SeesTwoMasters(master)' /\ \A d \in Client : AnswerInv(d)'
    BY <1>5 DEF OneMasterInv
  <2>2. ~SeesTwoMasters(master) /\ \A d \in Client : AnswerInv(d)
    BY <2>1 DEF OneMasterInv, IInv
  <2>3. \A d \in Client : WaitInv(d)
    BY <1>1 DEF ClientInv
  <2>4. master[c] = c /\ count[c] = 0
    BY <1>4, <2>3 DEF WaitInv
  <2>5. ASSUME NEW d \in Client, d # c PROVE AnswerInv(d)'
    <3>1. master[d] # d
      BY <2>2, <2>4, <2>5 DEF SeesTwoMasters
    <3>2. ~Open(d) /\ d \notin waiting
      BY <2>3, <3>1 DEF Open, WaitInv
    <3>3. QED
      BY <1>5, <3>2 DEF AnswerInv, Open
  <2>6. ~Sent(c, "prepare")
    <3>1. Len(toServer[c]) \in Nat \ {0} /\ DOMAIN toServer[c] = 1 .. Len(toServer[c])
          /\ toServer[c][1].kind = "cleanup"
          /\ DOMAIN toServer'[c] = 1 .. Len(toServer[c]) - 1
      BY <1>1, <1>2, ReadQueues
    <3>2. Len(toServer[c]) = 1
      <4>1. \A n \in Nat \ {0} : 1 .. n - 1 = {} => n = 1
        <5>1. \A n \in Nat \ {0} : n # 1 => 1 \in 1 .. n - 1
          OBVIOUS
        <5>2. QED
          BY <5>1
      <4>2. QED
        BY <1>4, <3>1, <4>1
    <3>3. QED
      BY <3>1, <3>2 DEF Sent
  <2>7. serverEnabled
    BY <1>4, <2>2, <2>6 DEF AnswerInv
  <2>8. Due(c, "done")'
    <3>1. toClient'[c] = Append(toClient[c], f(c))
      BY <1>3, <2>7
    <3>2. QED
      BY <1>1, <1>6, <3>1, ToldDue
  <2>9. AnswerInv(c)'
    BY <1>5, <2>4, <2>8 DEF AnswerInv, Open
  <2>10. QED
    BY <1>5, <2>2, <2>5, <2>9 DEF SeesTwoMasters
<1>10. QED
  BY <1>7, <1>8, <1>9

-----------------------------------------------------------------------------
(* A client sends                                                          *)

\* The queues once client c has sent m.
LEMMA SendQueues ==
  ASSUME TypeOK, NEW c \in Client, NEW m \in ToServer, SendToServer(c, m)
  PROVE  /\ \A d \in Client \ {c} : toServer'[d] = toServer[d]
         /\ Len(toServer[c]) \in Nat /\ DOMAIN toServer[c] = 1 .. Len(toServer[c])
         /\ Len(toServer'[c]) = Len(toServer[c]) + 1
         /\ DOMAIN toServer'[c] = 1 .. Len(toServer[c]) + 1
         /\ \A i \in 1 .. Len(toServer[c]) : toServer'[c][i] = toServer[c][i]
         /\ toServer'[c][Len(toServer[c]) + 1] = m
<1> DEFINE q == toServer[c]
           t == toServer'[c]
<1>1. q \in Seq(ToServer) /\ t = Append(q, m)
  BY DEF TypeOK, SendToServer
<1> HIDE DEF q, t
<1>2. /\ Len(q) \in Nat /\ DOMAIN q = 1 .. Len(q)
      /\ Len(t) = Len(q) + 1 /\ DOMAIN t = 1 .. Len(q) + 1
      /\ \A i \in 1 .. Len(q) : t[i] = q[i]
      /\ t[Len(q) + 1] = m
  BY <1>1, Appended
<1> USE DEF q, t
<1>3. \A d \in Client \ {c} : toServer'[d] = toServer[d]
  BY DEF TypeOK, SendToServer
<1>4. QED
  BY <1>2, <1>3

\* What was under way still is, and m besides.
LEMMA SendSent ==
  ASSUME TypeOK, NEW c \in Client, NEW m \in ToServer, SendToServer(c, m)
  PROVE  /\ \A d \in Client : \A l : Sent(d, l) => Sent(d, l)'
         /\ Sent(c, m.kind)'
<1>1. \A i \in 1 .. Len(toServer[c]) : i \in 1 .. Len(toServer[c]) + 1
  BY SendQueues
<1>2. Len(toServer[c]) + 1 \in 1 .. Len(toServer[c]) + 1
  BY SendQueues
<1>3. \A l : Sent(c, l) => Sent(c, l)'
  BY <1>1, SendQueues DEF Sent
<1>4. \A d \in Client \ {c} : \A l : Sent(d, l) => Sent(d, l)'
  BY SendQueues DEF Sent
<1>5. Sent(c, m.kind)'
  BY <1>2, SendQueues DEF Sent
<1>6. QED
  BY <1>3, <1>4, <1>5

\* Somebody who does not wait has only prepares to account for.
LEMMA SendQueueInv ==
  ASSUME TypeOK, NEW c \in Client, NEW m \in ToServer, SendToServer(c, m),
         \A d \in Client : ClientInv(d),
         c \notin waiting,
         m.kind = "prepare" => Open(c)',
         m.kind = "cleanup" => c \in waiting',
         c \in waiting' => /\ m.kind = "cleanup"
                           /\ master'[c] = c /\ count'[c] = 0,
         Sent(c, "prepare") => Open(c)' \/ c \in waiting'
  PROVE  QueueInv(c)' /\ WaitInv(c)'
<1> DEFINE n == Len(toServer[c])
<1>1. /\ n \in Nat /\ DOMAIN toServer[c] = 1 .. n
      /\ Len(toServer'[c]) = n + 1 /\ DOMAIN toServer'[c] = 1 .. n + 1
      /\ \A i \in 1 .. n : toServer'[c][i] = toServer[c][i]
      /\ toServer'[c][n + 1] = m
  BY SendQueues
<1> HIDE DEF n
<1>2. \A i \in 1 .. n + 1 : i \in 1 .. n \/ i = n + 1
  BY <1>1
<1>3. \A i \in 1 .. n : toServer[c][i].kind # "cleanup"
  BY <1>1 DEF ClientInv, QueueInv
<1>4. \A i \in 1 .. n : toServer[c][i].kind = "prepare" => Sent(c, "prepare")
  BY <1>1 DEF Sent
<1>5. QueueInv(c)'
  <2>1. ASSUME NEW i \in 1 .. n + 1
        PROVE  /\ toServer'[c][i].kind = "prepare" => Open(c)' \/ c \in waiting'
               /\ toServer'[c][i].kind = "cleanup" => c \in waiting' /\ i = n + 1
    <3>1. CASE i \in 1 .. n
      BY <1>1, <1>3, <1>4, <3>1
    <3>2. CASE i = n + 1
      BY <1>1, <3>2
    <3>3. QED
      BY <1>2, <3>1, <3>2
  <2>2. QED
    BY <1>1, <2>1 DEF QueueInv
<1>6. WaitInv(c)'
  BY <1>1 DEF WaitInv
<1>7. QED
  BY <1>5, <1>6

\* Nothing that concerns d has changed.
LEMMA OtherInv ==
  ASSUME NEW d \in Client, ClientInv(d),
         master'[d] = master[d], count'[d] = count[d], enabled'[d] = enabled[d],
         d \in waiting' <=> d \in waiting,
         toServer'[d] = toServer[d], toClient'[d] = toClient[d],
         UNCHANGED serverEnabled
  PROVE  ClientInv(d)'
<1>1. (Open(d)' <=> Open(d)) /\ (Due(d, "ended")' <=> Due(d, "ended"))
  BY DEF Open, Due
<1>2. QueueInv(d)'
  BY <1>1 DEF ClientInv, QueueInv
<1>3. WaitInv(d)'
  BY DEF ClientInv, WaitInv
<1>4. DoneInv(d)'
  BY DEF ClientInv, DoneInv
<1>5. EnabledInv(d)'
  <2>1. EnabledInv(d)
    BY DEF ClientInv
  <2>2. QED
    BY <1>1, <2>1 DEF EnabledInv
<1>6. QED
  BY <1>2, <1>3, <1>4, <1>5 DEF ClientInv

\* A client that does not wait sends something; it is told nothing.
LEMMA SendKeeps ==
  ASSUME IInv, TypeOK', NEW c \in Client, c \notin waiting,
         NEW m \in ToServer, SendToServer(c, m),
         UNCHANGED <<serverEnabled, toClient, twoMasters>>,
         \A d \in Client \ {c} :
           /\ master'[d] = master[d] /\ count'[d] = count[d] /\ enabled'[d] = enabled[d]
           /\ d \in waiting' <=> d \in waiting,
         m.kind = "prepare" => Open(c)',
         m.kind = "cleanup" => c \in waiting',
         c \in waiting' => /\ m.kind = "cleanup" /\ Open(c)
                           /\ master'[c] = c /\ count'[c] = 0,
         Open(c) => Open(c)' \/ c \in waiting',
         Open(c)' => enabled'[c] /\ (Open(c) \/ m.kind = "prepare"),
         enabled'[c] => enabled[c] \/ Open(c)',
         master'[c] = c => master[c] = c
  PROVE  ServerInv' /\ OneMasterInv' /\ \A d \in Client : ClientInv(d)'
<1>1. TypeOK /\ \A d \in Client : ClientInv(d)
  BY DEF IInv
<1>2. QueueInv(c) /\ WaitInv(c) /\ DoneInv(c) /\ EnabledInv(c)
  BY <1>1 DEF ClientInv
<1>3. Sent(c, "prepare") => Open(c)
  BY <1>2 DEF QueueInv, Sent
<1>4. QueueInv(c)' /\ WaitInv(c)'
  BY <1>1, <1>3, SendQueueInv
<1>5. DoneInv(c)'
  BY <1>2 DEF DoneInv
<1>6. EnabledInv(c)'
  <2>1. Due(c, "ended")' <=> Due(c, "ended")
    BY DEF Due
  <2>2. enabled'[c] => \/ serverEnabled' \/ Open(c)' \/ c \in waiting'
                       \/ Due(c, "ended")'
    BY <1>2, <2>1 DEF EnabledInv
  <2>3. QED
    BY <1>2, <2>2 DEF EnabledInv
<1>7. \A d \in Client \ {c} : toServer'[d] = toServer[d]
  BY <1>1, SendQueues
<1>8. \A d \in Client : ClientInv(d)'
  <2>1. ClientInv(c)'
    BY <1>4, <1>5, <1>6 DEF ClientInv
  <2>2. ASSUME NEW d \in Client \ {c} PROVE ClientInv(d)'
    <3>1. /\ ClientInv(d) /\ toServer'[d] = toServer[d] /\ toClient'[d] = toClient[d]
          /\ master'[d] = master[d] /\ count'[d] = count[d] /\ enabled'[d] = enabled[d]
          /\ d \in waiting' <=> d \in waiting
      BY <1>1, <1>7
    <3>2. QED
      BY <3>1, OtherInv
  <2>3. QED
    BY <2>1, <2>2
<1>9. /\ \A d \in Client : \A l : Sent(d, l) => Sent(d, l)'
      /\ Sent(c, m.kind)'
  BY <1>1, SendSent
<1>10. c \in waiting' => Sent(c, "cleanup")'
  BY <1>9
<1>11. \A d \in Client \ {c} : Open(d)' <=> Open(d)
  BY DEF Open
<1>12. ServerInv'
  <2>1. SUFFICES ASSUME serverEnabled
                 PROVE  \E d \in Client : Open(d)' \/ Sent(d, "cleanup")'
    BY DEF ServerInv
  <2>2. PICK d \in Client : Open(d) \/ Sent(d, "cleanup")
    BY <2>1 DEF IInv, ServerInv
  <2>3. CASE d = c
    BY <1>9, <1>10, <2>2, <2>3
  <2>4. CASE d # c
    BY <1>9, <1>11, <2>2, <2>4
  <2>5. QED
    BY <2>3, <2>4
<1>13. OneMasterInv'
  <2>1. SUFFICES ASSUME ~twoMasters
                 PROVE  ~SeesTwoMasters(master)' /\ \A d \in Client : AnswerInv(d)'
    BY DEF OneMasterInv
  <2>2. ~SeesTwoMasters(master) /\ \A d \in Client : AnswerInv(d)
    BY <2>1 DEF OneMasterInv, IInv
  <2>3. \A d \in Client : master'[d] = d => master[d] = d
    OBVIOUS
  <2>4. ~SeesTwoMasters(master)'
    BY <2>2, <2>3 DEF SeesTwoMasters
  <2>5. ASSUME NEW d \in Client \ {c} PROVE AnswerInv(d)'
    <3>1. AnswerInv(d) /\ (d \in waiting' <=> d \in waiting)
      BY <2>2
    <3>2. Due(d, "done")' <=> Due(d, "done")
      BY DEF Due
    <3>3. QED
      BY <1>9, <1>11, <3>1, <3>2 DEF AnswerInv
  <2>6. AnswerInv(c)'
    <3>1. Open(c) => serverEnabled \/ Sent(c, "prepare")'
      BY <1>9, <2>2 DEF AnswerInv
    <3>2. Open(c)' => serverEnabled' \/ Sent(c, "prepare")'
      BY <1>9, <3>1
    <3>3. ASSUME c \in waiting'
          PROVE  Sent(c, "cleanup")' /\ (serverEnabled' \/ Sent(c, "prepare")')
      <4>1. Open(c)
        BY <3>3
      <4>2. QED
        BY <1>10, <3>1, <3>3, <4>1
    <3>4. QED
      BY <3>2, <3>3 DEF AnswerInv
  <2>7. QED
    BY <2>4, <2>5, <2>6
<1>14. QED
  BY <1>8, <1>12, <1>13

\* A pair within a pair, and the pair of a client that is not the master:
\* nothing is sent.
LEMMA CountKeeps ==
  ASSUME IInv, TypeOK', NEW c \in Client, c \notin waiting,
         UNCHANGED <<master, enabled, waiting, serverEnabled, toServer, toClient, twoMasters>>,
         \A d \in Client \ {c} : count'[d] = count[d],
         Open(c)' <=> Open(c)
  PROVE  ServerInv' /\ OneMasterInv' /\ \A d \in Client : ClientInv(d)'
<1>1. \A d \in Client : Open(d)' <=> Open(d)
  BY DEF Open
<1>2. \A d \in Client : \A l : (Sent(d, l)' <=> Sent(d, l)) /\ (Due(d, l)' <=> Due(d, l))
  BY DEF Sent, Due
<1>3. ServerInv'
  BY <1>1, <1>2 DEF ServerInv, IInv
<1>4. OneMasterInv'
  <2>1. SUFFICES ASSUME ~twoMasters
                 PROVE  ~SeesTwoMasters(master)' /\ \A d \in Client : AnswerInv(d)'
    BY DEF OneMasterInv
  <2>2. ~SeesTwoMasters(master) /\ \A d \in Client : AnswerInv(d)
    BY <2>1 DEF OneMasterInv, IInv
  <2>3. QED
    BY <1>1, <1>2, <2>2 DEF AnswerInv, SeesTwoMasters
<1>5. ASSUME NEW d \in Client PROVE ClientInv(d)'
  <2>1. QueueInv(d) /\ WaitInv(d) /\ DoneInv(d) /\ EnabledInv(d)
    BY DEF IInv, ClientInv
  <2>2. QueueInv(d)'
    BY <1>1, <2>1 DEF QueueInv
  <2>3. WaitInv(d)'
    BY <2>1 DEF WaitInv
  <2>4. DoneInv(d)'
    BY <2>1 DEF DoneInv
  <2>5. EnabledInv(d)'
    BY <1>1, <1>2, <2>1 DEF EnabledInv
  <2>6. QED
    BY <2>2, <2>3, <2>4, <2>5 DEF ClientInv
<1>6. QED
  BY <1>3, <1>4, <1>5

\* A client begins a pair, or one within a pair.
LEMMA PrepareProgressKeeps ==
  ASSUME IInv, TypeOK', NEW c \in Client, PrepareProgress(c)
  PROVE  ServerInv' /\ OneMasterInv' /\ \A d \in Client : ClientInv(d)'
<1>1. /\ c \notin waiting
      /\ count' = [count EXCEPT ![c] = @ + 1]
      /\ UNCHANGED <<master, waiting, server, toClient, twoMasters>>
  BY DEF PrepareProgress
<1>2. /\ count[c] \in Nat /\ count'[c] = count[c] + 1
      /\ \A d \in Client \ {c} : count'[d] = count[d]
  BY <1>1, ClientTypes DEF IInv, TypeOK
<1>3. CASE count[c] = 0 /\ IsMaster(c)
  <2> DEFINE m == Message("prepare")
  <2>1. m \in ToServer /\ m.kind = "prepare"
    BY Messages
  <2>2. SendToServer(c, m) /\ enabled' = [enabled EXCEPT ![c] = TRUE]
    BY <1>3 DEF PrepareProgress
  <2>3. /\ enabled'[c] = TRUE
        /\ \A d \in Client \ {c} : enabled'[d] = enabled[d]
    BY <2>2 DEF IInv, TypeOK
  <2> HIDE DEF m
  <2>4. Open(c)' /\ ~Open(c)
    BY <1>1, <1>2, <1>3 DEF Open, IsMaster
  <2>5. QED
    BY <1>1, <1>2, <2>1, <2>2, <2>3, <2>4, SendKeeps DEF server
<1>4. CASE ~(count[c] = 0 /\ IsMaster(c))
  <2>1. UNCHANGED <<toServer, enabled>>
    BY <1>4 DEF PrepareProgress
  <2>2. Open(c)' <=> Open(c)
    BY <1>1, <1>2, <1>4 DEF Open, IsMaster
  <2>3. QED
    BY <1>1, <1>2, <2>1, <2>2, CountKeeps DEF server
<1>5. QED
  BY <1>3, <1>4

\* A client ends a pair, or one within a pair.
LEMMA CleanupPendingProgressKeeps ==
  ASSUME IInv, TypeOK', NEW c \in Client, CleanupPendingProgress(c)
  PROVE  ServerInv' /\ OneMasterInv' /\ \A d \in Client : ClientInv(d)'
<1>1. /\ c \notin waiting /\ count[c] > 0
      /\ count' = [count EXCEPT ![c] = @ - 1]
      /\ UNCHANGED <<master, enabled, server, toClient, twoMasters>>
  BY DEF CleanupPendingProgress
<1>2. /\ count[c] \in Nat /\ count'[c] = count[c] - 1
      /\ \A d \in Client \ {c} : count'[d] = count[d]
  BY <1>1, ClientTypes DEF IInv, TypeOK
<1>3. CASE count[c] = 1 /\ IsMaster(c)
  <2> DEFINE m == Message("cleanup")
  <2>1. m \in ToServer /\ m.kind = "cleanup"
    BY Messages
  <2>2. Open(c) /\ enabled[c]
    <3>1. Open(c)
      BY <1>3 DEF Open, IsMaster
    <3>2. QED
      BY <3>1 DEF IInv, ClientInv, EnabledInv
  <2>3. SendToServer(c, m) /\ waiting' = waiting \cup {c}
    BY <1>3, <2>2 DEF CleanupPendingProgress
  <2> HIDE DEF m
  <2>4. master'[c] = c /\ count'[c] = 0 /\ ~Open(c)'
    BY <1>1, <1>2, <1>3 DEF Open, IsMaster
  <2>5. QED
    BY <1>1, <1>2, <2>1, <2>2, <2>3, <2>4, SendKeeps DEF server
<1>4. CASE ~(count[c] = 1 /\ IsMaster(c))
  <2>1. UNCHANGED <<toServer, waiting>>
    BY <1>4 DEF CleanupPendingProgress
  <2>2. Open(c)' <=> Open(c)
    BY <1>1, <1>2, <1>4 DEF Open, IsMaster
  <2>3. QED
    BY <1>1, <1>2, <2>1, <2>2, CountKeeps DEF server
<1>5. QED
  BY <1>3, <1>4

\* A client gives the server something to do.
LEMMA RequestKeeps ==
  ASSUME IInv, TypeOK', NEW c \in Client, Request(c)
  PROVE  ServerInv' /\ OneMasterInv' /\ \A d \in Client : ClientInv(d)'
<1> DEFINE m == Message("request")
<1>1. m \in ToServer /\ m.kind = "request"
  BY Messages
<1>2. /\ c \notin waiting /\ SendToServer(c, m)
      /\ UNCHANGED <<master, count, enabled, waiting, serverEnabled, toClient, twoMasters>>
  BY DEF Request, clients, server
<1> HIDE DEF m
<1>3. (Open(c)' <=> Open(c)) /\ (Open(c) => enabled[c])
  BY <1>2 DEF Open, IInv, ClientInv, EnabledInv
<1>4. QED
  BY <1>1, <1>2, <1>3, SendKeeps

\* A client pushes its list.
LEMMA PushListKeeps ==
  ASSUME IInv, TypeOK', NEW c \in Client, PushList(c)
  PROVE  ServerInv' /\ OneMasterInv' /\ \A d \in Client : ClientInv(d)'
<1> DEFINE m == Naming("push", master[c])
<1>1. m \in ToServer /\ m.kind = "push"
  BY Messages, ClientTypes DEF IInv
<1>2. /\ c \notin waiting /\ SendToServer(c, m)
      /\ UNCHANGED <<master, count, enabled, waiting, serverEnabled, toClient, twoMasters>>
  BY DEF PushList, clients, server
<1> HIDE DEF m
<1>3. (Open(c)' <=> Open(c)) /\ (Open(c) => enabled[c])
  BY <1>2 DEF Open, IInv, ClientInv, EnabledInv
<1>4. QED
  BY <1>1, <1>2, <1>3, SendKeeps

\* The master, in no pair, promotes somebody.
LEMMA PromoteToMasterKeeps ==
  ASSUME IInv, TypeOK', NEW c \in Client, NEW id \in Client, PromoteToMaster(c, id)
  PROVE  ServerInv' /\ OneMasterInv' /\ \A d \in Client : ClientInv(d)'
<1> DEFINE m == Naming("push", id)
<1>1. m \in ToServer /\ m.kind = "push"
  BY Messages
<1>2. /\ c \notin waiting /\ SendToServer(c, m) /\ count[c] = 0 /\ master[c] = c
      /\ master' = [master EXCEPT ![c] = id]
      /\ UNCHANGED <<count, enabled, waiting, serverEnabled, toClient, twoMasters>>
  BY DEF PromoteToMaster, server, IsMaster
<1> HIDE DEF m
<1>3. \A d \in Client \ {c} : master'[d] = master[d]
  BY <1>2 DEF IInv, TypeOK
<1>4. ~Open(c)' /\ ~Open(c)
  BY <1>2 DEF Open
<1>5. QED
  BY <1>1, <1>2, <1>3, <1>4, SendKeeps

-----------------------------------------------------------------------------
(* A client receives                                                       *)

\* The n-th message for c has been taken out.
Taken(c, n) ==
  LET len == Len(toClient[c])
  IN  /\ len \in Nat \ {0} /\ n \in 1 .. len
      /\ DOMAIN toClient[c] = 1 .. len
      /\ DOMAIN toClient'[c] = 1 .. len - 1
      /\ \A i \in 1 .. len - 1 : i < n => toClient'[c][i] = toClient[c][i]
      /\ \A i \in 1 .. len - 1 : ~(i < n) => toClient'[c][i] = toClient[c][i + 1]
      /\ \A d \in Client \ {c} : toClient'[d] = toClient[d]

\* A Receive takes out the message it was looking for.
LEMMA RemoveTakes ==
  ASSUME TypeOK, NEW c \in Client, NEW n \in DOMAIN toClient[c],
         toClient' = [toClient EXCEPT ![c] = RemoveAt(@, n)]
  PROVE  Taken(c, n)
<1> DEFINE q == toClient[c]
           t == toClient'[c]
<1>1. q \in Seq(ToClient) /\ t = RemoveAt(q, n) /\ n \in DOMAIN q
  BY DEF TypeOK
<1> HIDE DEF q, t
<1>2. /\ Len(q) \in Nat \ {0} /\ DOMAIN q = 1 .. Len(q)
      /\ DOMAIN t = 1 .. Len(q) - 1
      /\ \A i \in 1 .. Len(q) - 1 : i < n => t[i] = q[i]
      /\ \A i \in 1 .. Len(q) - 1 : ~(i < n) => t[i] = q[i + 1]
  BY <1>1, Removed
<1> USE DEF q, t
<1>3. \A d \in Client \ {c} : toClient'[d] = toClient[d]
  BY DEF TypeOK
<1>4. QED
  BY <1>2, <1>3 DEF Taken

\* The event loop takes out the first message.
LEMMA TailTakes ==
  ASSUME TypeOK, NEW c \in Client, toClient[c] # <<>>,
         toClient' = [toClient EXCEPT ![c] = Tail(@)]
  PROVE  Taken(c, 1) /\ Head(toClient[c]) = toClient[c][1]
<1> DEFINE q == toClient[c]
           t == toClient'[c]
<1>1. q \in Seq(ToClient) /\ t = Tail(q) /\ q # <<>>
  BY DEF TypeOK
<1> HIDE DEF q, t
<1>2. /\ Len(q) \in Nat \ {0} /\ DOMAIN q = 1 .. Len(q)
      /\ DOMAIN t = 1 .. Len(q) - 1 /\ Head(q) = q[1]
      /\ \A i \in 1 .. Len(q) - 1 : t[i] = q[i + 1]
  BY <1>1, Headless
<1>3. \A i \in 1 .. Len(q) - 1 : ~(i < 1)
  BY <1>2
<1>4. 1 \in 1 .. Len(q)
  BY <1>2
<1> USE DEF q, t
<1>5. \A d \in Client \ {c} : toClient'[d] = toClient[d]
  BY DEF TypeOK
<1>6. QED
  BY <1>2, <1>3, <1>4, <1>5 DEF Taken

\* Where the messages that are left have been, and where they are now.
LEMMA Shifted ==
  ASSUME NEW c \in Client, NEW n, Taken(c, n)
  PROVE  /\ \A i \in DOMAIN toClient'[c] :
              \E j \in DOMAIN toClient[c] \ {n} :
                toClient[c][j] = toClient'[c][i] /\ j = IF i < n THEN i ELSE i + 1
         /\ \A j \in DOMAIN toClient[c] \ {n} :
              \E i \in DOMAIN toClient'[c] :
                toClient[c][j] = toClient'[c][i] /\ j = IF i < n THEN i ELSE i + 1
<1> DEFINE len == Len(toClient[c])
<1>1. /\ len \in Nat \ {0} /\ n \in 1 .. len
      /\ DOMAIN toClient[c] = 1 .. len
      /\ DOMAIN toClient'[c] = 1 .. len - 1
      /\ \A i \in 1 .. len - 1 : i < n => toClient'[c][i] = toClient[c][i]
      /\ \A i \in 1 .. len - 1 : ~(i < n) => toClient'[c][i] = toClient[c][i + 1]
  BY DEF Taken
<1> HIDE DEF len
<1>2. ASSUME NEW i \in 1 .. len - 1
      PROVE  \E j \in (1 .. len) \ {n} :
               toClient[c][j] = toClient'[c][i] /\ j = IF i < n THEN i ELSE i + 1
  <2>1. CASE i < n
    <3>1. i \in (1 .. len) \ {n}
      BY <1>1, <2>1
    <3>2. QED
      BY <1>1, <2>1, <3>1
  <2>2. CASE ~(i < n)
    <3>1. i + 1 \in (1 .. len) \ {n}
      BY <1>1, <2>2
    <3>2. QED
      BY <1>1, <2>2, <3>1
  <2>3. QED
    BY <2>1, <2>2
<1>3. ASSUME NEW j \in (1 .. len) \ {n}
      PROVE  \E i \in 1 .. len - 1 :
               toClient[c][j] = toClient'[c][i] /\ j = IF i < n THEN i ELSE i + 1
  <2>1. CASE j < n
    <3>1. j \in 1 .. len - 1
      BY <1>1, <2>1
    <3>2. QED
      BY <1>1, <2>1, <3>1
  <2>2. CASE ~(j < n)
    <3>1. j - 1 \in 1 .. len - 1 /\ ~(j - 1 < n) /\ (j - 1) + 1 = j
      BY <1>1, <2>2
    <3>2. toClient'[c][j - 1] = toClient[c][j]
      BY <1>1, <3>1
    <3>3. QED
      BY <3>1, <3>2
  <2>3. QED
    BY <2>1, <2>2
<1>4. QED
  BY <1>1, <1>2, <1>3

\* Messages of another kind stay.
LEMMA TakenDue ==
  ASSUME NEW c \in Client, NEW n, Taken(c, n),
         NEW l, l # toClient[c][n].kind
  PROVE  Due(c, l)' <=> Due(c, l)
<1>1. ASSUME Due(c, l) PROVE Due(c, l)'
  <2>1. PICK j \in DOMAIN toClient[c] \ {n} : toClient[c][j].kind = l
    BY <1>1 DEF Due
  <2>2. PICK i \in DOMAIN toClient'[c] : toClient[c][j] = toClient'[c][i]
    BY Shifted
  <2>3. QED
    BY <2>1, <2>2 DEF Due
<1>2. ASSUME Due(c, l)' PROVE Due(c, l)
  <2>1. PICK i \in DOMAIN toClient'[c] : toClient'[c][i].kind = l
    BY <1>2 DEF Due
  <2>2. PICK j \in DOMAIN toClient[c] : toClient[c][j] = toClient'[c][i]
    BY Shifted
  <2>3. QED
    BY <2>1, <2>2 DEF Due
<1>3. QED
  BY <1>1, <1>2

\* There is one answer at most, still.
LEMMA TakenDone ==
  ASSUME NEW c \in Client, NEW n, Taken(c, n), DoneInv(c),
         UNCHANGED toServer,
         c \in waiting' \/ c \notin waiting \/ toClient[c][n].kind = "done"
  PROVE  DoneInv(c)'
<1>1. n \in DOMAIN toClient[c] /\ n \in Nat /\ DOMAIN toClient'[c] \subseteq Nat
  BY DEF Taken
<1>2. ASSUME NEW i \in DOMAIN toClient'[c], toClient'[c][i].kind = "done"
      PROVE  /\ c \in waiting'
             /\ DOMAIN toServer'[c] = {}
             /\ \A k \in DOMAIN toClient'[c] : toClient'[c][k].kind = "done" => k = i
  <2>1. PICK j \in DOMAIN toClient[c] \ {n} :
          toClient[c][j] = toClient'[c][i] /\ j = IF i < n THEN i ELSE i + 1
    BY Shifted
  <2>2. /\ c \in waiting /\ DOMAIN toServer[c] = {}
        /\ \A k \in DOMAIN toClient[c] : toClient[c][k].kind = "done" => k = j
    BY <1>2, <2>1 DEF DoneInv
  <2>3. c \in waiting'
    BY <1>1, <2>1, <2>2
  <2>4. ASSUME NEW k \in DOMAIN toClient'[c], toClient'[c][k].kind = "done"
        PROVE  k = i
    <3>1. PICK h \in DOMAIN toClient[c] \ {n} :
            toClient[c][h] = toClient'[c][k] /\ h = IF k < n THEN k ELSE k + 1
      BY Shifted
    <3>2. h = j
      BY <2>2, <2>4, <3>1
    <3>3. i \in Nat /\ k \in Nat
      BY <1>1
    <3>4. QED
      BY <1>1, <2>1, <3>1, <3>2, <3>3
  <2>5. QED
    BY <2>2, <2>3, <2>4
<1>3. QED
  BY <1>2 DEF DoneInv

\* The end of progress that is still to be received comes after it, still.
LEMMA TakenProgress ==
  ASSUME NEW c \in Client, NEW n, Taken(c, n), EnabledInv(c),
         UNCHANGED serverEnabled,
         \/ toClient[c][n].kind \notin {"ended", "done"}
         \/ \A i \in DOMAIN toClient[c] : i < n => toClient[c][i].kind # "progress",
         NEW i \in DOMAIN toClient'[c], toClient'[c][i].kind = "progress",
         ~serverEnabled
  PROVE  \E k \in DOMAIN toClient'[c] :
           k > i /\ toClient'[c][k].kind \in {"ended", "done"}
<1>1. /\ n \in DOMAIN toClient[c] /\ n \in Nat
      /\ DOMAIN toClient[c] \subseteq Nat /\ DOMAIN toClient'[c] \subseteq Nat
  BY DEF Taken
<1>2. PICK j \in DOMAIN toClient[c] \ {n} :
        toClient[c][j] = toClient'[c][i] /\ j = IF i < n THEN i ELSE i + 1
  BY Shifted
<1>3. PICK h \in DOMAIN toClient[c] :
        h > j /\ toClient[c][h].kind \in {"ended", "done"}
  BY <1>2 DEF EnabledInv
<1>4. h # n
  <2>1. SUFFICES ASSUME h = n PROVE FALSE
    OBVIOUS
  <2>2. j < n
    BY <1>1, <1>3, <2>1
  <2>3. QED
    BY <1>2, <1>3, <2>1, <2>2
<1>5. PICK k \in DOMAIN toClient'[c] :
        toClient[c][h] = toClient'[c][k] /\ h = IF k < n THEN k ELSE k + 1
  BY <1>4, Shifted
<1>6. k > i
  <2>1. i \in Nat /\ k \in Nat /\ j \in Nat /\ h \in Nat
    BY <1>1
  <2>2. QED
    BY <1>1, <1>2, <1>3, <1>5, <2>1
<1>7. QED
  BY <1>3, <1>5, <1>6

\* A client gets the answer it waits for.
LEMMA ReceiveDoneKeeps ==
  ASSUME IInv, NEW c \in Client, ReceiveDone(c)
  PROVE  ServerInv' /\ OneMasterInv' /\ \A d \in Client : ClientInv(d)'
<1>1. /\ TypeOK /\ \A d \in Client : ClientInv(d)
  BY DEF IInv
<1>2. PICK n \in DOMAIN toClient[c] :
        /\ NextTagged(toClient[c], n)
        /\ toClient[c][n].kind = "done"
        /\ toClient' = [toClient EXCEPT ![c] = RemoveAt(@, n)]
  BY DEF ReceiveDone
<1>3. /\ c \in waiting /\ waiting' = waiting \ {c}
      /\ enabled' = [enabled EXCEPT ![c] = FALSE]
      /\ UNCHANGED <<master, count, serverEnabled, toServer, twoMasters>>
  BY DEF ReceiveDone, server
<1>4. Taken(c, n)
  BY <1>1, <1>2, RemoveTakes
<1>5. /\ enabled'[c] = FALSE
      /\ \A d \in Client \ {c} : enabled'[d] = enabled[d] /\ toClient'[d] = toClient[d]
  BY <1>1, <1>3, <1>4 DEF TypeOK, Taken
<1>6. QueueInv(c) /\ WaitInv(c) /\ DoneInv(c) /\ EnabledInv(c)
  BY <1>1 DEF ClientInv
<1>7. DOMAIN toServer[c] = {}
  BY <1>2, <1>6 DEF DoneInv
<1>8. /\ \A d \in Client : Open(d)' <=> Open(d)
      /\ \A d \in Client : \A l : Sent(d, l)' <=> Sent(d, l)
  BY <1>3 DEF Open, Sent
<1>9. ~Open(c)
  BY <1>3, <1>6 DEF WaitInv, Open
<1>10. ClientInv(c)'
  <2>1. QueueInv(c)'
    BY <1>3, <1>7 DEF QueueInv
  <2>2. WaitInv(c)'
    BY <1>3 DEF WaitInv
  <2>3. DoneInv(c)'
    BY <1>2, <1>3, <1>4, <1>6, TakenDone
  <2>4. \A i \in DOMAIN toClient[c] : i < n => toClient[c][i].kind # "progress"
    BY <1>2 DEF NextTagged, IsRMI
  <2>5. EnabledInv(c)'
    <3>1. ASSUME NEW i \in DOMAIN toClient'[c], toClient'[c][i].kind = "progress",
                 ~serverEnabled
          PROVE  \E k \in DOMAIN toClient'[c] :
                   k > i /\ toClient'[c][k].kind \in {"ended", "done"}
      BY <1>3, <1>4, <1>6, <2>4, <3>1, TakenProgress
    <3>2. QED
      BY <1>3, <1>5, <1>8, <1>9, <3>1 DEF EnabledInv
  <2>6. QED
    BY <2>1, <2>2, <2>3, <2>5 DEF ClientInv
<1>11. ASSUME NEW d \in Client, d # c PROVE ClientInv(d)'
  BY <1>1, <1>3, <1>5, <1>11, OtherInv
<1>12. ServerInv'
  BY <1>3, <1>8 DEF ServerInv, IInv
<1>13. OneMasterInv'
  <2>1. SUFFICES ASSUME ~twoMasters
                 PROVE  ~SeesTwoMasters(master)' /\ \A d \in Client : AnswerInv(d)'
    BY <1>3 DEF OneMasterInv
  <2>2. ~SeesTwoMasters(master) /\ \A d \in Client : AnswerInv(d)
    BY <2>1 DEF OneMasterInv, IInv
  <2>3. AnswerInv(c)'
    BY <1>3, <1>8, <1>9 DEF AnswerInv
  <2>4. ASSUME NEW d \in Client, d # c PROVE AnswerInv(d)'
    <3>1. Due(d, "done")' <=> Due(d, "done")
      BY <1>5, <2>4 DEF Due
    <3>2. QED
      BY <1>3, <1>8, <2>2, <2>4, <3>1 DEF AnswerInv
  <2>5. QED
    BY <1>3, <2>2, <2>3, <2>4 DEF SeesTwoMasters
<1>14. QED
  BY <1>10, <1>11, <1>12, <1>13

\* A client meets a progress message.
LEMMA ReceiveProgressKeeps ==
  ASSUME IInv, NEW c \in Client, ReceiveProgress(c)
  PROVE  ServerInv' /\ OneMasterInv' /\ \A d \in Client : ClientInv(d)'
<1>1. /\ TypeOK /\ \A d \in Client : ClientInv(d)
  BY DEF IInv
<1>2. PICK n \in DOMAIN toClient[c] :
        /\ NextTagged(toClient[c], n)
        /\ toClient[c][n].kind = "progress"
        /\ toClient' = [toClient EXCEPT ![c] = RemoveAt(@, n)]
  BY DEF ReceiveProgress
<1>3. /\ enabled' = [enabled EXCEPT ![c] = TRUE]
      /\ UNCHANGED <<master, count, waiting, serverEnabled, toServer, twoMasters>>
  BY DEF ReceiveProgress, server
<1>4. Taken(c, n)
  BY <1>1, <1>2, RemoveTakes
<1>5. /\ enabled'[c] = TRUE
      /\ \A d \in Client \ {c} : enabled'[d] = enabled[d] /\ toClient'[d] = toClient[d]
  BY <1>1, <1>3, <1>4 DEF TypeOK, Taken
<1>6. QueueInv(c) /\ WaitInv(c) /\ DoneInv(c) /\ EnabledInv(c)
  BY <1>1 DEF ClientInv
<1>7. /\ \A d \in Client : Open(d)' <=> Open(d)
      /\ \A d \in Client : \A l : Sent(d, l)' <=> Sent(d, l)
  BY <1>3 DEF Open, Sent
<1>8. /\ Due(c, "ended")' <=> Due(c, "ended")
      /\ Due(c, "done")' <=> Due(c, "done")
  BY <1>2, <1>4, TakenDue
<1>9. ClientInv(c)'
  <2>1. QueueInv(c)'
    BY <1>3, <1>6, <1>7 DEF QueueInv
  <2>2. WaitInv(c)'
    BY <1>3, <1>6 DEF WaitInv
  <2>3. DoneInv(c)'
    BY <1>3, <1>4, <1>6, TakenDone
  <2>4. serverEnabled \/ c \in waiting \/ Due(c, "ended")
    <3>1. SUFFICES ASSUME ~serverEnabled PROVE c \in waiting \/ Due(c, "ended")
      OBVIOUS
    <3>2. PICK j \in DOMAIN toClient[c] : toClient[c][j].kind \in {"ended", "done"}
      BY <1>2, <1>6, <3>1 DEF EnabledInv
    <3>3. QED
      BY <1>6, <3>2 DEF DoneInv, Due
  <2>5. EnabledInv(c)'
    <3>1. ASSUME NEW i \in DOMAIN toClient'[c], toClient'[c][i].kind = "progress",
                 ~serverEnabled
          PROVE  \E k \in DOMAIN toClient'[c] :
                   k > i /\ toClient'[c][k].kind \in {"ended", "done"}
      BY <1>2, <1>3, <1>4, <1>6, <3>1, TakenProgress
    <3>2. QED
      BY <1>3, <1>5, <1>8, <2>4, <3>1 DEF EnabledInv
  <2>6. QED
    BY <2>1, <2>2, <2>3, <2>5 DEF ClientInv
<1>10. ASSUME NEW d \in Client, d # c PROVE ClientInv(d)'
  BY <1>1, <1>3, <1>5, <1>10, OtherInv
<1>11. ServerInv'
  BY <1>3, <1>7 DEF ServerInv, IInv
<1>12. OneMasterInv'
  <2>1. SUFFICES ASSUME ~twoMasters
                 PROVE  ~SeesTwoMasters(master)' /\ \A d \in Client : AnswerInv(d)'
    BY <1>3 DEF OneMasterInv
  <2>2. ~SeesTwoMasters(master) /\ \A d \in Client : AnswerInv(d)
    BY <2>1 DEF OneMasterInv, IInv
  <2>3. ASSUME NEW d \in Client PROVE AnswerInv(d)'
    <3>1. Due(d, "done")' <=> Due(d, "done")
      BY <1>5, <1>8 DEF Due
    <3>2. QED
      BY <1>3, <1>7, <2>2, <3>1 DEF AnswerInv
  <2>4. QED
    BY <1>3, <2>2, <2>3 DEF SeesTwoMasters
<1>13. QED
  BY <1>9, <1>10, <1>11, <1>12

\* A client in no pair handles a notification.
LEMMA ProcessRMIKeeps ==
  ASSUME IInv, NEW c \in Client, ProcessRMI(c)
  PROVE  ServerInv' /\ OneMasterInv' /\ \A d \in Client : ClientInv(d)'
<1> DEFINE m == Head(toClient[c])
<1>1. /\ TypeOK /\ \A d \in Client : ClientInv(d)
  BY DEF IInv
<1>2. /\ c \notin waiting /\ count[c] = 0 /\ toClient[c] # <<>> /\ IsRMI(m)
      /\ toClient' = [toClient EXCEPT ![c] = Tail(@)]
      /\ \/ m.kind = "list" /\ master' = [master EXCEPT ![c] = m.master] /\ UNCHANGED enabled
         \/ enabled' = [enabled EXCEPT ![c] = FALSE] /\ UNCHANGED master
      /\ twoMasters' = (twoMasters \/ SeesTwoMasters(master'))
      /\ UNCHANGED <<count, waiting, serverEnabled, toServer>>
  BY DEF ProcessRMI, Process, server
<1>3. Taken(c, 1) /\ m = toClient[c][1]
  BY <1>1, <1>2, TailTakes
<1>4. m.kind \in {"list", "ended"}
  BY <1>2 DEF IsRMI
<1> HIDE DEF m
<1>5. \A d \in Client \ {c} : /\ master'[d] = master[d] /\ enabled'[d] = enabled[d]
                              /\ toClient'[d] = toClient[d]
  BY <1>1, <1>2, <1>3 DEF TypeOK, Taken
<1>6. \/ m.kind = "list" /\ enabled'[c] = enabled[c]
      \/ enabled'[c] = FALSE
  BY <1>1, <1>2 DEF TypeOK
<1>7. QueueInv(c) /\ WaitInv(c) /\ DoneInv(c) /\ EnabledInv(c)
  BY <1>1 DEF ClientInv
<1>8. ~Open(c) /\ ~Open(c)'
  BY <1>2 DEF Open
<1>9. /\ \A d \in Client : Open(d)' <=> Open(d)
      /\ \A d \in Client : \A l : Sent(d, l)' <=> Sent(d, l)
  BY <1>2, <1>5, <1>8 DEF Open, Sent
<1>10. ClientInv(c)'
  <2>1. QueueInv(c)'
    BY <1>2, <1>7, <1>9 DEF QueueInv
  <2>2. WaitInv(c)'
    BY <1>2 DEF WaitInv
  <2>3. DoneInv(c)'
    BY <1>2, <1>3, <1>7, TakenDone
  <2>4. \A i \in DOMAIN toClient[c] : ~(i < 1)
    BY <1>3 DEF Taken
  <2>5. m.kind = "list" => (Due(c, "ended")' <=> Due(c, "ended"))
    BY <1>3, TakenDue
  <2>6. EnabledInv(c)'
    <3>1. ASSUME NEW i \in DOMAIN toClient'[c], toClient'[c][i].kind = "progress",
                 ~serverEnabled
          PROVE  \E k \in DOMAIN toClient'[c] :
                   k > i /\ toClient'[c][k].kind \in {"ended", "done"}
      BY <1>2, <1>3, <1>7, <2>4, <3>1, TakenProgress
    <3>2. enabled'[c] => serverEnabled' \/ Due(c, "ended")'
      BY <1>2, <1>6, <1>7, <1>8, <2>5 DEF EnabledInv
    <3>3. QED
      BY <1>2, <1>8, <3>1, <3>2 DEF EnabledInv
  <2>7. QED
    BY <2>1, <2>2, <2>3, <2>6 DEF ClientInv
<1>11. ASSUME NEW d \in Client, d # c PROVE ClientInv(d)'
  BY <1>1, <1>2, <1>5, <1>11, OtherInv
<1>12. ServerInv'
  BY <1>2, <1>9 DEF ServerInv, IInv
<1>13. OneMasterInv'
  <2>1. SUFFICES ASSUME ~twoMasters'
                 PROVE  ~SeesTwoMasters(master)' /\ \A d \in Client : AnswerInv(d)'
    BY DEF OneMasterInv
  <2>2. ~twoMasters /\ ~SeesTwoMasters(master)'
    BY <1>2, <2>1 DEF SeesTwoMasters
  <2>3. \A d \in Client : AnswerInv(d)
    BY <2>2 DEF OneMasterInv, IInv
  <2>4. AnswerInv(c)'
    BY <1>2, <1>8 DEF AnswerInv
  <2>5. ASSUME NEW d \in Client, d # c PROVE AnswerInv(d)'
    <3>1. Due(d, "done")' <=> Due(d, "done")
      BY <1>5, <2>5 DEF Due
    <3>2. QED
      BY <1>2, <1>9, <2>3, <2>5, <3>1 DEF AnswerInv
  <2>6. QED
    BY <2>2, <2>4, <2>5
<1>14. QED
  BY <1>10, <1>11, <1>12, <1>13

-----------------------------------------------------------------------------
(* The theorems                                                            *)

\* The invariant holds at the start.
LEMMA InitIInv == Init => IInv
<1> SUFFICES ASSUME Init PROVE IInv
  OBVIOUS
<1>1. TypeOK
  <2>1. /\ master \in [Client -> Client] /\ serverMaster \in Client
        /\ enabled \in [Client -> BOOLEAN] /\ waiting \subseteq Client
        /\ serverEnabled \in BOOLEAN /\ twoMasters \in BOOLEAN
    BY FirstAssumption DEF Init
  <2>2. count \in [Client -> 0 .. MaxDepth] /\ ops \in 0 .. MaxOps
    BY BoundsAssumption DEF Init
  <2>3. toServer \in [Client -> Seq(ToServer)] /\ toClient \in [Client -> Seq(ToClient)]
    <3>1. <<>> \in Seq(ToServer) /\ <<>> \in Seq(ToClient)
      BY EmptySeq
    <3>2. QED
      BY <3>1 DEF Init
  <2>4. QED
    BY <2>1, <2>2, <2>3 DEF TypeOK
<1>2. ASSUME NEW c \in Client
      PROVE  /\ master[c] = First /\ count[c] = 0 /\ ~enabled[c] /\ c \notin waiting
             /\ DOMAIN toServer[c] = {} /\ DOMAIN toClient[c] = {}
  BY EmptySeq DEF Init
<1>3. ServerInv
  BY DEF Init, ServerInv
<1>4. OneMasterInv
  BY <1>2 DEF OneMasterInv, SeesTwoMasters, AnswerInv, Open
<1>5. ASSUME NEW c \in Client PROVE ClientInv(c)
  <2>1. QueueInv(c) /\ WaitInv(c)
    BY <1>2 DEF QueueInv, WaitInv
  <2>2. DoneInv(c)
    BY <1>2 DEF DoneInv
  <2>3. ~Open(c)
    BY <1>2 DEF Open
  <2>4. EnabledInv(c)
    BY <1>2, <2>3 DEF EnabledInv
  <2>5. QED
    BY <2>1, <2>2, <2>4 DEF ClientInv
<1>6. QED
  BY <1>1, <1>3, <1>4, <1>5 DEF IInv

\* Every step keeps the invariant.
LEMMA StepIInv ==
  ASSUME IInv, [Next]_vars
  PROVE  IInv'
<1>1. TypeOK'
  BY TypeStep DEF IInv
<1>2. CASE UNCHANGED vars
  <2>1. UNCHANGED <<master, count, enabled, waiting, serverEnabled, toServer, toClient, twoMasters>>
    BY <1>2 DEF vars, clients, server
  <2>2. ASSUME NEW c \in Client PROVE ClientInv(c)'
    BY <2>1, OtherInv DEF IInv
  <2>3. ServerInv'
    BY <2>1 DEF IInv, ServerInv, Open, Sent
  <2>4. OneMasterInv'
    BY <2>1 DEF IInv, OneMasterInv, SeesTwoMasters, AnswerInv, Open, Sent, Due
  <2>5. QED
    BY <1>1, <2>2, <2>3, <2>4 DEF IInv
<1>3. CASE Next
  <2>1. PICK c \in Client :
          \/ PrepareProgress(c) \/ CleanupPendingProgress(c)
          \/ ReceiveDone(c) \/ ReceiveProgress(c) \/ ProcessRMI(c)
          \/ Request(c) \/ (\E id \in Client : PromoteToMaster(c, id)) \/ PushList(c)
          \/ HandlePrepare(c) \/ HandleCleanup(c) \/ HandleRequest(c) \/ HandlePush(c)
    BY <1>3 DEF Next
  <2>2. ServerInv' /\ OneMasterInv' /\ \A d \in Client : ClientInv(d)'
    BY <1>1, <2>1, PrepareProgressKeeps, CleanupPendingProgressKeeps,
       ReceiveDoneKeeps, ReceiveProgressKeeps, ProcessRMIKeeps, RequestKeeps,
       PromoteToMasterKeeps, PushListKeeps, HandlePrepareKeeps, HandleCleanupKeeps,
       HandleRequestKeeps, HandlePushKeeps
  <2>3. QED
    BY <1>1, <2>2 DEF IInv
<1>4. QED
  BY <1>2, <1>3

\* The invariant holds in every reachable state: what PrepareProgress,
\* CleanupPendingProgress and the server's handlers rely on.
THEOREM Inductive == Spec => []IInv
<1>1. Init => IInv
  BY InitIInv
<1>2. IInv /\ [Next]_vars => IInv'
  BY StepIInv
<1>3. QED
  BY <1>1, <1>2, PTL DEF Spec

\* The clients' counts stay within the nesting of their pairs, and queues
\* hold what the two sides send.
THEOREM TypeCorrect == Spec => []TypeOK
<1>1. IInv => TypeOK
  BY DEF IInv
<1>2. QED
  BY <1>1, Inductive, PTL

\* The server's answer (vtkPVProgressHandler::CleanupPendingProgress) finds
\* its client in Receive(CLEANUP_TAG).
THEOREM AnswersAreAwaited == Spec => []NoStrayAnswer
<1>1. IInv => NoStrayAnswer
  BY DEF IInv, ClientInv, DoneInv, NoStrayAnswer, Due
<1>2. QED
  BY <1>1, Inductive, PTL

\* A client that waits in Receive(CLEANUP_TAG) will be answered, unless two
\* clients have believed at once to be the master.
THEOREM WaitsAreAnswered == Spec => []WaitsInVainOnlyAfterTwoMasters
<1>1. IInv => WaitsInVainOnlyAfterTwoMasters
  <2>1. ASSUME IInv, ~twoMasters, NEW c \in waiting
        PROVE  Sent(c, "cleanup") \/ Due(c, "done")
    BY <2>1 DEF IInv, TypeOK, OneMasterInv, AnswerInv
  <2>2. QED
    BY <2>1 DEF WaitsInVainOnlyAfterTwoMasters, NobodyWaitsInVain
<1>2. QED
  BY <1>1, Inductive, PTL

\* When all is quiet, EnableProgress is unset in every process.
THEOREM AllProgressEnds == Spec => []ProgressEnds
<1>1. IInv => ProgressEnds
  <2>1. SUFFICES ASSUME IInv, waiting = {},
                        \A c \in Client :
                          count[c] = 0 /\ toServer[c] = <<>> /\ toClient[c] = <<>>
                 PROVE  ~serverEnabled /\ \A c \in Client : ~enabled[c]
    BY DEF ProgressEnds
  <2>2. ASSUME NEW c \in Client
        PROVE  ~Open(c) /\ ~Sent(c, "cleanup") /\ ~Due(c, "ended")
    <3>1. DOMAIN toServer[c] = {} /\ DOMAIN toClient[c] = {}
      BY <2>1, EmptySeq
    <3>2. QED
      BY <2>1, <3>1 DEF Open, Sent, Due
  <2>3. ~serverEnabled
    BY <2>1, <2>2 DEF IInv, ServerInv
  <2>4. ASSUME NEW c \in Client PROVE ~enabled[c]
    BY <2>1, <2>2, <2>3 DEF IInv, ClientInv, EnabledInv
  <2>5. QED
    BY <2>3, <2>4
<1>2. QED
  BY <1>1, Inductive, PTL

=============================================================================
