----------------------------- MODULE IdAllocator -----------------------------
(***************************************************************************)
(* What the clients of GetNextChunkGlobalUniqueIdentifier may count on:    *)
(* each call gives its caller as many consecutive ids as it asked for,     *)
(* none of them reserved, and none of them given to anyone before.         *)
(*                                                                         *)
(* The promise is kept to a client, and with respect to other clients,     *)
(* only until something spoils it: from then on the client may get any     *)
(* ids.  GlobalIdChunks says what does.                                    *)
(***************************************************************************)
EXTENDS Integers

CONSTANTS
  Client,    \* the callers
  Sizes,     \* how many ids a call may ask for
  Reserved   \* the ids 1 .. Reserved are never given out

VARIABLES
  given,     \* [client -> ids it has been given]
  next,      \* [client -> the id that follows those of its last call]
  spoiled    \* clients to which nothing is promised any more

Init ==
  /\ given = [c \in Client |-> {}]
  /\ next = [c \in Client |-> 0]
  /\ spoiled = {}

\* One call of c.  Its ids are those it has afterwards and had not before:
\* an id given twice would be missing among them.
Give(c) ==
  LET ids == given'[c] \ given[c]
  IN  /\ c \notin spoiled
      /\ \E first \in ids, n \in Sizes :
           /\ ids = first .. first + n - 1
           /\ next' = [next EXCEPT ![c] = first + n]
      /\ \A id \in ids : id > Reserved
      /\ \A d \in Client \ spoiled : ids \cap given[d] = {}
      /\ given' = [given EXCEPT ![c] = @ \cup ids]
      /\ UNCHANGED spoiled

\* One call of a client to which nothing is promised.
GiveAny(c) ==
  LET ids == given'[c] \ given[c]
  IN  /\ c \in spoiled
      /\ given' = [given EXCEPT ![c] = @ \cup ids]
      /\ next' = [next EXCEPT ![c] = next'[c]]
      /\ UNCHANGED spoiled

\* From now on, nothing is promised to some clients.
Spoil ==
  /\ spoiled \subseteq spoiled'
  /\ spoiled' \subseteq Client
  /\ UNCHANGED <<given, next>>

Next == Spoil \/ \E c \in Client : Give(c) \/ GiveAny(c)

Spec == Init /\ [][Next]_<<given, next, spoiled>>
=============================================================================
