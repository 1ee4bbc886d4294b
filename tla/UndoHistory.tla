----------------------------- MODULE UndoHistory -----------------------------
(***************************************************************************)
(* Undo and redo in the GUI client: pqUndoStack on vtkSMUndoStack and the  *)
(* builder that records what changes.                                      *)
(*                                                                         *)
(* Every state a remote object pushes passes vtkSMSession, which keeps the *)
(* latest one (cache) and tells the builder the old and the new.  Between  *)
(* BEGIN_UNDO_SET and END_UNDO_SET the builder collects undo elements into *)
(* a set and pushes it at the end; outside, each change is a set by        *)
(* itself; between BEGIN_UNDO_EXCLUDE and END_UNDO_EXCLUDE it ignores all. *)
(* Undoing a set loads states back, the last element first, and creates    *)
(* registered proxies that are gone anew.                                  *)
(*                                                                         *)
(* The state of the Pipeline object is the set of registered proxies;      *)
(* proxies live as long as they are registered.  Property values are       *)
(* opaque.  Filtered proxies (cameras, widgets, selection) are left out,   *)
(* and so are links, labels, and sessions other than the one.              *)
(***************************************************************************)
EXTENDS Integers, Sequences, FiniteSets, SequencesExt

CONSTANTS
  Proxies,      \* remote objects that can be registered
  Values,       \* what their properties can be set to
  Pipeline,     \* the vtkSMPipelineState
  NoState,      \* no state: not registered, or not cached
  StackDepth,   \* sets kept: 10; 0 for no limit
  ClearDepth,   \* clear() is called in at most this many excluded sections
  MaxChanges,   \* bound: changes to objects, undo and redo not counted
  MaxSections   \* bound: open sections

ASSUME PipelineAssumption == Pipeline \notin Proxies
ASSUME NoStateAssumption ==
  /\ NoState \notin Values
  /\ NoState \notin [Proxies \cup {Pipeline} ->
                       Values \cup {NoState} \cup SUBSET Proxies]
ASSUME DepthAssumption == StackDepth \in Nat /\ ClearDepth \in Nat
ASSUME BoundsAssumption == MaxChanges \in Nat /\ MaxSections \in Nat

VARIABLES
  multiClients,   \* vtkPVSession::IsMultiClients, fixed by the server
  state,          \* [object -> its state]
  modified,       \* [proxy -> pqProxy::ModifiedState] (MODIFIED left out)
  cache,          \* the session's StateLocator: [object -> latest pushed state]
  undoSet,        \* the builder's UndoSet
  monitoring,     \* the builder's EnableMonitoring
  ignoreAll,      \* the builder's IgnoreAllChanges
  nestedCount,    \* pqUndoStack's NestedCount
  ignoreStack,    \* pqUndoStack's IgnoreAllChangesStack
  undoStack,      \* sets that can be undone, the next one last
  redoStack,      \* sets that can be redone, the next one last
  sections,       \* the callers' open sections, innermost last
  begun,          \* history: states when the open set was begun (or cleared)
  tainted,        \* history: objects changed behind the back of the stack
  changes         \* number of changes to objects

guiVars == <<nestedCount, ignoreStack, sections>>
builderVars == <<monitoring, ignoreAll>>
setVars == <<undoSet, undoStack, redoStack>>
vars == <<multiClients, state, modified, cache, setVars, builderVars, guiVars,
          begun, tainted, changes>>

Objects == Proxies \cup {Pipeline}
Registered == state[Pipeline]
Open(kind) == \E i \in DOMAIN sections : sections[i] = kind
Depth(kind) == Cardinality({i \in DOMAIN sections : sections[i] = kind})

\* vtkSMRemoteObjectUpdateUndoElement and pqProxyModifiedStateUndoElement.
Update(o, before, after) ==
  [kind |-> "update", id |-> o, before |-> before, after |-> after]
MadeUnmodified(p) == [kind |-> "modified", id |-> p, reverse |-> FALSE]
MadeUninitialized(p) == [kind |-> "modified", id |-> p, reverse |-> TRUE]

-----------------------------------------------------------------------------
(* The stack                                                               *)

\* Mutant: one set too many is kept.
TrimmedLate(stack) ==
  IF StackDepth > 0 /\ Len(stack) > StackDepth
  THEN SubSeq(stack, Len(stack) - StackDepth + 1, Len(stack)) ELSE stack

\* The oldest sets make room for one more.
Trimmed(stack) ==
  IF StackDepth > 0 /\ Len(stack) >= StackDepth
  THEN SubSeq(stack, Len(stack) - StackDepth + 2, Len(stack)) ELSE stack

\* vtkUndoStack::Push; from and to are history.
PushSet(elements, from, to) ==
  /\ undoStack' = Append(Trimmed(undoStack),
                         [elements |-> elements, from |-> from, to |-> to])
  /\ redoStack' = <<>>
  /\ undoSet' = <<>>

-----------------------------------------------------------------------------
(* The builder                                                             *)

\* OnStateChange has nothing to record: ignored, or a session of several.
Ignores == ignoreAll \/ multiClients

\* pqUndoStackBuilder::OnStateChange for a change of the state of an object
\* (the first element), with what is added to the open set along with it.
Record(elements) ==
  IF Ignores
  THEN UNCHANGED setVars
  ELSE IF monitoring > 0
  THEN undoSet' = undoSet \o elements /\ UNCHANGED <<undoStack, redoStack>>
  ELSE PushSet(<<elements[1]>>, state, state')

\* An object changed: if no one recorded it, the stack does not know of it.
Taint(o) ==
  IF ~Ignores THEN UNCHANGED tainted
  ELSE tainted' = IF o = Pipeline THEN Objects ELSE tainted \cup {o}

\* One more change, within the bound.
CountChange == changes < MaxChanges /\ changes' = changes + 1

-----------------------------------------------------------------------------
(* Changes of the application's objects                                    *)

\* A property of a registered proxy is changed and pushed.
ChangeProxy(p, v) ==
  /\ p \in Registered /\ v # state[p]
  /\ CountChange
  /\ state' = [state EXCEPT ![p] = v]
  /\ cache' = [cache EXCEPT ![p] = v]
  /\ Record(<<Update(p, cache[p], v)>>)
  /\ Taint(p)
  /\ UNCHANGED <<multiClients, modified, builderVars, guiVars, begun>>

\* pqObjectBuilder::postCreatePipelineProxy for a proxy with a new id.
CreateProxy(p, v) ==
  LET registered == Registered \cup {p} IN
  /\ cache[p] = NoState
  /\ CountChange
  /\ state' = [state EXCEPT ![p] = v, ![Pipeline] = registered]
  /\ cache' = [cache EXCEPT ![p] = v, ![Pipeline] = registered]
  /\ modified' = [modified EXCEPT ![p] = "UNINITIALIZED"]
  /\ Record(<<Update(Pipeline, cache[Pipeline], registered),
              MadeUninitialized(p)>>)
  /\ Taint(Pipeline)
  /\ UNCHANGED <<multiClients, builderVars, guiVars, begun>>

\* A proxy is unregistered, and deleted because nobody else holds it.
UnRegisterProxy(p) ==
  LET registered == Registered \ {p} IN
  /\ p \in Registered
  /\ CountChange
  /\ state' = [state EXCEPT ![p] = NoState, ![Pipeline] = registered]
  /\ cache' = [cache EXCEPT ![Pipeline] = registered]
  /\ modified' = [modified EXCEPT ![p] = "UNMODIFIED"]
  /\ Record(<<Update(Pipeline, cache[Pipeline], registered)>>)
  /\ Taint(Pipeline)
  /\ UNCHANGED <<multiClients, builderVars, guiVars, begun>>

\* pqApplyBehavior::applied: the element goes into the open set, if any,
\* in sessions of several clients too.
Apply(p) ==
  /\ p \in Registered /\ modified[p] = "UNINITIALIZED"
  /\ CountChange
  /\ modified' = [modified EXCEPT ![p] = "UNMODIFIED"]
  /\ undoSet' = IF ignoreAll \/ monitoring = 0 THEN undoSet
                ELSE Append(undoSet, MadeUnmodified(p))
  /\ UNCHANGED <<multiClients, state, cache, undoStack, redoStack,
                 builderVars, guiVars, begun, tainted>>

\* Another client unregistered the proxy, and we are notified: the pipeline
\* is loaded with local pushes only, so no state is cached or recorded.
DeletedElsewhere(p) ==
  /\ multiClients
  /\ p \in Registered
  /\ CountChange
  /\ state' = [state EXCEPT ![p] = NoState, ![Pipeline] = @ \ {p}]
  /\ modified' = [modified EXCEPT ![p] = "UNMODIFIED"]
  /\ UNCHANGED <<multiClients, cache, setVars, builderVars, guiVars, begun,
                 tainted>>

-----------------------------------------------------------------------------
(* Sections                                                                *)

\* Mutant: nested sections monitor, too.
BeginUndoSetEach ==
  /\ Len(sections) < MaxSections
  /\ sections' = Append(sections, "set")
  /\ monitoring' = monitoring + 1
  /\ nestedCount' = nestedCount + 1
  /\ begun' = IF nestedCount = 0 THEN state ELSE begun
  /\ UNCHANGED <<multiClients, state, modified, cache, setVars, ignoreAll,
                 ignoreStack, tainted, changes>>

\* beginUndoSet
BeginUndoSet ==
  /\ Len(sections) < MaxSections
  /\ sections' = Append(sections, "set")
  /\ monitoring' = IF nestedCount = 0 THEN monitoring + 1 ELSE monitoring
  /\ nestedCount' = nestedCount + 1
  /\ begun' = IF nestedCount = 0 THEN state ELSE begun
  /\ UNCHANGED <<multiClients, state, modified, cache, setVars, ignoreAll,
                 ignoreStack, tainted, changes>>

\* Mutant: each section pushes what there is, nested or not.
EndUndoSetEach ==
  /\ sections # <<>> /\ Last(sections) = "set"
  /\ sections' = Front(sections)
  /\ nestedCount' = nestedCount - 1
  /\ monitoring' = IF nestedCount = 1 THEN monitoring - 1 ELSE monitoring
  /\ IF undoSet # <<>> THEN PushSet(undoSet, begun, state) ELSE UNCHANGED setVars
  /\ begun' = IF nestedCount = 1 THEN NoState ELSE begun
  /\ UNCHANGED <<multiClients, state, modified, cache, ignoreAll, ignoreStack,
                 tainted, changes>>

\* endUndoSet, with EndAndPushToStack when it is the outermost section.
EndUndoSet ==
  /\ sections # <<>> /\ Last(sections) = "set"
  /\ sections' = Front(sections)
  /\ nestedCount' = nestedCount - 1
  /\ monitoring' = IF nestedCount = 1 THEN monitoring - 1 ELSE monitoring
  /\ IF monitoring' = 0 /\ undoSet # <<>>
     THEN PushSet(undoSet, begun, state)
     ELSE UNCHANGED setVars
  /\ begun' = IF nestedCount = 1 THEN NoState ELSE begun
  /\ UNCHANGED <<multiClients, state, modified, cache, ignoreAll, ignoreStack,
                 tainted, changes>>

\* beginNonUndoableChanges
BeginNonUndoable ==
  /\ Len(sections) < MaxSections
  /\ sections' = Append(sections, "exclude")
  /\ ignoreStack' = Append(ignoreStack, ignoreAll)
  /\ ignoreAll' = TRUE
  /\ UNCHANGED <<multiClients, state, modified, cache, setVars, monitoring,
                 nestedCount, begun, tainted, changes>>

\* Mutant: recording resumes at the end of any section.
EndNonUndoableResumes ==
  /\ sections # <<>> /\ Last(sections) = "exclude"
  /\ sections' = Front(sections)
  /\ ignoreAll' = FALSE
  /\ ignoreStack' = IF ignoreStack = <<>> THEN <<>> ELSE Front(ignoreStack)
  /\ UNCHANGED <<multiClients, state, modified, cache, setVars, monitoring,
                 nestedCount, begun, tainted, changes>>

\* endNonUndoableChanges; clear() may have emptied the stack of flags.
EndNonUndoable ==
  /\ sections # <<>> /\ Last(sections) = "exclude"
  /\ sections' = Front(sections)
  /\ ignoreAll' = IF ignoreStack = <<>> THEN FALSE ELSE Last(ignoreStack)
  /\ ignoreStack' = IF ignoreStack = <<>> THEN <<>> ELSE Front(ignoreStack)
  /\ UNCHANGED <<multiClients, state, modified, cache, setVars, monitoring,
                 nestedCount, begun, tainted, changes>>

\* pqUndoStack::clear: sections stay open, and EnableMonitoring,
\* IgnoreAllChanges and NestedCount as they are.
Clear ==
  /\ Depth("exclude") <= ClearDepth
  /\ undoSet' = <<>> /\ undoStack' = <<>> /\ redoStack' = <<>>
  /\ ignoreStack' = <<>>
  /\ begun' = IF begun = NoState THEN NoState ELSE state
  /\ tainted' = {}
  /\ UNCHANGED <<multiClients, state, modified, cache, builderVars,
                 nestedCount, sections, changes>>

-----------------------------------------------------------------------------
(* Undo and redo                                                           *)

\* Where a set's processing stands: what is registered, the states and the
\* modified states, which proxies exist (all that did or were created: they
\* are held until the end), and which element failed.
Start ==
  [state |-> state, modified |-> modified, alive |-> Registered, failed |-> 0]

\* The state a proxy is created with: the set's own, the last one registered
\* with the UndoSetStateLocator, else the session's.
Found(elements, side, p) ==
  LET own == {i \in DOMAIN elements : elements[i].kind = "update"
                                     /\ elements[i].id = p}
  IN  IF own = {} THEN cache[p]
      ELSE LET last == CHOOSE i \in own : \A j \in own : j <= i
           IN  IF side = "undo" THEN elements[last].before
               ELSE elements[last].after

\* vtkSMPipelineState::LoadState: proxies that exist are registered again,
\* others created.  A pqProxy is new, UNMODIFIED, when it is registered.
LoadPipeline(at, registered, found) ==
  LET known == {p \in registered : p \in at.alive \/ found[p] # NoState} IN
  [state |-> [o \in Objects |->
                IF o = Pipeline THEN known
                ELSE IF o \in known \ at.alive THEN found[o]
                ELSE at.state[o]],
   modified |-> [p \in Proxies |->
                   IF p \in at.state[Pipeline] THEN at.modified[p]
                   ELSE "UNMODIFIED"],
   alive |-> at.alive \cup known,
   failed |-> at.failed]

\* One element undone or redone, if it can.
Process(at, element, k, direction, found) ==
  IF element.kind = "update"
  THEN LET target == IF direction = "undo" THEN element.before ELSE element.after
       IN  IF element.id = Pipeline THEN LoadPipeline(at, target, found)
           ELSE IF element.id \in at.alive
           THEN [at EXCEPT !.state[element.id] = target]
           ELSE at
  ELSE IF element.id \notin at.alive THEN [at EXCEPT !.failed = k]
  ELSE IF element.id \notin at.state[Pipeline] THEN at
  ELSE [at EXCEPT !.modified[element.id] =
          IF (direction = "undo") # element.reverse
          THEN "UNINITIALIZED" ELSE "UNMODIFIED"]

Ascending(n) == [i \in 1 .. n |-> i]
Descending(n) == [i \in 1 .. n |-> n + 1 - i]

\* The elements in an order; those after one that fails are left out, or not.
Run(at, elements, order, direction, found, stops) ==
  LET done[n \in 0 .. Len(order)] ==
        IF n = 0 THEN at
        ELSE LET before == done[n - 1]
             IN  IF stops /\ before.failed # 0 THEN before
                 ELSE Process(before, elements[order[n]], order[n], direction,
                              found)
  IN  done[Len(order)]

\* The elements in an order, until one fails.
Attempt(at, elements, order, direction, found) ==
  Run(at, elements, order, direction, found, TRUE)

\* The elements in an order, whatever fails: the roll-back.
Insist(at, elements, order, direction, found) ==
  [Run(at, elements, order, direction, found, FALSE) EXCEPT
     !.failed = at.failed]

\* Mutant: undone in the order the elements were recorded.
UndoForwards(elements) ==
  LET found == [p \in Proxies |-> Found(elements, "undo", p)]
      at == Attempt(Start, elements, Ascending(Len(elements)), "undo", found)
  IN  IF at.failed = 0 THEN at
      ELSE Insist(at, elements, Ascending(at.failed - 1), "redo", found)

\* vtkUndoSet::Undo.  When an element fails, those recorded before it are
\* redone, which is what the code does.
UndoElements(elements) ==
  LET found == [p \in Proxies |-> Found(elements, "undo", p)]
      at == Attempt(Start, elements, Descending(Len(elements)), "undo", found)
  IN  IF at.failed = 0 THEN at
      ELSE Insist(at, elements, Ascending(at.failed - 1), "redo", found)

\* vtkUndoSet::Redo
RedoElements(elements) ==
  LET found == [p \in Proxies |-> Found(elements, "redo", p)]
      at == Attempt(Start, elements, Ascending(Len(elements)), "redo", found)
  IN  IF at.failed = 0 THEN at
      ELSE Insist(at, elements, Descending(at.failed - 1), "undo", found)

\* updateAllModifiedProxies pushes what changed on registered proxies; the
\* others are no longer held.  No change is recorded: undo() and redo() run
\* in a non-undoable section of their own.
Finish(at) ==
  LET registered == at.state[Pipeline] IN
  /\ state' = [o \in Objects |->
                 IF o \in registered \cup {Pipeline} THEN at.state[o]
                 ELSE NoState]
  /\ modified' = [p \in Proxies |->
                    IF p \in registered THEN at.modified[p] ELSE "UNMODIFIED"]
  /\ cache' = [o \in Objects |->
                 IF o \in registered \cup {Pipeline} /\ state'[o] # state[o]
                 THEN state'[o] ELSE cache[o]]

Touched(elements) ==
  LET ids == {elements[i].id : i \in {j \in DOMAIN elements :
                                       elements[j].kind = "update"}}
  IN  IF Pipeline \in ids THEN Objects ELSE ids

\* An undo that fails, or comes in the middle of a section, leaves objects in
\* states that the sets around it do not know.
Disturb(elements, at) ==
  tainted' = IF Open("set") \/ at.failed # 0
             THEN tainted \cup Touched(elements) ELSE tainted

Undo ==
  /\ undoStack # <<>>
  /\ LET set == Last(undoStack)
         at == UndoElements(set.elements)
     IN  /\ Finish(at)
         /\ Disturb(set.elements, at)
         /\ IF at.failed = 0
            THEN /\ undoStack' = Front(undoStack)
                 /\ redoStack' = Append(redoStack, set)
            ELSE UNCHANGED <<undoStack, redoStack>>
  /\ UNCHANGED <<multiClients, undoSet, builderVars, guiVars, begun, changes>>

Redo ==
  /\ redoStack # <<>>
  /\ LET set == Last(redoStack)
         at == RedoElements(set.elements)
     IN  /\ Finish(at)
         /\ Disturb(set.elements, at)
         /\ IF at.failed = 0
            THEN /\ redoStack' = Front(redoStack)
                 /\ undoStack' = Append(undoStack, set)
            ELSE UNCHANGED <<undoStack, redoStack>>
  /\ UNCHANGED <<multiClients, undoSet, builderVars, guiVars, begun, changes>>

-----------------------------------------------------------------------------
Init ==
  /\ multiClients \in BOOLEAN
  /\ state = [o \in Objects |-> IF o = Pipeline THEN {} ELSE NoState]
  /\ modified = [p \in Proxies |-> "UNMODIFIED"]
  /\ cache = state
  /\ undoSet = <<>> /\ undoStack = <<>> /\ redoStack = <<>>
  /\ monitoring = 0 /\ ignoreAll = FALSE
  /\ nestedCount = 0 /\ ignoreStack = <<>> /\ sections = <<>>
  /\ begun = NoState
  /\ tainted = {}
  /\ changes = 0

Next ==
  \/ \E p \in Proxies, v \in Values : ChangeProxy(p, v) \/ CreateProxy(p, v)
  \/ \E p \in Proxies : UnRegisterProxy(p) \/ Apply(p) \/ DeletedElsewhere(p)
  \/ BeginUndoSet \/ EndUndoSet
  \/ BeginNonUndoable \/ EndNonUndoable
  \/ Clear
  \/ Undo \/ Redo

Spec == Init /\ [][Next]_vars

-----------------------------------------------------------------------------
(* Properties                                                              *)

States == Values \cup {NoState}
Element ==
  [kind : {"update"}, id : Objects, before : States \cup SUBSET Proxies,
   after : States \cup SUBSET Proxies]
  \cup [kind : {"modified"}, id : Proxies, reverse : BOOLEAN]

IsWorld(w) ==
  /\ DOMAIN w = Objects
  /\ w[Pipeline] \subseteq Proxies
  /\ \A p \in Proxies : w[p] \in States
IsSet(s) ==
  /\ \A i \in DOMAIN s.elements : s.elements[i] \in Element
  /\ s.elements # <<>>
  /\ IsWorld(s.from) /\ IsWorld(s.to)

\* Types, and that exactly the registered proxies have a state.
TypeOK ==
  /\ multiClients \in BOOLEAN
  /\ IsWorld(state) /\ IsWorld(cache)
  /\ begun = NoState <=> ~Open("set")
  /\ begun # NoState => IsWorld(begun)
  /\ \A p \in Proxies : p \in Registered <=> state[p] # NoState
  /\ modified \in [Proxies -> {"UNINITIALIZED", "UNMODIFIED"}]
  /\ \A i \in DOMAIN undoSet : undoSet[i] \in Element
  /\ \A i \in DOMAIN undoStack : IsSet(undoStack[i])
  /\ \A i \in DOMAIN redoStack : IsSet(redoStack[i])
  /\ monitoring = (IF nestedCount > 0 THEN 1 ELSE 0)
  /\ nestedCount = Depth("set")
  /\ Len(ignoreStack) <= Depth("exclude")
  /\ tainted \subseteq Objects
  /\ changes \in 0 .. MaxChanges

\* The sets from the oldest that can be undone to the last that can be redone.
Timeline == undoStack \o Reverse(redoStack)
Agree(w1, w2) == \A o \in Objects \ tainted : w1[o] = w2[o]
Present == IF begun = NoState THEN state ELSE begun

\* The application is where its undo history says: the next set to undo ends
\* in the present states and the next to redo begins with them (those the
\* open section began with, if one is open), and each set begins where the
\* one before ends.  Hence an undo restores the states a section began with
\* and a redo those it ended with, deleted proxies included, except for
\* objects changed in non-undoable sections or by an undo within a section.
\* (vtkUndoStack, vtkUndoSet, vtkSMUndoStackBuilder, UndoSetStateLocator)
HistoryIsCurrent ==
  multiClients \/
  /\ \A i \in 1 .. Len(Timeline) - 1 :
        Agree(Timeline[i].to, Timeline[i + 1].from)
  /\ undoStack # <<>> => Agree(Last(undoStack).to, Present)
  /\ redoStack # <<>> => Agree(Last(redoStack).from, Present)

\* Undone and redone sets together are never more than the stack is deep,
\* though neither PopUndoStack nor PopRedoStack checks.
HistoryIsBounded ==
  StackDepth > 0 => Len(undoStack) + Len(redoStack) <= StackDepth

\* While a non-undoable section is open nothing is recorded and no set is
\* pushed, whatever sections are nested in it or it is nested in, if clear()
\* is not called in nested ones (pqUndoStack::beginNonUndoableChanges).
ExcludedNotRecorded ==
  [][Open("exclude") =>
       /\ Len(undoSet') <= Len(undoSet)
       /\ Len(undoStack') + Len(redoStack') <= Len(undoStack) + Len(redoStack)
    ]_vars

\* What is done in a section is undone in one step: no set is pushed while an
\* outer section stays open, by a nested section or an isolated change
\* (EnableMonitoring and NestedCount).
SectionIsOneStep ==
  [][(\E i \in DOMAIN sections' : sections'[i] = "set") =>
       Len(undoStack') + Len(redoStack') <= Len(undoStack) + Len(redoStack)
    ]_vars

\* "undo failed, redo the half undone operations": an undo or redo (outside
\* all sections) that fails changes nothing (vtkUndoSet::Undo).
FailureChangesNothing ==
  [][/\ sections = <<>>
     /\ Undo \/ Redo
     /\ UNCHANGED <<undoStack, redoStack>>
     => UNCHANGED <<state, modified>>]_vars

=============================================================================
