------------------------- MODULE UndoHistory_proofs -------------------------
(***************************************************************************)
(* Proofs about UndoHistory, for any proxies, values, depth and bounds: the *)
(* stack is never deeper than allowed, a section is one step of undo, and   *)
(* nothing is recorded in an excluded section, whatever undoing an element  *)
(* does; types are kept, whatever elements are undone in whatever order;    *)
(* undo and redo lead to what the sets of the history begin and end with.   *)
(***************************************************************************)
EXTENDS UndoHistory, FiniteSetTheorems, SequenceTheorems,
        WellFoundedInduction, NaturalsInduction, TLAPS

-----------------------------------------------------------------------------
(* What a step does to the two stacks                                      *)

ClearStacks == undoStack' = <<>> /\ redoStack' = <<>>
MoveToRedo ==
  /\ undoStack # <<>>
  /\ undoStack' = Front(undoStack)
  /\ redoStack' = Append(redoStack, Last(undoStack))
MoveToUndo ==
  /\ redoStack # <<>>
  /\ redoStack' = Front(redoStack)
  /\ undoStack' = Append(undoStack, Last(redoStack))
StacksStay == UNCHANGED <<undoStack, redoStack>>
Pushed == \E elements, from, to : PushSet(elements, from, to)

\* Undo and redo move one set from a stack to the other, or none.
LEMMA UndoMoves == Undo => MoveToRedo \/ StacksStay
BY DEF Undo, MoveToRedo, StacksStay

\* A redo moves one set to the undo stack, or leaves the stacks.
LEMMA RedoMoves == Redo => MoveToUndo \/ StacksStay
BY DEF Redo, MoveToUndo, StacksStay

\* Recording a change pushes a set only outside all sections.
LEMMA RecordPushes ==
  ASSUME NEW elements, Record(elements)
  PROVE  StacksStay \/ (Pushed /\ ~(monitoring > 0))
BY DEF Record, StacksStay, Pushed, setVars

\* Every step leaves the stacks, clears them, moves one set, or pushes one.
LEMMA StackSteps ==
  ASSUME Next
  PROVE  StacksStay \/ ClearStacks \/ MoveToRedo \/ MoveToUndo \/ Pushed
<1>1. ASSUME NEW p \in Proxies, NEW v \in Values, ChangeProxy(p, v)
      PROVE  StacksStay \/ Pushed
  BY <1>1, RecordPushes DEF ChangeProxy
<1>2. ASSUME NEW p \in Proxies, NEW v \in Values, CreateProxy(p, v)
      PROVE  StacksStay \/ Pushed
  BY <1>2, RecordPushes DEF CreateProxy
<1>3. ASSUME NEW p \in Proxies, UnRegisterProxy(p)
      PROVE  StacksStay \/ Pushed
  BY <1>3, RecordPushes DEF UnRegisterProxy
<1>4. ASSUME NEW p \in Proxies, Apply(p) \/ DeletedElsewhere(p)
      PROVE  StacksStay
  BY <1>4 DEF Apply, DeletedElsewhere, StacksStay, setVars
<1>5. CASE BeginUndoSet \/ BeginNonUndoable \/ EndNonUndoable
  BY <1>5 DEF BeginUndoSet, BeginNonUndoable, EndNonUndoable, StacksStay, setVars
<1>6. CASE EndUndoSet
  BY <1>6 DEF EndUndoSet, StacksStay, Pushed, setVars
<1>7. CASE Clear
  BY <1>7 DEF Clear, ClearStacks
<1>8. QED
  BY <1>1, <1>2, <1>3, <1>4, <1>5, <1>6, <1>7, UndoMoves, RedoMoves DEF Next

-----------------------------------------------------------------------------
(* The stacks                                                              *)

StacksOf(S) == undoStack \in Seq(S) /\ redoStack \in Seq(S)
BoundedInv == (\E S : StacksOf(S)) /\ HistoryIsBounded

\* Trimming leaves room for one set.
LEMMA TrimmedHasRoom ==
  ASSUME NEW S, NEW stack \in Seq(S), StackDepth > 0 => Len(stack) <= StackDepth
  PROVE  /\ Trimmed(stack) \in Seq(S)
         /\ StackDepth > 0 => Len(Trimmed(stack)) < StackDepth
<1> USE DepthAssumption
<1>1. CASE StackDepth > 0 /\ Len(stack) >= StackDepth
  <2>1. Trimmed(stack) = SubSeq(stack, 2, Len(stack))
    BY <1>1 DEF Trimmed
  <2>2. QED
    BY <1>1, <2>1
<1>2. CASE ~(StackDepth > 0 /\ Len(stack) >= StackDepth)
  BY <1>2 DEF Trimmed
<1>3. QED
  BY <1>1, <1>2

\* A sequence without its last element.
LEMMA FrontAndLast ==
  ASSUME NEW S, NEW s \in Seq(S), s # <<>>
  PROVE  /\ Len(s) \in Nat \ {0} /\ Last(s) = s[Len(s)] /\ Last(s) \in S
         /\ Front(s) \in Seq(S) /\ Len(Front(s)) = Len(s) - 1
         /\ \A i \in 1 .. Len(s) - 1 : Front(s)[i] = s[i]
<1> DEFINE n == Len(s)  t == Front(s)
<1>1. n \in Nat \ {0} /\ \A i \in 1 .. n : s[i] \in S
  OBVIOUS
<1>2. Last(s) = s[n] /\ s[n] \in S
  BY <1>1 DEF Last
<1>3. n - 1 \in Int /\ \A i \in 1 .. n - 1 : s[i] \in S
  BY <1>1
<1>4. /\ t \in Seq(S)
      /\ Len(t) = IF 1 <= n - 1 THEN n - 1 - 1 + 1 ELSE 0
      /\ \A i \in 1 .. n - 1 - 1 + 1 : t[i] = s[1 + i - 1]
  BY <1>3, SubSeqProperties DEF Front
<1> HIDE DEF n, t
<1>5. Len(t) = n - 1 /\ \A i \in 1 .. n - 1 : t[i] = s[i]
  BY <1>1, <1>4
<1>6. QED
  BY <1>1, <1>2, <1>4, <1>5 DEF n, t

\* A set taken from one stack and put on the other.
LEMMA Moved ==
  ASSUME NEW S, NEW s \in Seq(S), s # <<>>, NEW r \in Seq(S)
  PROVE  /\ Front(s) \in Seq(S) /\ Len(Front(s)) = Len(s) - 1
         /\ Append(r, Last(s)) \in Seq(S)
         /\ Len(Append(r, Last(s))) = Len(r) + 1
<1>1. Last(s) \in S /\ Front(s) \in Seq(S) /\ Len(Front(s)) = Len(s) - 1
  BY FrontAndLast
<1>2. QED
  BY <1>1

\* Whatever the elements of a set are, the stacks stay stacks of sets.
LEMMA StacksKeep ==
  ASSUME NEW S, StacksOf(S), HistoryIsBounded,
         StacksStay \/ ClearStacks \/ MoveToRedo \/ MoveToUndo \/ Pushed
  PROVE  BoundedInv'
<1> USE DepthAssumption
<1>1. CASE StacksStay
  BY <1>1 DEF StacksStay, StacksOf, BoundedInv, HistoryIsBounded
<1>2. CASE ClearStacks
  BY <1>2 DEF ClearStacks, StacksOf, BoundedInv, HistoryIsBounded
<1>3. CASE MoveToRedo
  <2>1. StacksOf(S)' /\ Len(undoStack') = Len(undoStack) - 1
                    /\ Len(redoStack') = Len(redoStack) + 1
    BY <1>3, Moved DEF MoveToRedo, StacksOf
  <2>2. QED
    BY <2>1 DEF StacksOf, BoundedInv, HistoryIsBounded
<1>4. CASE MoveToUndo
  <2>1. StacksOf(S)' /\ Len(undoStack') = Len(undoStack) + 1
                    /\ Len(redoStack') = Len(redoStack) - 1
    BY <1>4, Moved DEF MoveToUndo, StacksOf
  <2>2. QED
    BY <2>1 DEF StacksOf, BoundedInv, HistoryIsBounded
<1>5. CASE Pushed
  <2>1. PICK elements, from, to : PushSet(elements, from, to)
    BY <1>5 DEF Pushed
  <2> DEFINE set == [elements |-> elements, from |-> from, to |-> to]
             T == S \cup {set}
  <2>2. StackDepth > 0 => Len(undoStack) <= StackDepth
    BY DEF StacksOf, HistoryIsBounded
  <2>3. undoStack \in Seq(T)
    BY DEF StacksOf
  <2>4. /\ Trimmed(undoStack) \in Seq(T)
        /\ StackDepth > 0 => Len(Trimmed(undoStack)) < StackDepth
    BY <2>2, <2>3, TrimmedHasRoom
  <2>5. undoStack' = Append(Trimmed(undoStack), set) /\ redoStack' = <<>>
    BY <2>1 DEF PushSet
  <2> HIDE DEF set
  <2>6. /\ undoStack' \in Seq(T) /\ Len(undoStack') = Len(Trimmed(undoStack)) + 1
        /\ redoStack' \in Seq(T) /\ Len(redoStack') = 0
    BY <2>4, <2>5
  <2>7. HistoryIsBounded'
    BY <2>4, <2>6 DEF HistoryIsBounded
  <2>8. QED
    BY <2>6, <2>7 DEF StacksOf, BoundedInv
<1>6. QED
  BY <1>1, <1>2, <1>3, <1>4, <1>5

\* The history is empty at the start.
LEMMA BoundedInit == Init => BoundedInv
BY DepthAssumption DEF Init, BoundedInv, StacksOf, HistoryIsBounded

\* No step makes the history longer than its depth.
LEMMA BoundedStep == BoundedInv /\ [Next]_vars => BoundedInv'
<1> SUFFICES ASSUME BoundedInv, [Next]_vars PROVE BoundedInv'
  OBVIOUS
<1>1. StacksStay \/ ClearStacks \/ MoveToRedo \/ MoveToUndo \/ Pushed
  BY StackSteps DEF vars, setVars, StacksStay
<1>2. PICK S : StacksOf(S)
  BY DEF BoundedInv
<1>3. QED
  BY <1>1, <1>2, StacksKeep DEF BoundedInv

\* For every depth, the sets that can be undone or redone are together at most
\* that many, though only Push trims (vtkUndoStack::Push, PopUndoStack,
\* PopRedoStack).
THEOREM Bounded == Spec => []HistoryIsBounded
<1>1. BoundedInv => HistoryIsBounded
  BY DEF BoundedInv
<1>2. QED
  BY BoundedInit, BoundedStep, <1>1, PTL DEF Spec

-----------------------------------------------------------------------------
(* The sections                                                            *)

Kinds == {"set", "exclude"}
At(kind, s) == {i \in 1 .. Len(s) : s[i] = kind}

\* NestedCount counts the open undo sections, and the builder monitors while
\* there are any.
SectionInv ==
  /\ sections \in Seq(Kinds)
  /\ nestedCount = Cardinality(At("set", sections))
  /\ monitoring = IF nestedCount > 0 THEN 1 ELSE 0

\* Sections are of two kinds.
LEMMA BothKinds == "set" \in Kinds /\ "exclude" \in Kinds
BY DEF Kinds

\* There are finitely many of a kind.
LEMMA AtFinite ==
  ASSUME NEW s \in Seq(Kinds), NEW k \in Kinds
  PROVE  /\ IsFiniteSet(At(k, s))
         /\ Cardinality(At(k, s)) \in Nat
         /\ At(k, s) # {} <=> Cardinality(At(k, s)) > 0
<1>1. IsFiniteSet(1 .. Len(s))
  BY FS_Interval
<1>2. IsFiniteSet(At(k, s))
  BY <1>1, FS_Subset DEF At
<1>3. QED
  BY <1>2, FS_CardinalityType, FS_EmptySet

\* Opening a section.
LEMMA OpenOne ==
  ASSUME NEW s \in Seq(Kinds), NEW kind \in Kinds, NEW k \in Kinds
  PROVE  /\ Append(s, kind) \in Seq(Kinds)
         /\ Cardinality(At(k, Append(s, kind)))
              = Cardinality(At(k, s)) + (IF kind = k THEN 1 ELSE 0)
<1> DEFINE n == Len(s) + 1
<1>1. Append(s, kind) \in Seq(Kinds) /\ Len(Append(s, kind)) = n
  OBVIOUS
<1>2. n \notin At(k, s)
  BY DEF At
<1>3. CASE kind = k
  <2>1. At(k, Append(s, kind)) = At(k, s) \cup {n}
    BY <1>1, <1>3 DEF At
  <2>2. IsFiniteSet(At(k, s))
    BY AtFinite
  <2>3. Cardinality(At(k, s) \cup {n}) = Cardinality(At(k, s)) + 1
    BY <1>2, <2>2, FS_AddElement
  <2>4. QED
    BY <1>1, <1>3, <2>1, <2>3
<1>4. CASE kind # k
  <2>1. At(k, Append(s, kind)) = At(k, s)
    BY <1>1, <1>4 DEF At
  <2>2. QED
    BY <1>1, <1>4, <2>1, AtFinite
<1>5. QED
  BY <1>3, <1>4

\* Closing the innermost section.
LEMMA CloseOne ==
  ASSUME NEW s \in Seq(Kinds), s # <<>>, NEW k \in Kinds
  PROVE  /\ Front(s) \in Seq(Kinds)
         /\ Cardinality(At(k, Front(s)))
              = Cardinality(At(k, s)) - (IF Last(s) = k THEN 1 ELSE 0)
<1> DEFINE n == Len(s)
<1>1. n \in Nat \ {0} /\ Last(s) = s[n]
  BY FrontAndLast
<1>2. /\ Front(s) \in Seq(Kinds) /\ Len(Front(s)) = n - 1
      /\ \A i \in 1 .. n - 1 : Front(s)[i] = s[i]
  BY FrontAndLast
<1>3. At(k, Front(s)) = At(k, s) \ {n}
  BY <1>1, <1>2 DEF At
<1>4. CASE Last(s) = k
  <2>1. n \in 1 .. Len(s) /\ s[n] = k
    BY <1>1, <1>4
  <2>2. n \in At(k, s)
    BY <2>1 DEF At
  <2>3. QED
    BY <1>2, <1>3, <1>4, <2>2, AtFinite, FS_RemoveElement
<1>5. CASE Last(s) # k
  <2>1. n \notin At(k, s)
    BY <1>1, <1>5 DEF At
  <2>2. At(k, Front(s)) = At(k, s)
    BY <1>3, <2>1
  <2>3. QED
    BY <1>2, <1>5, <2>2, AtFinite
<1>6. QED
  BY <1>4, <1>5

\* No section is open at the start.
LEMMA SectionInit == Init => SectionInv
<1> SUFFICES ASSUME Init PROVE SectionInv
  OBVIOUS
<1>1. At("set", sections) = {}
  BY DEF Init, At
<1>2. Cardinality(At("set", sections)) = 0
  BY <1>1, FS_EmptySet
<1>3. sections = <<>> /\ nestedCount = 0 /\ monitoring = 0
  BY DEF Init
<1>4. QED
  BY <1>2, <1>3 DEF SectionInv

SectionsStay == UNCHANGED <<sections, nestedCount, monitoring>>

\* Everything but the four calls leaves the sections as they are.
LEMMA OtherSteps ==
  ASSUME [Next]_vars
  PROVE  \/ BeginUndoSet \/ EndUndoSet \/ BeginNonUndoable \/ EndNonUndoable
         \/ SectionsStay
<1>1. ASSUME NEW p \in Proxies, NEW v \in Values,
             ChangeProxy(p, v) \/ CreateProxy(p, v)
      PROVE  SectionsStay
  BY <1>1 DEF ChangeProxy, CreateProxy, SectionsStay, builderVars, guiVars
<1>2. ASSUME NEW p \in Proxies,
             UnRegisterProxy(p) \/ Apply(p) \/ DeletedElsewhere(p)
      PROVE  SectionsStay
  BY <1>2 DEF UnRegisterProxy, Apply, DeletedElsewhere, SectionsStay,
              builderVars, guiVars
<1>3. CASE Clear
  BY <1>3 DEF Clear, SectionsStay, builderVars
<1>4. CASE Undo
  BY <1>4 DEF Undo, SectionsStay, builderVars, guiVars
<1>5. CASE Redo
  BY <1>5 DEF Redo, SectionsStay, builderVars, guiVars
<1>6. CASE UNCHANGED vars
  BY <1>6 DEF vars, SectionsStay, builderVars, guiVars
<1>7. QED
  BY <1>1, <1>2, <1>3, <1>4, <1>5, <1>6 DEF Next

\* Every step keeps the counters in line with the open sections.
LEMMA SectionStep == SectionInv /\ [Next]_vars => SectionInv'
<1> SUFFICES ASSUME SectionInv, [Next]_vars PROVE SectionInv'
  OBVIOUS
<1>1. Cardinality(At("set", sections)) \in Nat /\ nestedCount \in Nat
  BY BothKinds, AtFinite DEF SectionInv
<1>2. CASE BeginUndoSet
  <2>1. sections' = Append(sections, "set") /\ "set" \in Kinds
    BY <1>2 DEF BeginUndoSet, Kinds
  <2>2. /\ sections' \in Seq(Kinds)
        /\ Cardinality(At("set", sections')) = nestedCount + 1
    BY <2>1, BothKinds, OpenOne DEF SectionInv
  <2>3. QED
    BY <1>1, <1>2, <2>2 DEF BeginUndoSet, SectionInv
<1>3. CASE EndUndoSet
  <2>1. sections # <<>> /\ Last(sections) = "set" /\ sections' = Front(sections)
    BY <1>3 DEF EndUndoSet
  <2>2. /\ sections' \in Seq(Kinds)
        /\ Cardinality(At("set", sections')) = nestedCount - 1
    BY <2>1, BothKinds, CloseOne DEF SectionInv
  <2>3. nestedCount - 1 \in Nat
    BY <2>2, BothKinds, AtFinite
  <2>4. nestedCount' = nestedCount - 1
        /\ monitoring' = IF nestedCount = 1 THEN monitoring - 1 ELSE monitoring
    BY <1>3 DEF EndUndoSet
  <2>5. QED
    BY <1>1, <2>2, <2>3, <2>4 DEF SectionInv
<1>4. CASE BeginNonUndoable
  <2>1. sections' = Append(sections, "exclude") /\ "exclude" \in Kinds
    BY <1>4 DEF BeginNonUndoable, Kinds
  <2>2. /\ sections' \in Seq(Kinds)
        /\ Cardinality(At("set", sections')) = nestedCount
    BY <1>1, <2>1, BothKinds, OpenOne DEF SectionInv
  <2>3. QED
    BY <1>4, <2>2 DEF BeginNonUndoable, SectionInv
<1>5. CASE EndNonUndoable
  <2>1. /\ sections # <<>> /\ Last(sections) = "exclude"
        /\ sections' = Front(sections)
    BY <1>5 DEF EndNonUndoable
  <2>2. /\ sections' \in Seq(Kinds)
        /\ Cardinality(At("set", sections')) = nestedCount
    BY <1>1, <2>1, BothKinds, CloseOne DEF SectionInv
  <2>3. QED
    BY <1>5, <2>2 DEF EndNonUndoable, SectionInv
<1>6. CASE SectionsStay
  BY <1>6 DEF SectionsStay, SectionInv
<1>7. QED
  BY <1>2, <1>3, <1>4, <1>5, <1>6, OtherSteps

\* A set is pushed only when no undo section is open any more.
LEMMA PushedOutside ==
  ASSUME SectionInv, SectionInv', Next
  PROVE  StacksStay \/ ClearStacks \/ MoveToRedo \/ MoveToUndo \/ nestedCount' = 0
<1>1. nestedCount \in Nat /\ nestedCount' \in Nat
  BY BothKinds, AtFinite DEF SectionInv
<1>2. ASSUME NEW elements, Record(elements), UNCHANGED <<builderVars, guiVars>>
      PROVE  StacksStay \/ nestedCount' = 0
  BY <1>1, <1>2, RecordPushes DEF SectionInv, builderVars, guiVars
<1>3. ASSUME NEW p \in Proxies, NEW v \in Values,
             ChangeProxy(p, v) \/ CreateProxy(p, v)
      PROVE  StacksStay \/ nestedCount' = 0
  BY <1>2, <1>3 DEF ChangeProxy, CreateProxy
<1>4. ASSUME NEW p \in Proxies, UnRegisterProxy(p)
      PROVE  StacksStay \/ nestedCount' = 0
  BY <1>2, <1>4 DEF UnRegisterProxy
<1>5. ASSUME NEW p \in Proxies, Apply(p) \/ DeletedElsewhere(p)
      PROVE  StacksStay
  BY <1>5 DEF Apply, DeletedElsewhere, StacksStay, setVars
<1>6. CASE BeginUndoSet \/ BeginNonUndoable \/ EndNonUndoable
  BY <1>6 DEF BeginUndoSet, BeginNonUndoable, EndNonUndoable, StacksStay, setVars
<1>7. CASE EndUndoSet
  <2>1. monitoring' # 0 => StacksStay
    BY <1>7 DEF EndUndoSet, StacksStay, setVars
  <2>2. monitoring' = 0 => nestedCount' = 0
    BY <1>1 DEF SectionInv
  <2>3. QED
    BY <2>1, <2>2
<1>8. CASE Clear
  BY <1>8 DEF Clear, ClearStacks
<1>9. QED
  BY <1>3, <1>4, <1>5, <1>6, <1>7, <1>8, UndoMoves, RedoMoves DEF Next

TotalKept ==
  (\E i \in DOMAIN sections' : sections'[i] = "set") =>
    Len(undoStack') + Len(redoStack') <= Len(undoStack) + Len(redoStack)

\* Moving a set between the stacks keeps their total.
LEMMA MoveKeepsTotal ==
  ASSUME NEW S, StacksOf(S), MoveToRedo \/ MoveToUndo
  PROVE  Len(undoStack') + Len(redoStack') = Len(undoStack) + Len(redoStack)
<1>1. CASE MoveToRedo
  <2>1. Len(undoStack') = Len(undoStack) - 1 /\ Len(redoStack') = Len(redoStack) + 1
    BY <1>1, Moved DEF MoveToRedo, StacksOf
  <2>2. QED
    BY <2>1 DEF StacksOf
<1>2. CASE MoveToUndo
  <2>1. Len(undoStack') = Len(undoStack) + 1 /\ Len(redoStack') = Len(redoStack) - 1
    BY <1>2, Moved DEF MoveToUndo, StacksOf
  <2>2. QED
    BY <2>1 DEF StacksOf
<1>3. QED
  BY <1>1, <1>2

\* As long as an undo section is open, the history does not grow.
LEMMA StepKeepsTotal == BoundedInv /\ SectionInv /\ Next => TotalKept
<1> SUFFICES ASSUME BoundedInv, SectionInv, Next,
                    NEW i \in DOMAIN sections', sections'[i] = "set"
             PROVE  Len(undoStack') + Len(redoStack')
                      <= Len(undoStack) + Len(redoStack)
  BY DEF TotalKept
<1>1. SectionInv'
  BY SectionStep
<1>2. i \in At("set", sections')
  BY <1>1 DEF SectionInv, At
<1>3. nestedCount' # 0
  BY <1>1, <1>2, BothKinds, AtFinite DEF SectionInv
<1>4. StacksStay \/ ClearStacks \/ MoveToRedo \/ MoveToUndo
  BY <1>1, <1>3, PushedOutside
<1>5. PICK S : StacksOf(S)
  BY DEF BoundedInv
<1>6. Len(undoStack) \in Nat /\ Len(redoStack) \in Nat
  BY <1>5 DEF StacksOf
<1>7. CASE StacksStay
  BY <1>6, <1>7 DEF StacksStay
<1>8. CASE ClearStacks
  BY <1>6, <1>8 DEF ClearStacks
<1>9. CASE MoveToRedo \/ MoveToUndo
  BY <1>5, <1>6, <1>9, MoveKeepsTotal
<1>10. QED
  BY <1>4, <1>7, <1>8, <1>9

\* For every depth and nesting, no set is pushed while an undo section stays
\* open, so that what is done in it is undone in one step
\* (pqUndoStack::beginUndoSet, endUndoSet, pqUndoStackBuilder::OnStateChange).
THEOREM OneStep == Spec => SectionIsOneStep
<1>1. Spec => [][TotalKept]_vars
  BY BoundedInit, BoundedStep, SectionInit, SectionStep, StepKeepsTotal, PTL DEF Spec
<1>2. QED
  BY <1>1 DEF TotalKept, SectionIsOneStep
-----------------------------------------------------------------------------
(* The excluded sections                                                   *)

Excluded == At("exclude", sections)

\* What IgnoreAllChangesStack holds: one flag for each open excluded section,
\* FALSE for the outermost, or, once clear() was called in one, a TRUE for
\* each that was opened since.
Flags ==
  LET depth == Cardinality(Excluded) IN
  /\ ignoreStack \in Seq(BOOLEAN)
  /\ \/ /\ depth = Len(ignoreStack)
        /\ \A i \in 1 .. Len(ignoreStack) : ignoreStack[i] <=> i > 1
     \/ /\ depth = Len(ignoreStack) + 1
        /\ \A i \in 1 .. Len(ignoreStack) : ignoreStack[i]
  /\ ignoreAll \in BOOLEAN
  /\ ignoreAll <=> depth > 0

\* The builder holds changes only in an undo section that no excluded one
\* surrounds.
UnexcludedSet ==
  /\ \E S : undoSet \in Seq(S)
  /\ undoSet # <<>> => sections # <<>> /\ sections[1] = "set"

ExcludedInv == SectionInv /\ Flags /\ UnexcludedSet

\* The empty stack of flags.
LEMMA EmptyFlags ==
  /\ <<>> \in Seq(BOOLEAN)
  /\ Len(<<>>) = 0
  /\ 1 .. 0 = {}
OBVIOUS

\* No excluded section is open at the start.
LEMMA ExcludedInit == Init => ExcludedInv
<1> SUFFICES ASSUME Init PROVE ExcludedInv
  OBVIOUS
<1>1. Excluded = {}
  BY DEF Init, At, Excluded
<1>2. Cardinality(Excluded) = 0
  BY <1>1, FS_EmptySet
<1>3. ignoreStack = <<>> /\ ignoreAll = FALSE /\ undoSet = <<>>
  BY DEF Init
<1>4. Flags
  <2>1. /\ ignoreStack \in Seq(BOOLEAN) /\ Len(ignoreStack) = 0
        /\ \A i \in 1 .. Len(ignoreStack) : ignoreStack[i] <=> i > 1
    BY <1>3, EmptyFlags
  <2>2. ~(Cardinality(Excluded) > 0)
    BY <1>2
  <2>3. QED
    BY <1>2, <1>3, <2>1, <2>2 DEF Flags
<1>5. UnexcludedSet
  BY <1>3 DEF UnexcludedSet
<1>6. QED
  BY <1>4, <1>5, SectionInit DEF ExcludedInv

FlagsStay == UNCHANGED <<sections, ignoreStack, ignoreAll>>

\* Everything but three calls leaves the flags and the excluded sections.
LEMMA FlagSteps ==
  ASSUME [Next]_vars
  PROVE  \/ BeginUndoSet \/ EndUndoSet \/ BeginNonUndoable \/ EndNonUndoable
         \/ Clear \/ FlagsStay
<1>1. ASSUME NEW p \in Proxies, NEW v \in Values,
             ChangeProxy(p, v) \/ CreateProxy(p, v)
      PROVE  FlagsStay
  BY <1>1 DEF ChangeProxy, CreateProxy, FlagsStay, builderVars, guiVars
<1>2. ASSUME NEW p \in Proxies,
             UnRegisterProxy(p) \/ Apply(p) \/ DeletedElsewhere(p)
      PROVE  FlagsStay
  BY <1>2 DEF UnRegisterProxy, Apply, DeletedElsewhere, FlagsStay,
              builderVars, guiVars
<1>3. CASE Undo
  BY <1>3 DEF Undo, FlagsStay, builderVars, guiVars
<1>4. CASE Redo
  BY <1>4 DEF Redo, FlagsStay, builderVars, guiVars
<1>5. CASE UNCHANGED vars
  BY <1>5 DEF vars, FlagsStay, builderVars, guiVars
<1>6. QED
  BY <1>1, <1>2, <1>3, <1>4, <1>5 DEF Next

\* The flags come back right, if clear() is called in at most one section.
LEMMA FlagsStep ==
  ASSUME ClearDepth <= 1, SectionInv, Flags, [Next]_vars
  PROVE  Flags'
<1> DEFINE depth == Cardinality(Excluded)
<1>0. sections \in Seq(Kinds) /\ depth \in Nat
  BY BothKinds, AtFinite DEF SectionInv, Excluded
<1>1. CASE BeginUndoSet
  <2>1. sections' = Append(sections, "set") /\ UNCHANGED <<ignoreStack, ignoreAll>>
    BY <1>1 DEF BeginUndoSet
  <2>2. depth' = depth
    BY <1>0, <2>1, BothKinds, OpenOne DEF Excluded
  <2>3. QED
    BY <2>1, <2>2 DEF Flags
<1>2. CASE EndUndoSet
  <2>1. /\ sections # <<>> /\ Last(sections) = "set" /\ sections' = Front(sections)
        /\ UNCHANGED <<ignoreStack, ignoreAll>>
    BY <1>2 DEF EndUndoSet
  <2>2. depth' = depth
    BY <1>0, <2>1, BothKinds, CloseOne DEF Excluded
  <2>3. QED
    BY <2>1, <2>2 DEF Flags
<1>3. CASE BeginNonUndoable
  <2>1. /\ sections' = Append(sections, "exclude")
        /\ ignoreStack' = Append(ignoreStack, ignoreAll) /\ ignoreAll' = TRUE
    BY <1>3 DEF BeginNonUndoable
  <2>2. depth' = depth + 1
    BY <1>0, <2>1, BothKinds, OpenOne DEF Excluded
  <2> DEFINE n == Len(ignoreStack)
  <2>3. /\ ignoreStack \in Seq(BOOLEAN) /\ ignoreAll \in BOOLEAN
        /\ ignoreAll <=> depth > 0
    BY DEF Flags
  <2>4. /\ ignoreStack' \in Seq(BOOLEAN) /\ Len(ignoreStack') = n + 1 /\ n \in Nat
        /\ ignoreStack'[n + 1] = ignoreAll
        /\ \A i \in 1 .. n : ignoreStack'[i] = ignoreStack[i]
    BY <2>1, <2>3
  <2>5. CASE depth = n /\ \A i \in 1 .. n : ignoreStack[i] <=> i > 1
    <3>1. ignoreStack'[n + 1] <=> n + 1 > 1
      BY <2>3, <2>4, <2>5
    <3>2. \A i \in 1 .. n + 1 : ignoreStack'[i] <=> i > 1
      BY <2>4, <2>5, <3>1
    <3>3. QED
      BY <2>1, <2>2, <2>3, <2>4, <2>5, <3>2 DEF Flags
  <2>6. CASE depth = n + 1 /\ \A i \in 1 .. n : ignoreStack[i]
    <3>1. ignoreStack'[n + 1]
      BY <2>3, <2>4, <2>6
    <3>2. \A i \in 1 .. n + 1 : ignoreStack'[i]
      BY <2>4, <2>6, <3>1
    <3>3. QED
      BY <2>1, <2>2, <2>3, <2>4, <2>6, <3>2 DEF Flags
  <2>7. QED
    BY <2>5, <2>6 DEF Flags
<1>4. CASE EndNonUndoable
  <2>1. /\ sections # <<>> /\ Last(sections) = "exclude"
        /\ sections' = Front(sections)
        /\ ignoreAll' = IF ignoreStack = <<>> THEN FALSE ELSE Last(ignoreStack)
        /\ ignoreStack' = IF ignoreStack = <<>> THEN <<>> ELSE Front(ignoreStack)
    BY <1>4 DEF EndNonUndoable
  <2>2. depth' = depth - 1 /\ depth' \in Nat
    <3>1. sections' \in Seq(Kinds) /\ depth' = depth - 1
      BY <1>0, <2>1, BothKinds, CloseOne DEF Excluded
    <3>2. QED
      BY <3>1, BothKinds, AtFinite DEF Excluded
  <2> DEFINE n == Len(ignoreStack)
  <2>3. ignoreStack \in Seq(BOOLEAN)
    BY DEF Flags
  <2>4. CASE ignoreStack = <<>>
    <3>1. depth = 1
      BY <1>0, <2>2, <2>4 DEF Flags
    <3>2. depth' = 0 /\ ignoreStack' = <<>> /\ ignoreAll' = FALSE
      BY <2>1, <2>2, <2>4, <3>1
    <3>3. /\ ignoreStack' \in Seq(BOOLEAN) /\ Len(ignoreStack') = 0
          /\ \A i \in 1 .. Len(ignoreStack') : ignoreStack'[i] <=> i > 1
      BY <3>2, EmptyFlags
    <3>4. ~(depth' > 0)
      BY <3>2
    <3>5. QED
      BY <3>2, <3>3, <3>4 DEF Flags
  <2>5. CASE ignoreStack # <<>>
    <3>1. /\ n \in Nat \ {0} /\ Last(ignoreStack) = ignoreStack[n]
          /\ Last(ignoreStack) \in BOOLEAN
          /\ Front(ignoreStack) \in Seq(BOOLEAN) /\ Len(Front(ignoreStack)) = n - 1
          /\ \A i \in 1 .. n - 1 : Front(ignoreStack)[i] = ignoreStack[i]
      BY <2>3, <2>5, FrontAndLast
    <3>2. ignoreStack' = Front(ignoreStack) /\ ignoreAll' = ignoreStack[n]
      BY <2>1, <2>5, <3>1
    <3>3. CASE depth = n /\ \A i \in 1 .. n : ignoreStack[i] <=> i > 1
      <4>1. ignoreAll' <=> depth' > 0
        BY <2>2, <3>1, <3>2, <3>3
      <4>2. depth' = n - 1 /\ \A i \in 1 .. n - 1 : ignoreStack'[i] <=> i > 1
        BY <2>2, <3>1, <3>2, <3>3
      <4>3. QED
        BY <3>1, <3>2, <4>1, <4>2 DEF Flags
    <3>4. CASE depth = n + 1 /\ \A i \in 1 .. n : ignoreStack[i]
      <4>1. ignoreAll' <=> depth' > 0
        BY <2>2, <3>1, <3>2, <3>4
      <4>2. depth' = n - 1 + 1 /\ \A i \in 1 .. n - 1 : ignoreStack'[i]
        BY <2>2, <3>1, <3>2, <3>4
      <4>3. QED
        BY <3>1, <3>2, <4>1, <4>2 DEF Flags
    <3>5. QED
      BY <3>3, <3>4 DEF Flags
  <2>6. QED
    BY <2>4, <2>5
<1>5. CASE Clear
  <2>1. /\ UNCHANGED <<sections, ignoreAll>> /\ ignoreStack' = <<>>
        /\ Depth("exclude") <= ClearDepth
    BY <1>5 DEF Clear, builderVars
  <2>2. Depth("exclude") = depth
    <3>1. DOMAIN sections = 1 .. Len(sections)
      BY <1>0
    <3>2. QED
      BY <3>1 DEF Depth, Excluded, At
  <2>3. depth' = depth /\ depth \in {0, 1}
    BY <1>0, <2>1, <2>2, DepthAssumption DEF Excluded
  <2>4. QED
    BY <2>1, <2>3, EmptyFlags DEF Flags
<1>6. CASE FlagsStay
  BY <1>6 DEF FlagsStay, Flags, Excluded
<1>7. QED
  BY <1>1, <1>2, <1>3, <1>4, <1>5, <1>6, FlagSteps

\* The builder holds a change more.
IsList(set) == \E S : set \in Seq(S)
Recorded == ~ignoreAll /\ monitoring > 0 /\ IsList(undoSet')

\* What recording a change does.
RecordsOrNot ==
  \/ UNCHANGED setVars
  \/ Recorded /\ StacksStay
  \/ ~ignoreAll /\ undoSet' = <<>>

\* What a recorded change does to the open set and the stacks.
LEMMA RecordCases ==
  ASSUME IsList(undoSet), NEW T, NEW elements \in Seq(T), Record(elements)
  PROVE  RecordsOrNot
<1>1. PICK S : undoSet \in Seq(S)
  BY DEF IsList
<1>2. undoSet \o elements \in Seq(S \cup T)
  BY <1>1
<1>3. QED
  BY <1>2 DEF Record, Ignores, PushSet, Recorded, IsList, StacksStay, RecordsOrNot

\* A change of an object leaves the sections as they are.
LEMMA ChangeRecords ==
  ASSUME IsList(undoSet), NEW p \in Proxies,
         \/ \E v \in Values : ChangeProxy(p, v) \/ CreateProxy(p, v)
         \/ UnRegisterProxy(p)
  PROVE  UNCHANGED sections /\ RecordsOrNot
<1>1. ASSUME NEW e1, Record(<<e1>>)
      PROVE  RecordsOrNot
  <2>1. <<e1>> \in Seq({e1})
    OBVIOUS
  <2>2. QED
    BY <1>1, <2>1, RecordCases
<1>2. ASSUME NEW e1, NEW e2, Record(<<e1, e2>>)
      PROVE  RecordsOrNot
  <2>1. <<e1, e2>> \in Seq({e1, e2})
    OBVIOUS
  <2>2. QED
    BY <1>2, <2>1, RecordCases
<1>3. ASSUME NEW v \in Values, ChangeProxy(p, v)
      PROVE  UNCHANGED sections /\ RecordsOrNot
  BY <1>1, <1>3 DEF ChangeProxy, guiVars
<1>4. ASSUME NEW v \in Values, CreateProxy(p, v)
      PROVE  UNCHANGED sections /\ RecordsOrNot
  BY <1>2, <1>4 DEF CreateProxy, guiVars
<1>5. CASE UnRegisterProxy(p)
  BY <1>1, <1>5 DEF UnRegisterProxy, guiVars
<1>6. QED
  BY <1>3, <1>4, <1>5

\* What a step does to the open set.
SetEmptied == undoSet' = <<>>
SetStays == undoSet' = undoSet
SectionCall ==
  BeginUndoSet \/ EndUndoSet \/ BeginNonUndoable \/ EndNonUndoable

\* A step empties the open set, leaves it, records in it, or is a call of a section.
LEMMA SetSteps ==
  ASSUME SectionInv, IsList(undoSet), [Next]_vars
  PROVE  \/ SetEmptied
         \/ UNCHANGED sections /\ SetStays
         \/ UNCHANGED sections /\ Recorded
         \/ SectionCall
<1>1. ASSUME NEW p \in Proxies,
             \/ \E v \in Values : ChangeProxy(p, v) \/ CreateProxy(p, v)
             \/ UnRegisterProxy(p)
      PROVE  SetEmptied \/ (UNCHANGED sections /\ (SetStays \/ Recorded))
  BY <1>1, ChangeRecords DEF RecordsOrNot, setVars, SetEmptied, SetStays
<1>2. ASSUME NEW p \in Proxies, Apply(p)
      PROVE  UNCHANGED sections /\ (SetStays \/ Recorded)
  <2>1. CASE ignoreAll \/ monitoring = 0
    BY <1>2, <2>1 DEF Apply, guiVars, SetStays
  <2>2. CASE ~(ignoreAll \/ monitoring = 0)
    <3>1. PICK S : undoSet \in Seq(S)
      BY DEF IsList
    <3>2. undoSet' = Append(undoSet, MadeUnmodified(p))
      BY <1>2, <2>2 DEF Apply
    <3>3. undoSet' \in Seq(S \cup {MadeUnmodified(p)})
      BY <3>1, <3>2
    <3>4. monitoring > 0
      BY <2>2 DEF SectionInv
    <3>5. QED
      BY <1>2, <2>2, <3>3, <3>4 DEF Apply, guiVars, Recorded, IsList
  <2>3. QED
    BY <2>1, <2>2
<1>3. CASE (\E p \in Proxies : DeletedElsewhere(p)) \/ Undo \/ Redo \/ UNCHANGED vars
  BY <1>3 DEF DeletedElsewhere, Undo, Redo, vars, guiVars, setVars, SetStays
<1>4. CASE Clear
  BY <1>4 DEF Clear, SetEmptied
<1>5. QED
  BY <1>1, <1>2, <1>3, <1>4 DEF Next, SectionCall

\* Without an open excluded section, the first open section is an undo section.
LEMMA FirstIsSet ==
  ASSUME SectionInv, Cardinality(Excluded) = 0, nestedCount > 0
  PROVE  sections # <<>> /\ sections[1] = "set"
<1>1. sections \in Seq(Kinds)
  BY DEF SectionInv
<1>2. Excluded = {} /\ At("set", sections) # {}
  BY <1>1, BothKinds, AtFinite DEF SectionInv, Excluded
<1>3. Len(sections) \in Nat \ {0} /\ sections # <<>>
  BY <1>1, <1>2 DEF At
<1>4. 1 \in 1 .. Len(sections) /\ sections[1] \in Kinds
  BY <1>1, <1>3
<1>5. sections[1] # "exclude"
  BY <1>2, <1>4 DEF Excluded, At
<1>6. QED
  BY <1>3, <1>4, <1>5 DEF Kinds

\* The end of the only open section, an undo section, empties the open set.
LEMMA LastEndEmpties ==
  ASSUME SectionInv, SectionInv', IsList(undoSet), EndUndoSet, sections' = <<>>
  PROVE  SetEmptied
<1>1. At("set", sections') = {}
  BY DEF At
<1>2. nestedCount' = 0
  BY <1>1, FS_EmptySet DEF SectionInv
<1>3. monitoring' = 0
  BY <1>2 DEF SectionInv
<1>4. QED
  BY <1>3 DEF EndUndoSet, PushSet, setVars, SetEmptied

\* The builder goes on to hold changes only in unexcluded undo sections.
LEMMA UnexcludedStep ==
  ASSUME SectionInv, SectionInv', Flags, UnexcludedSet, [Next]_vars
  PROVE  UnexcludedSet'
<1>0. IsList(undoSet) /\ sections \in Seq(Kinds)
  BY DEF UnexcludedSet, IsList, SectionInv
<1>1. CASE SetEmptied
  <2>1. undoSet' \in Seq({})
    BY <1>1 DEF SetEmptied
  <2>2. QED
    BY <1>1, <2>1 DEF SetEmptied, UnexcludedSet
<1>2. CASE UNCHANGED sections /\ SetStays
  BY <1>2 DEF SetStays, UnexcludedSet
<1>3. CASE UNCHANGED sections /\ Recorded
  <2>1. Cardinality(Excluded) = 0
    BY <1>0, <1>3, BothKinds, AtFinite DEF Recorded, Flags, Excluded
  <2>2. nestedCount > 0
    BY <1>3 DEF Recorded, SectionInv
  <2>3. QED
    BY <1>3, <2>1, <2>2, FirstIsSet DEF Recorded, IsList, UnexcludedSet
<1>4. CASE BeginUndoSet \/ BeginNonUndoable
  <2>1. undoSet' = undoSet
    BY <1>4 DEF BeginUndoSet, BeginNonUndoable, setVars
  <2>2. PICK kind \in Kinds : sections' = Append(sections, kind)
    BY <1>4, BothKinds DEF BeginUndoSet, BeginNonUndoable
  <2>3. sections # <<>> => sections' # <<>> /\ sections'[1] = sections[1]
    BY <1>0, <2>2
  <2>4. QED
    BY <2>1, <2>3 DEF UnexcludedSet
<1>5. CASE EndUndoSet \/ EndNonUndoable
  <2>1. sections # <<>> /\ sections' = Front(sections)
    BY <1>5 DEF EndUndoSet, EndNonUndoable
  <2> DEFINE n == Len(sections)
  <2>2. /\ n \in Nat \ {0} /\ Last(sections) = sections[n]
        /\ sections' \in Seq(Kinds) /\ Len(sections') = n - 1
        /\ \A i \in 1 .. n - 1 : sections'[i] = sections[i]
    BY <1>0, <2>1, FrontAndLast
  <2>3. CASE n # 1
    <3>1. sections' # <<>> /\ sections'[1] = sections[1]
      BY <2>2, <2>3
    <3>2. SetEmptied \/ undoSet' = undoSet
      BY <1>5 DEF EndUndoSet, EndNonUndoable, PushSet, setVars, SetEmptied
    <3>3. QED
      BY <1>1, <2>1, <3>1, <3>2 DEF UnexcludedSet
  <2>4. CASE n = 1
    <3>1. sections' = <<>>
      BY <2>2, <2>4
    <3>2. CASE EndUndoSet
      BY <1>0, <1>1, <3>1, <3>2, LastEndEmpties
    <3>3. CASE EndNonUndoable
      <4>1. sections[1] = "exclude" /\ undoSet' = undoSet
        BY <2>2, <2>4, <3>3 DEF EndNonUndoable, setVars
      <4>2. undoSet = <<>>
        BY <4>1 DEF UnexcludedSet
      <4>3. QED
        BY <1>1, <4>1, <4>2 DEF SetEmptied
    <3>4. QED
      BY <1>5, <3>2, <3>3
  <2>5. QED
    BY <2>3, <2>4
<1>6. QED
  BY <1>0, <1>1, <1>2, <1>3, <1>4, <1>5, SetSteps DEF SectionCall

\* In an excluded section, no set is pushed.
LEMMA NotPushed ==
  ASSUME SectionInv, SectionInv', UnexcludedSet, Cardinality(Excluded) > 0,
         ignoreAll, Next
  PROVE  StacksStay \/ ClearStacks \/ MoveToRedo \/ MoveToUndo
<1>0. IsList(undoSet) /\ sections \in Seq(Kinds)
  BY DEF UnexcludedSet, IsList, SectionInv
<1>1. ASSUME NEW p \in Proxies,
             \/ \E v \in Values : ChangeProxy(p, v) \/ CreateProxy(p, v)
             \/ UnRegisterProxy(p)
      PROVE  StacksStay
  BY <1>0, <1>1, ChangeRecords DEF RecordsOrNot, setVars, StacksStay
<1>2. ASSUME NEW p \in Proxies, Apply(p) \/ DeletedElsewhere(p)
      PROVE  StacksStay
  BY <1>2 DEF Apply, DeletedElsewhere, StacksStay, setVars
<1>3. CASE BeginUndoSet \/ BeginNonUndoable \/ EndNonUndoable
  BY <1>3 DEF BeginUndoSet, BeginNonUndoable, EndNonUndoable, StacksStay, setVars
<1>4. CASE EndUndoSet
  <2>1. CASE undoSet = <<>>
    BY <1>4, <2>1 DEF EndUndoSet, StacksStay, setVars
  <2>2. CASE undoSet # <<>>
    <3> DEFINE n == Len(sections)
    <3>1. sections # <<>> /\ sections[1] = "set"
      BY <2>2 DEF UnexcludedSet
    <3>2. /\ n \in Nat \ {0} /\ sections' \in Seq(Kinds)
          /\ Len(sections') = n - 1 /\ Last(sections) = sections[n]
          /\ \A i \in 1 .. n - 1 : sections'[i] = sections[i]
      BY <1>0, <1>4, <3>1, FrontAndLast DEF EndUndoSet
    <3>3. n # 1
      <4>1. SUFFICES ASSUME n = 1 PROVE FALSE
        OBVIOUS
      <4>2. Excluded = {}
        BY <3>1, <4>1 DEF Excluded, At
      <4>3. QED
        BY <4>2, FS_EmptySet
    <3>4. 1 \in At("set", sections')
      BY <3>1, <3>2, <3>3 DEF At
    <3>5. nestedCount' > 0
      BY <3>2, <3>4, BothKinds, AtFinite DEF SectionInv
    <3>6. monitoring' # 0
      BY <3>5 DEF SectionInv
    <3>7. QED
      BY <1>4, <3>6 DEF EndUndoSet, StacksStay, setVars
  <2>3. QED
    BY <2>1, <2>2
<1>5. CASE Clear
  BY <1>5 DEF Clear, ClearStacks
<1>6. QED
  BY <1>1, <1>2, <1>3, <1>4, <1>5, UndoMoves, RedoMoves DEF Next

\* In an excluded section, the open set does not grow.
LEMMA SetDoesNotGrow ==
  ASSUME SectionInv, UnexcludedSet, ignoreAll, [Next]_vars
  PROVE  SetEmptied \/ SetStays
<1>1. IsList(undoSet)
  BY DEF UnexcludedSet, IsList
<1>2. SectionCall => SetEmptied \/ SetStays
  BY DEF SectionCall, BeginUndoSet, EndUndoSet, BeginNonUndoable, EndNonUndoable,
         PushSet, setVars, SetEmptied, SetStays
<1>3. QED
  BY <1>1, <1>2, SetSteps DEF Recorded

NothingRecorded ==
  Open("exclude") =>
    /\ Len(undoSet') <= Len(undoSet)
    /\ Len(undoStack') + Len(redoStack') <= Len(undoStack) + Len(redoStack)

\* A step in an excluded section leaves the open set and the history.
LEMMA StepRecordsNothing ==
  ASSUME BoundedInv, ExcludedInv, SectionInv', Next
  PROVE  NothingRecorded
<1> SUFFICES ASSUME NEW i \in DOMAIN sections, sections[i] = "exclude"
             PROVE  /\ Len(undoSet') <= Len(undoSet)
                    /\ Len(undoStack') + Len(redoStack')
                         <= Len(undoStack) + Len(redoStack)
  BY DEF NothingRecorded, Open
<1>0. SectionInv /\ Flags /\ UnexcludedSet
  BY DEF ExcludedInv
<1>1. i \in Excluded /\ sections \in Seq(Kinds)
  BY <1>0 DEF SectionInv, Excluded, At
<1>2. Cardinality(Excluded) > 0
  BY <1>1, BothKinds, AtFinite DEF Excluded
<1>3. ignoreAll
  BY <1>0, <1>2 DEF Flags
<1>4. Len(undoSet') <= Len(undoSet)
  <2>1. PICK S : undoSet \in Seq(S)
    BY <1>0 DEF UnexcludedSet
  <2>2. Len(undoSet) \in Nat
    BY <2>1
  <2>3. SetEmptied \/ SetStays
    BY <1>0, <1>3, SetDoesNotGrow
  <2>4. QED
    BY <2>2, <2>3 DEF SetEmptied, SetStays
<1>5. PICK S : StacksOf(S)
  BY DEF BoundedInv
<1>6. Len(undoStack) \in Nat /\ Len(redoStack) \in Nat
  BY <1>5 DEF StacksOf
<1>7. StacksStay \/ ClearStacks \/ MoveToRedo \/ MoveToUndo
  BY <1>0, <1>2, <1>3, NotPushed
<1>8. CASE StacksStay
  BY <1>4, <1>6, <1>8 DEF StacksStay
<1>9. CASE ClearStacks
  BY <1>4, <1>6, <1>9 DEF ClearStacks
<1>10. CASE MoveToRedo \/ MoveToUndo
  BY <1>4, <1>5, <1>6, <1>10, MoveKeepsTotal
<1>11. QED
  BY <1>7, <1>8, <1>9, <1>10

\* Nothing is recorded while an excluded section is open, for every nesting of
\* sections, if clear() is called in at most one of them: the flags that
\* IgnoreAllChangesStack lost in clear() are then those it would have held
\* (pqUndoStack::beginNonUndoableChanges, endNonUndoableChanges, clear).
THEOREM NothingExcluded == ASSUME ClearDepth <= 1 PROVE Spec => ExcludedNotRecorded
<1>1. ExcludedInv /\ [Next]_vars => ExcludedInv'
  BY SectionStep, FlagsStep, UnexcludedStep DEF ExcludedInv
<1>2. BoundedInv /\ ExcludedInv /\ ExcludedInv' /\ Next => NothingRecorded
  BY StepRecordsNothing DEF ExcludedInv
<1>3. Spec => [][NothingRecorded]_vars
  BY BoundedInit, BoundedStep, ExcludedInit, <1>1, <1>2, PTL DEF Spec
<1>4. QED
  BY <1>3 DEF NothingRecorded, ExcludedNotRecorded

-----------------------------------------------------------------------------
(* Types                                                                   *)

World == {w \in [Objects -> States \cup SUBSET Proxies] : IsWorld(w)}

\* Exactly the registered proxies have a state.
Sound(w) == \A p \in Proxies : p \in w[Pipeline] <=> w[p] # NoState

Elements ==
  [kind : {"update"}, id : Proxies, before : Values, after : Values]
  \cup [kind : {"update"}, id : {Pipeline}, before : SUBSET Proxies,
        after : SUBSET Proxies]
  \cup [kind : {"modified"}, id : Proxies, reverse : BOOLEAN]
Sets ==
  [elements : Seq(Elements) \ {<<>>}, from : {w \in World : Sound(w)},
   to : {w \in World : Sound(w)}]

Modified == [Proxies -> {"UNINITIALIZED", "UNMODIFIED"}]

\* Where the processing of a set can stand.
Ats ==
  {a \in [state : World, modified : Modified, alive : SUBSET Proxies,
          failed : Nat] :
     /\ a.state[Pipeline] \subseteq a.alive
     /\ \A p \in a.alive : a.state[p] # NoState}

\* A proxy is not the pipeline, and no state is neither a value nor a world.
LEMMA Apart ==
  /\ Pipeline \notin Proxies /\ Pipeline \in Objects
  /\ NoState \notin Values /\ NoState \in States /\ Values \subseteq States
  /\ NoState \notin World
  /\ \A p \in Proxies : p \in Objects /\ p # Pipeline
BY PipelineAssumption, NoStateAssumption DEF Objects, States, World

\* A world, member by member.
LEMMA WorldIs ==
  ASSUME NEW w
  PROVE  w \in World <=> /\ w = [o \in Objects |-> w[o]]
                         /\ w[Pipeline] \in SUBSET Proxies
                         /\ \A p \in Proxies : w[p] \in States
<1>1. ASSUME w \in World
      PROVE  /\ w = [o \in Objects |-> w[o]]
             /\ w[Pipeline] \in SUBSET Proxies
             /\ \A p \in Proxies : w[p] \in States
  BY <1>1 DEF World, IsWorld
<1>2. ASSUME w = [o \in Objects |-> w[o]], w[Pipeline] \in SUBSET Proxies,
             \A p \in Proxies : w[p] \in States
      PROVE  w \in World
  <2>1. DOMAIN w = Objects
    BY <1>2
  <2>2. \A o \in Objects : w[o] \in States \cup SUBSET Proxies
    BY <1>2 DEF Objects
  <2>3. w \in [Objects -> States \cup SUBSET Proxies]
    BY <1>2, <2>2
  <2> QED
    BY <1>2, <2>1, <2>3 DEF World, IsWorld
<1> QED
  BY <1>1, <1>2

\* A world in which one proxy has another state.
OneChanged(w, p, v, u) ==
  /\ u \in World /\ u[Pipeline] = w[Pipeline] /\ u[p] = v
  /\ \A q \in Proxies : q # p => u[q] = w[q]

\* The result of the assignment is one.
LEMMA ChangingOne ==
  ASSUME NEW w, w \in World, NEW p, p \in Proxies, NEW v, v \in States,
         NEW u, u = [w EXCEPT ![p] = v]
  PROVE  OneChanged(w, p, v, u)
<1>1. w = [o \in Objects |-> w[o]]
  BY WorldIs
<1>2. u = [o \in Objects |-> IF o = p THEN v ELSE w[o]]
  BY <1>1, Apart
<1>3. u[Pipeline] = w[Pipeline] /\ \A q \in Proxies : u[q] = IF q = p THEN v ELSE w[q]
  BY <1>2, Apart
<1>4. u = [o \in Objects |-> u[o]]
  BY <1>2
<1>5. /\ w[Pipeline] \in SUBSET Proxies
      /\ \A q \in Proxies : w[q] \in States
  BY WorldIs
<1>6. u \in World
  BY <1>3, <1>4, <1>5, WorldIs
<1> QED
  BY <1>3, <1>6 DEF OneChanged

\* The proxies that are there or can be created.
Reached(registered, alive, found) ==
  {p \in registered : p \in alive \/ found[p] # NoState}

\* From a to b by loading the pipeline.
LoadsFrom(a, registered, found, b) ==
  LET known == Reached(registered, a.alive, found) IN
  /\ b \in Ats
  /\ b.state[Pipeline] = known
  /\ b.alive = a.alive \cup known
  /\ b.failed = a.failed
  /\ \A p \in Proxies :
       b.state[p] = IF p \in known \ a.alive THEN found[p] ELSE a.state[p]

\* The pipeline is loaded: what is there then.
LEMMA LoadingPipeline ==
  ASSUME NEW a \in Ats, NEW registered \in SUBSET Proxies,
         NEW found \in [Proxies -> States]
  PROVE  LoadsFrom(a, registered, found, LoadPipeline(a, registered, found))
<1> DEFINE known == Reached(registered, a.alive, found)
           b == LoadPipeline(a, registered, found)
           s == [o \in Objects |-> IF o = Pipeline THEN known
                                   ELSE IF o \in known \ a.alive THEN found[o]
                                   ELSE a.state[o]]
           m == [p \in Proxies |-> IF p \in a.state[Pipeline] THEN a.modified[p]
                                   ELSE "UNMODIFIED"]
<1>1. /\ a = [state |-> a.state, modified |-> a.modified, alive |-> a.alive,
              failed |-> a.failed]
      /\ a.state \in World /\ a.modified \in Modified
      /\ a.alive \in SUBSET Proxies /\ a.failed \in Nat
      /\ a.state[Pipeline] \subseteq a.alive
      /\ \A p \in a.alive : a.state[p] # NoState
  BY DEF Ats
<1>2. b = [state |-> s, modified |-> m, alive |-> a.alive \cup known,
           failed |-> a.failed]
  BY DEF LoadPipeline, Reached
<1>3. /\ s[Pipeline] = known
      /\ \A p \in Proxies : s[p] = IF p \in known \ a.alive THEN found[p] ELSE a.state[p]
  BY Apart
<1>4. m \in Modified
  BY <1>1 DEF Modified
<1> HIDE DEF s, m, b
<1>5. known \subseteq Proxies
  BY DEF Reached
<1>6. s \in World
  <2>1. s = [o \in Objects |-> s[o]]
    BY DEF s
  <2>2. \A p \in Proxies : s[p] \in States
    BY <1>1, <1>3, WorldIs
  <2> QED
    BY <1>3, <1>5, <2>1, <2>2, WorldIs
<1>7. \A p \in a.alive \cup known : s[p] # NoState
  <2> SUFFICES ASSUME NEW p \in a.alive \cup known PROVE s[p] # NoState
    OBVIOUS
  <2>1. CASE p \in a.alive
    BY <1>1, <1>3, <2>1
  <2>2. CASE p \notin a.alive
    <3>1. p \in known \ a.alive /\ p \in Proxies /\ found[p] # NoState
      BY <2>2 DEF Reached
    <3> QED
      BY <1>3, <3>1
  <2> QED
    BY <2>1, <2>2
<1> HIDE DEF known
<1>8. b \in Ats
  <2>1. b \in [state : World, modified : Modified, alive : SUBSET Proxies,
               failed : Nat]
    BY <1>1, <1>2, <1>4, <1>5, <1>6
  <2>2. b.state = s /\ b.alive = a.alive \cup known
    BY <1>2
  <2> QED
    BY <1>3, <1>7, <2>1, <2>2 DEF Ats
<1> QED
  BY <1>2, <1>3, <1>8 DEF known, b, LoadsFrom

\* What undoing or redoing an element leads to.
Target(e, direction) == IF direction = "undo" THEN e.before ELSE e.after

Updates(e, o) == e.kind = "update" /\ e.id = o

\* The elements of a set, one by one.
LEMMA ElementIs ==
  ASSUME NEW e \in Elements, NEW direction
  PROVE  /\ e.kind \in {"update", "modified"}
         /\ e.kind = "update" => e.id \in Objects
         /\ e.kind = "modified" => e.id \in Proxies
         /\ Updates(e, Pipeline) => Target(e, direction) \in SUBSET Proxies
         /\ \A p \in Proxies : Updates(e, p) => Target(e, direction) \in Values
<1>1. CASE e \in [kind : {"update"}, id : Proxies, before : Values, after : Values]
  BY <1>1, Apart DEF Updates, Target
<1>2. CASE e \in [kind : {"update"}, id : {Pipeline}, before : SUBSET Proxies,
                  after : SUBSET Proxies]
  BY <1>2, Apart DEF Updates, Target
<1>3. CASE e \in [kind : {"modified"}, id : Proxies, reverse : BOOLEAN]
  BY <1>3 DEF Updates
<1> QED
  BY <1>1, <1>2, <1>3 DEF Elements

\* From a to b by one element.
Processed(a, e, direction, found, b) ==
  /\ b.alive = IF Updates(e, Pipeline)
               THEN a.alive \cup Reached(Target(e, direction), a.alive, found) ELSE a.alive
  /\ b.state[Pipeline] = IF Updates(e, Pipeline)
                         THEN Reached(Target(e, direction), a.alive, found)
                         ELSE a.state[Pipeline]
  /\ \A p \in Proxies :
       b.state[p] = IF Updates(e, p) /\ p \in a.alive THEN Target(e, direction)
                    ELSE IF Updates(e, Pipeline) /\ p \in b.alive \ a.alive
                    THEN found[p]
                    ELSE a.state[p]

\* An element of either kind is processed.
LEMMA Processing ==
  ASSUME NEW a \in Ats, NEW e \in Elements, NEW k \in Nat, NEW direction,
         NEW found \in [Proxies -> States]
  PROVE  LET b == Process(a, e, k, direction, found)
         IN  b \in Ats /\ Processed(a, e, direction, found, b)
             /\ b.failed \in {a.failed, k}
<1> DEFINE b == Process(a, e, k, direction, found)
           target == Target(e, direction)
<1>1. /\ a \in [state : World, modified : Modified, alive : SUBSET Proxies,
                failed : Nat]
      /\ a.state[Pipeline] \subseteq a.alive
      /\ \A p \in a.alive : a.state[p] # NoState
  BY DEF Ats
<1>2. CASE Updates(e, Pipeline)
  <2>1. b = LoadPipeline(a, target, found)
    BY <1>2 DEF Process, Updates, Target
  <2>2. target \in SUBSET Proxies
    BY <1>2, ElementIs
  <2>3. \A p \in Proxies : ~Updates(e, p)
    BY <1>2, Apart DEF Updates
  <2> DEFINE known == Reached(target, a.alive, found)
  <2>4. /\ b \in Ats
        /\ b.state[Pipeline] = known
        /\ b.alive = a.alive \cup known
        /\ b.failed = a.failed
        /\ \A p \in Proxies :
             b.state[p] = IF p \in known \ a.alive THEN found[p] ELSE a.state[p]
    <3>1. LoadsFrom(a, target, found, LoadPipeline(a, target, found))
      BY <2>2, LoadingPipeline
    <3> HIDE DEF b, target
    <3> QED
      BY <2>1, <3>1 DEF LoadsFrom
  <2>5. known = Reached(Target(e, direction), a.alive, found)
    OBVIOUS
  <2> HIDE DEF known, b, target
  <2>6. Processed(a, e, direction, found, b)
    BY <1>2, <2>3, <2>4, <2>5 DEF Processed
  <2> QED
    BY <2>4, <2>6 DEF b
<1>3. CASE \E p \in Proxies : Updates(e, p)
  <2>1. PICK p \in Proxies : Updates(e, p)
    BY <1>3
  <2>2. /\ p # Pipeline /\ ~Updates(e, Pipeline)
        /\ \A q \in Proxies : Updates(e, q) <=> q = p
    BY <2>1, Apart DEF Updates
  <2>3. target \in Values /\ target \in States /\ target # NoState
    BY <2>1, ElementIs, Apart
  <2>4. CASE p \notin a.alive
    <3>1. b = a
      BY <2>1, <2>2, <2>4 DEF Process, Updates
    <3> QED
      BY <2>2, <2>4, <3>1 DEF Processed
  <2>5. CASE p \in a.alive
    <3> DEFINE s == [a.state EXCEPT ![p] = target]
    <3>1. b = [a EXCEPT !.state[p] = target]
      BY <2>1, <2>2, <2>5 DEF Process, Updates, Target
    <3>2. b = [state |-> s, modified |-> a.modified, alive |-> a.alive,
               failed |-> a.failed]
      <4>1. ASSUME NEW v PROVE [a EXCEPT !.state[p] = v]
              = [state |-> [a.state EXCEPT ![p] = v], modified |-> a.modified,
                 alive |-> a.alive, failed |-> a.failed]
        BY <1>1
      <4> HIDE DEF target
      <4> QED
        BY <3>1, <4>1
    <3>3. /\ s \in World
          /\ s[Pipeline] = a.state[Pipeline]
          /\ s[p] = target
          /\ \A q \in Proxies : q # p => s[q] = a.state[q]
      <4>1. a.state \in World /\ s = [a.state EXCEPT ![p] = target]
        BY <1>1
      <4> HIDE DEF s, target
      <4>2. OneChanged(a.state, p, target, s)
        BY ONLY <2>3, <4>1, p \in Proxies, ChangingOne
      <4> QED
        BY <4>2 DEF OneChanged
    <3> HIDE DEF s, b, target
    <3>4. b \in [state : World, modified : Modified, alive : SUBSET Proxies,
                 failed : Nat]
      BY <1>1, <3>2, <3>3
    <3>5. b.state = s /\ b.alive = a.alive /\ b.failed = a.failed
      BY <3>2
    <3>6. \A q \in a.alive : s[q] # NoState
      <4> SUFFICES ASSUME NEW q \in a.alive PROVE s[q] # NoState
        OBVIOUS
      <4>1. q \in Proxies
        BY <1>1
      <4> QED
        BY <1>1, <2>3, <3>3, <4>1
    <3>7. b \in Ats
      BY <1>1, <3>3, <3>4, <3>5, <3>6 DEF Ats
    <3>8. Processed(a, e, direction, found, b)
      BY <2>2, <2>5, <3>3, <3>5 DEF Processed, target
    <3> QED
      BY <3>5, <3>7, <3>8 DEF b
  <2> QED
    BY <2>4, <2>5
<1>4. CASE ~Updates(e, Pipeline) /\ ~(\E p \in Proxies : Updates(e, p))
  <2>1. e.kind # "update" /\ e.id \in Proxies
    BY <1>4, ElementIs DEF Updates, Objects
  <2>2. b = a \/ b = [a EXCEPT !.failed = k]
             \/ \E m \in {"UNINITIALIZED", "UNMODIFIED"} :
                  b = [a EXCEPT !.modified[e.id] = m]
    BY <2>1 DEF Process
  <2>3. b \in [state : World, modified : Modified, alive : SUBSET Proxies,
               failed : Nat]
        /\ b.state = a.state /\ b.alive = a.alive /\ b.failed \in {a.failed, k}
    <3>1. CASE b = a
      BY <1>1, <3>1
    <3>2. CASE b = [a EXCEPT !.failed = k]
      BY <1>1, <3>2
    <3>3. ASSUME NEW m \in {"UNINITIALIZED", "UNMODIFIED"},
                 b = [a EXCEPT !.modified[e.id] = m]
          PROVE  b = [state |-> a.state, modified |-> [a.modified EXCEPT ![e.id] = m],
                      alive |-> a.alive, failed |-> a.failed]
                 /\ [a.modified EXCEPT ![e.id] = m] \in Modified
      <4>1. b = [state |-> a.state, modified |-> [a.modified EXCEPT ![e.id] = m],
                 alive |-> a.alive, failed |-> a.failed]
        <5> HIDE DEF b
        <5> QED
          BY <1>1, <3>3
      <4>2. a.modified \in Modified
        BY <1>1
      <4>3. [a.modified EXCEPT ![e.id] = m] \in Modified
        BY <2>1, <4>2 DEF Modified
      <4> QED
        BY <4>1, <4>3
    <3> HIDE DEF b
    <3> QED
      BY <1>1, <2>2, <3>1, <3>2, <3>3
  <2> HIDE DEF b
  <2>4. b \in Ats
    BY <1>1, <2>3 DEF Ats
  <2>5. Processed(a, e, direction, found, b)
    BY <1>4, <2>3 DEF Processed
  <2> QED
    BY <2>3, <2>4, <2>5 DEF b
<1> QED
  BY <1>2, <1>3, <1>4

-----------------------------------------------------------------------------
(* The elements in their order                                             *)

\* What holds of 0, and of every number after one of which it holds, holds of
\* all up to n: stated for the set of those of which it does not.
LEMMA NoLeastExample ==
  ASSUME NEW n \in Nat, NEW S \in SUBSET (0 .. n), 0 \notin S,
         \A i \in 1 .. n : i \in S => i - 1 \in S
  PROVE  S = {}
<1> SUFFICES ASSUME S # {} PROVE FALSE
  OBVIOUS
<1> DEFINE Less == OpToRel(<, Nat)
<1>1. IsWellFoundedOn(Less, Nat)
  BY NatLessThanWellFounded
<1>2. S \subseteq Nat
  OBVIOUS
<1>3. \A x, y \in Nat : y < x => <<y, x>> \in Less
  BY DEF OpToRel
<1> HIDE DEF Less
<1>4. PICK i \in S : \A j \in S : ~(<<j, i>> \in Less)
  BY <1>1, <1>2, WFMin
<1>5. i \in 1 .. n /\ i - 1 \in S
  BY <1>2
<1>6. i - 1 < i /\ i - 1 \in Nat /\ i \in Nat
  BY <1>5
<1> QED
  BY <1>3, <1>4, <1>5, <1>6

\* One more element.
OneMore(a, es, order, n, direction, found, stops) ==
  IF stops /\ a.failed # 0 THEN a
  ELSE Process(a, es[order[n]], order[n], direction, found)

\* What is there after n elements, given what is after the others.
Turn(at, es, order, direction, found, stops, f, n) ==
  IF n = 0 THEN at ELSE OneMore(f[n - 1], es, order, n, direction, found, stops)

\* The elements have their turns, and Run is what is there after the last.
LEMMA RunTurns ==
  ASSUME NEW at, NEW es, NEW order, Len(order) \in Nat, NEW direction, NEW found,
         NEW stops
  PROVE  \E f : /\ f = [i \in 0 .. Len(order) |->
                          Turn(at, es, order, direction, found, stops, f, i)]
                /\ Run(at, es, order, direction, found, stops) = f[Len(order)]
<1> DEFINE N == Len(order)
           T(f, i) == Turn(at, es, order, direction, found, stops, f, i)
           Runs(n) == \E f : f = [i \in 0 .. n |-> T(f, i)]
           S == {n \in 0 .. N : ~Runs(n)}
<1>1. N \in Nat
  OBVIOUS
<1>2. Runs(0)
  <2> DEFINE f == [i \in 0 .. 0 |-> at]
  <2>1. f = [i \in 0 .. 0 |-> T(f, i)]
    BY DEF Turn
  <2> QED
    BY <2>1
<1>3. ASSUME NEW n \in 1 .. N, Runs(n - 1) PROVE Runs(n)
  <2>1. PICK f : f = [i \in 0 .. n - 1 |-> T(f, i)]
    BY <1>3
  <2> DEFINE g == [i \in 0 .. n |-> IF i < n THEN f[i] ELSE T(f, n)]
  <2>2. ASSUME NEW i \in 0 .. n PROVE g[i] = T(g, i)
    <3>1. CASE i = 0
      <4>1. 0 < n /\ 0 \in 0 .. n - 1 /\ 0 \in 0 .. n
        BY <1>1
      <4>2. g[0] = f[0] /\ f[0] = T(f, 0)
        BY <2>1, <4>1
      <4> QED
        BY <3>1, <4>2 DEF Turn
    <3>2. CASE i # 0
      <4>1. i - 1 \in 0 .. n /\ i - 1 < n
        BY <1>1, <3>2
      <4>2. g[i - 1] = f[i - 1]
        BY <4>1
      <4>3. g[i] = T(f, i)
        <5>1. CASE i < n
          <6>1. i \in 0 .. n - 1
            BY <1>1, <5>1
          <6> QED
            BY <2>1, <5>1, <6>1
        <5>2. CASE ~(i < n)
          <6>1. i = n
            BY <1>1, <5>2
          <6> QED
            BY <5>2, <6>1
        <5> QED
          BY <5>1, <5>2
      <4> HIDE DEF g
      <4> QED
        BY <3>2, <4>2, <4>3 DEF Turn
    <3> QED
      BY <3>1, <3>2
  <2>3. g = [i \in 0 .. n |-> g[i]]
    OBVIOUS
  <2> HIDE DEF g
  <2>4. g = [i \in 0 .. n |-> T(g, i)]
    BY <2>2, <2>3
  <2> QED
    BY <2>4
<1>4. S = {}
  <2>1. \A n \in 1 .. N : n \in S => n - 1 \in S
    BY <1>1, <1>3
  <2>2. 0 \notin S /\ S \in SUBSET (0 .. N)
    BY <1>2
  <2> HIDE DEF S
  <2> QED
    BY <1>1, <2>1, <2>2, NoLeastExample
<1>5. Runs(N)
  <2>1. N \in 0 .. N
    BY <1>1
  <2> QED
    BY <1>4, <2>1
<1> DEFINE h == CHOOSE f : f = [i \in 0 .. N |-> T(f, i)]
<1>6. h = [i \in 0 .. N |-> T(h, i)]
  BY <1>5
<1>7. Run(at, es, order, direction, found, stops) = h[N]
  BY DEF Run, Turn, OneMore
<1> QED
  BY <1>6, <1>7

\* What holds at the start and is kept by every element holds at the end: I
\* holds of the pairs of the number of elements processed and what is there.
LEMMA RunInduction ==
  ASSUME NEW at, NEW es, NEW order, Len(order) \in Nat, NEW direction, NEW found,
         NEW stops, NEW I, <<0, at>> \in I,
         \A n \in 1 .. Len(order) : \A a :
           <<n - 1, a>> \in I =>
             <<n, OneMore(a, es, order, n, direction, found, stops)>> \in I
  PROVE  <<Len(order), Run(at, es, order, direction, found, stops)>> \in I
<1> DEFINE N == Len(order)
<1>1. N \in Nat
  OBVIOUS
<1>2. PICK f : /\ f = [i \in 0 .. N |->
                          Turn(at, es, order, direction, found, stops, f, i)]
               /\ Run(at, es, order, direction, found, stops) = f[N]
  BY RunTurns
<1> DEFINE S == {n \in 0 .. N : <<n, f[n]>> \notin I}
<1>3. <<0, f[0]>> \in I
  BY <1>1, <1>2 DEF Turn
<1>4. ASSUME NEW n \in 1 .. N, <<n - 1, f[n - 1]>> \in I PROVE <<n, f[n]>> \in I
  <2>1. n \in 0 .. N /\ n # 0
    BY <1>1
  <2>2. f[n] = OneMore(f[n - 1], es, order, n, direction, found, stops)
    BY <1>2, <2>1 DEF Turn
  <2> QED
    BY <1>4, <2>2
<1>5. S = {}
  <2>1. \A n \in 1 .. N : n \in S => n - 1 \in S
    <3>1. \A n \in 1 .. N : n - 1 \in 0 .. N
      BY <1>1
    <3> QED
      BY <1>4, <3>1
  <2>2. 0 \notin S /\ S \in SUBSET (0 .. N)
    BY <1>3
  <2> HIDE DEF S
  <2> QED
    BY <1>1, <2>1, <2>2, NoLeastExample
<1>6. N \in 0 .. N
  BY <1>1
<1>7. <<N, f[N]>> \in I
  BY <1>5, <1>6
<1> QED
  BY <1>2, <1>7

\* The elements of a list that update an object.
Own(es, o) == {i \in 1 .. Len(es) : Updates(es[i], o)}

\* An order of elements of the list.
OrderOf(order, es) ==
  /\ Len(order) \in Nat
  /\ \A n \in 1 .. Len(order) : order[n] \in 1 .. Len(es)

\* Unless the pipeline is updated, only the objects are changed that are.
Unaffected(at, es, a) ==
  Own(es, Pipeline) = {} =>
    /\ a.alive = at.alive
    /\ \A o \in Objects : Own(es, o) = {} => a.state[o] = at.state[o]

\* In any order, stopping at a failure or not, types are kept, and objects
\* that the elements do not mention.
LEMMA RunKeeps ==
  ASSUME NEW at \in Ats, NEW es \in Seq(Elements), NEW order, OrderOf(order, es),
         NEW direction, NEW found \in [Proxies -> States], NEW stops
  PROVE  LET a == Run(at, es, order, direction, found, stops)
         IN  /\ a \in Ats /\ Unaffected(at, es, a)
             /\ a.failed \in {at.failed} \cup 1 .. Len(es)
<1> DEFINE I == {x \in Nat \X Ats :
                   /\ Unaffected(at, es, x[2])
                   /\ x[2].failed \in {at.failed} \cup 1 .. Len(es)}
           N == Len(order)
<1>1. N \in Nat /\ \A n \in 1 .. N : order[n] \in 1 .. Len(es)
  BY DEF OrderOf
<1>2. <<0, at>> \in I
  BY DEF Unaffected
<1>3. ASSUME NEW n \in 1 .. N, NEW a, <<n - 1, a>> \in I
      PROVE  <<n, OneMore(a, es, order, n, direction, found, stops)>> \in I
  <2> DEFINE k == order[n]  e == es[k]
             b == OneMore(a, es, order, n, direction, found, stops)
  <2>1. /\ a \in Ats /\ Unaffected(at, es, a)
        /\ a.failed \in {at.failed} \cup 1 .. Len(es)
    BY <1>3
  <2>2. n \in Nat /\ k \in Nat /\ k \in 1 .. Len(es) /\ e \in Elements
    BY <1>1
  <2>3. b = a \/ b = Process(a, e, k, direction, found)
    BY DEF OneMore
  <2>4. b = a \/ (/\ b \in Ats /\ Processed(a, e, direction, found, b)
                 /\ b.failed \in {a.failed, k})
    BY <2>1, <2>2, <2>3, Processing
  <2>5. \A o : Own(es, o) = {} => ~Updates(e, o)
    BY <2>2 DEF Own
  <2> HIDE DEF b, e, k
  <2>6. Unaffected(at, es, b)
    <3>1. SUFFICES ASSUME Processed(a, e, direction, found, b), b \in Ats,
                          Own(es, Pipeline) = {}
                   PROVE  /\ b.alive = at.alive
                          /\ \A o \in Objects : Own(es, o) = {} =>
                               b.state[o] = at.state[o]
      BY <2>1, <2>4 DEF Unaffected
    <3>2. ~Updates(e, Pipeline)
      BY <2>5, <3>1
    <3>3. b.alive = a.alive /\ b.state[Pipeline] = a.state[Pipeline]
      BY <3>1, <3>2 DEF Processed
    <3>4. \A p \in Proxies : ~Updates(e, p) => b.state[p] = a.state[p]
      BY <3>1, <3>2 DEF Processed
    <3>5. ASSUME NEW o \in Objects, Own(es, o) = {}
          PROVE  b.state[o] = a.state[o]
      BY <2>5, <3>3, <3>4, <3>5 DEF Objects
    <3> QED
      BY <2>1, <3>1, <3>3, <3>5 DEF Unaffected
  <2> QED
    BY <2>1, <2>2, <2>4, <2>6 DEF b
<1> HIDE DEF I
<1>4. <<N, Run(at, es, order, direction, found, stops)>> \in I
  BY <1>1, <1>2, <1>3, RunInduction
<1> QED
  BY <1>4 DEF I

\* Of the first n elements in the order, the last one that updates an object.
Latest(es, order, o, n, i) ==
  /\ i \in 1 .. n /\ Updates(es[order[i]], o)
  /\ \A j \in 1 .. n : Updates(es[order[j]], o) => j <= i
Never(es, order, o, n) == \A i \in 1 .. n : ~Updates(es[order[i]], o)

\* Each proxy that is to be registered has a state to be created with, and
\* each that is updated is there by then.
CanRun(alive, es, order, direction, found) ==
  \A i \in 1 .. Len(order) :
    LET e == es[order[i]] IN
    /\ Updates(e, Pipeline) => \A p \in Target(e, direction) : found[p] # NoState
    /\ \A p \in Proxies : Updates(e, p) =>
         \/ p \in alive
         \/ \E j \in 1 .. Len(order) :
              /\ j < i /\ Updates(es[order[j]], Pipeline)
              /\ p \in Target(es[order[j]], direction)

\* What n elements have done, if none of them failed.
Sofar(at, es, order, direction, found, n, a) ==
  /\ at.alive \subseteq a.alive
  /\ \A i \in 1 .. n : Updates(es[order[i]], Pipeline) =>
       Target(es[order[i]], direction) \subseteq a.alive
  /\ \A i : Latest(es, order, Pipeline, n, i) =>
       a.state[Pipeline] = Target(es[order[i]], direction)
  /\ Never(es, order, Pipeline, n) => a.state[Pipeline] = at.state[Pipeline]
  /\ \A p \in Proxies :
       /\ \A i : Latest(es, order, p, n, i) =>
            a.state[p] = Target(es[order[i]], direction)
       /\ Never(es, order, p, n) =>
            /\ p \in at.alive => a.state[p] = at.state[p]
            /\ p \in a.alive \ at.alive => a.state[p] = found[p]

\* The last one of n is the nth, or the last one of the others.
LEMMA LatestOn ==
  ASSUME NEW es, NEW order, NEW o, NEW n \in Nat \ {0}
  PROVE  /\ Updates(es[order[n]], o) =>
              /\ \A i : Latest(es, order, o, n, i) => i = n
              /\ ~Never(es, order, o, n)
         /\ ~Updates(es[order[n]], o) =>
              /\ \A i : Latest(es, order, o, n, i) => Latest(es, order, o, n - 1, i)
              /\ Never(es, order, o, n) => Never(es, order, o, n - 1)
<1>1. /\ n \in 1 .. n /\ \A i \in 1 .. n - 1 : i \in 1 .. n
      /\ \A i \in 1 .. n : i = n \/ i \in 1 .. n - 1
  OBVIOUS
<1>2. ASSUME Updates(es[order[n]], o), NEW i, Latest(es, order, o, n, i)
      PROVE  i = n
  <2>1. i \in 1 .. n /\ n <= i
    BY <1>1, <1>2 DEF Latest
  <2> QED
    BY <2>1
<1>3. Updates(es[order[n]], o) => ~Never(es, order, o, n)
  BY <1>1 DEF Never
<1>4. ASSUME ~Updates(es[order[n]], o), NEW i, Latest(es, order, o, n, i)
      PROVE  Latest(es, order, o, n - 1, i)
  BY <1>1, <1>4 DEF Latest
<1>5. Never(es, order, o, n) => Never(es, order, o, n - 1)
  BY <1>1 DEF Never
<1> QED
  BY <1>2, <1>3, <1>4, <1>5

\* One more element that does not fail.
LEMMA SofarOn ==
  ASSUME NEW at \in Ats, NEW es \in Seq(Elements), NEW order, OrderOf(order, es),
         NEW direction, NEW found \in [Proxies -> States],
         CanRun(at.alive, es, order, direction, found),
         NEW n \in 1 .. Len(order), NEW a \in Ats,
         Sofar(at, es, order, direction, found, n - 1, a),
         NEW b \in Ats, Processed(a, es[order[n]], direction, found, b)
  PROVE  Sofar(at, es, order, direction, found, n, b)
<1> DEFINE N == Len(order)
           e == es[order[n]]
           target == Target(e, direction)
           T(i) == Target(es[order[i]], direction)
           Upd(i, o) == Updates(es[order[i]], o)
<1>1. /\ N \in Nat /\ n \in Nat \ {0} /\ order[n] \in 1 .. Len(es)
      /\ e \in Elements /\ n - 1 \in Nat
      /\ \A i \in 1 .. n : i = n \/ i \in 1 .. n - 1
      /\ \A i \in 1 .. n - 1 : i \in 1 .. n /\ i < n
      /\ \A i \in 1 .. n : i \in 1 .. N
      /\ \A i, j \in 1 .. N : i < n /\ j < i => j \in 1 .. n - 1
      /\ \A j \in 1 .. N : j < n => j \in 1 .. n - 1
  <2>1. N \in Nat /\ order[n] \in 1 .. Len(es)
    BY DEF OrderOf
  <2>2. e \in Elements
    BY <2>1
  <2> HIDE DEF e
  <2> QED
    BY <2>1, <2>2
<1>2. /\ at.alive \subseteq a.alive
      /\ \A i \in 1 .. n - 1 : Upd(i, Pipeline) => T(i) \subseteq a.alive
  BY DEF Sofar
<1>3. a.alive \in SUBSET Proxies /\ at.alive \in SUBSET Proxies
  BY DEF Ats
<1>4. \A p \in Proxies : Updates(e, p) => ~Updates(e, Pipeline)
  BY Apart DEF Updates
<1>5. ASSUME Updates(e, Pipeline)
      PROVE  Reached(target, a.alive, found) = target
  <2>1. \A p \in target : found[p] # NoState
    BY <1>1, <1>5 DEF CanRun
  <2> QED
    BY <2>1 DEF Reached
<1>6. /\ b.alive = IF Updates(e, Pipeline) THEN a.alive \cup target ELSE a.alive
      /\ b.state[Pipeline] = IF Updates(e, Pipeline) THEN target ELSE a.state[Pipeline]
  BY <1>5 DEF Processed
<1>7. \A p \in Proxies :
        b.state[p] = IF Updates(e, p) /\ p \in a.alive THEN target
                     ELSE IF Updates(e, Pipeline) /\ p \in b.alive \ a.alive
                     THEN found[p]
                     ELSE a.state[p]
  BY DEF Processed
<1>8. \* a proxy is there when it is updated
      ASSUME NEW p \in Proxies, NEW i \in 1 .. n, Upd(i, p) PROVE p \in a.alive
  <2>1. \/ p \in at.alive
        \/ \E j \in 1 .. N : j < i /\ Upd(j, Pipeline) /\ p \in T(j)
    BY <1>1, <1>8 DEF CanRun
  <2>2. ASSUME NEW j \in 1 .. N, j < i, Upd(j, Pipeline), p \in T(j)
        PROVE  p \in a.alive
    <3>1. j \in 1 .. n - 1
      BY <1>1, <2>2
    <3> QED
      BY <1>2, <2>2, <3>1
  <2> QED
    BY <1>2, <2>1, <2>2
<1> HIDE DEF e, target
<1>9. /\ at.alive \subseteq b.alive
      /\ \A i \in 1 .. n : Upd(i, Pipeline) => T(i) \subseteq b.alive
  <2>1. at.alive \subseteq b.alive /\ a.alive \subseteq b.alive
    BY <1>2, <1>6
  <2>2. Upd(n, Pipeline) => T(n) \subseteq b.alive
    BY <1>6 DEF e, target
  <2> QED
    BY <1>1, <1>2, <2>1, <2>2
<1>10. /\ \A i : Latest(es, order, Pipeline, n, i) => b.state[Pipeline] = T(i)
       /\ Never(es, order, Pipeline, n) => b.state[Pipeline] = at.state[Pipeline]
  <2>1. CASE Updates(e, Pipeline)
    <3>1. /\ \A i : Latest(es, order, Pipeline, n, i) => i = n
          /\ ~Never(es, order, Pipeline, n)
      BY <1>1, <2>1, LatestOn DEF e
    <3>2. b.state[Pipeline] = T(n)
      BY <1>6, <2>1 DEF e, target
    <3> QED
      BY <3>1, <3>2
  <2>2. CASE ~Updates(e, Pipeline)
    <3>1. /\ \A i : Latest(es, order, Pipeline, n, i) =>
                      Latest(es, order, Pipeline, n - 1, i)
          /\ Never(es, order, Pipeline, n) => Never(es, order, Pipeline, n - 1)
      BY <1>1, <2>2, LatestOn DEF e
    <3>2. b.state[Pipeline] = a.state[Pipeline]
      BY <1>6, <2>2
    <3> QED
      BY <3>1, <3>2 DEF Sofar
  <2> QED
    BY <2>1, <2>2
<1>11. ASSUME NEW p \in Proxies
       PROVE  /\ \A i : Latest(es, order, p, n, i) => b.state[p] = T(i)
              /\ Never(es, order, p, n) =>
                   /\ p \in at.alive => b.state[p] = at.state[p]
                   /\ p \in b.alive \ at.alive => b.state[p] = found[p]
  <2>1. CASE Updates(e, p)
    <3>1. /\ \A i : Latest(es, order, p, n, i) => i = n
          /\ ~Never(es, order, p, n)
      BY <1>1, <2>1, LatestOn DEF e
    <3>2. p \in a.alive
      BY <1>1, <1>8, <2>1 DEF e
    <3>3. b.state[p] = T(n)
      BY <1>7, <2>1, <3>2 DEF e, target
    <3> QED
      BY <3>1, <3>3
  <2>2. CASE ~Updates(e, p)
    <3>1. /\ \A i : Latest(es, order, p, n, i) => Latest(es, order, p, n - 1, i)
          /\ Never(es, order, p, n) => Never(es, order, p, n - 1)
      BY <1>1, <2>2, LatestOn DEF e
    <3>2. b.state[p] = IF p \in b.alive \ a.alive THEN found[p] ELSE a.state[p]
      BY <1>6, <1>7, <2>2
    <3>3. ASSUME NEW i, Latest(es, order, p, n, i) PROVE b.state[p] = T(i)
      <4>1. i \in 1 .. n /\ Upd(i, p)
        BY <3>3 DEF Latest
      <4>2. p \in a.alive
        BY <1>8, <4>1
      <4>3. a.state[p] = T(i)
        BY <3>1, <3>3 DEF Sofar
      <4> QED
        BY <3>2, <4>2, <4>3
    <3>4. ASSUME Never(es, order, p, n)
          PROVE  /\ p \in at.alive => b.state[p] = at.state[p]
                 /\ p \in b.alive \ at.alive => b.state[p] = found[p]
      <4>1. /\ p \in at.alive => a.state[p] = at.state[p]
            /\ p \in a.alive \ at.alive => a.state[p] = found[p]
        BY <3>1, <3>4 DEF Sofar
      <4> QED
        BY <1>2, <3>2, <4>1
    <3> QED
      BY <3>3, <3>4
  <2> QED
    BY <2>1, <2>2
<1> QED
  BY <1>9, <1>10, <1>11 DEF Sofar

\* What all elements have done, if none failed.
LEMMA RunReaches ==
  ASSUME NEW at \in Ats, NEW es \in Seq(Elements), NEW order, OrderOf(order, es),
         NEW direction, NEW found \in [Proxies -> States],
         CanRun(at.alive, es, order, direction, found)
  PROVE  LET a == Run(at, es, order, direction, found, TRUE)
         IN  a.failed = 0 => Sofar(at, es, order, direction, found, Len(order), a)
<1> DEFINE Good(n, a) == a.failed = 0 => Sofar(at, es, order, direction, found, n, a)
           I == {x \in Nat \X Ats : Good(x[1], x[2])}
           N == Len(order)
<1>1. N \in Nat /\ \A n \in 1 .. N : order[n] \in 1 .. Len(es)
  BY DEF OrderOf
<1>2. <<0, at>> \in I
  <2>1. Sofar(at, es, order, direction, found, 0, at)
    BY DEF Sofar, Latest, Never
  <2> QED
    BY <2>1
<1>3. ASSUME NEW n \in 1 .. N, NEW a, <<n - 1, a>> \in I
      PROVE  <<n, OneMore(a, es, order, n, direction, found, TRUE)>> \in I
  <2> DEFINE k == order[n]  e == es[k]
             b == OneMore(a, es, order, n, direction, found, TRUE)
  <2>1. a \in Ats /\ Good(n - 1, a)
    BY <1>3
  <2>2. n \in Nat /\ k \in Nat /\ k \in 1 .. Len(es) /\ e \in Elements
    BY <1>1
  <2>3. CASE a.failed # 0
    <3>1. b = a
      BY <2>3 DEF OneMore
    <3> QED
      BY <2>1, <2>2, <2>3, <3>1
  <2>4. CASE a.failed = 0
    <3>1. b = Process(a, e, k, direction, found)
      BY <2>4 DEF OneMore
    <3> HIDE DEF b, e, k
    <3>2. b \in Ats /\ Processed(a, e, direction, found, b)
      BY <2>1, <2>2, <3>1, Processing
    <3>3. Sofar(at, es, order, direction, found, n, b)
      BY <2>1, <2>4, <3>2, SofarOn DEF e, k
    <3>4. <<n, b>> \in I
      BY <2>2, <3>2, <3>3
    <3> QED
      BY <3>4 DEF b
  <2> QED
    BY <2>3, <2>4
<1> HIDE DEF I
<1>4. <<N, Run(at, es, order, direction, found, TRUE)>> \in I
  BY <1>1, <1>2, <1>3, RunInduction
<1> QED
  BY <1>4 DEF I

\* A set of numbers up to n, if it is not empty, has a last one.
LEMMA HasLast ==
  ASSUME NEW n \in Nat, NEW S \in SUBSET (1 .. n), S # {}
  PROVE  \E i \in S : \A j \in S : j <= i
<1> SUFFICES ASSUME \A i \in S : \E j \in S : ~(j <= i) PROVE FALSE
  OBVIOUS
<1> DEFINE Above(k) == \E i \in S : i >= k
           U == {k \in 0 .. n : ~Above(k)}
<1>1. 0 \notin U
  <2>1. PICK i : i \in S
    OBVIOUS
  <2>2. i \in S /\ i >= 0
    BY <2>1
  <2>3. Above(0)
    BY <2>2
  <2> QED
    BY <2>3
<1>2. ASSUME NEW k \in 1 .. n, k \in U PROVE k - 1 \in U
  <2>1. \A i \in S : i < k
    BY <1>2
  <2>2. k - 1 \in 0 .. n
    OBVIOUS
  <2>3. ASSUME Above(k - 1) PROVE FALSE
    <3>1. PICK i \in S : i >= k - 1
      BY <2>3
    <3>2. PICK j \in S : ~(j <= i)
      OBVIOUS
    <3>3. j < k
      BY <2>1
    <3> QED
      BY <3>1, <3>2, <3>3
  <2> QED
    BY <2>2, <2>3
<1>3. U \in SUBSET (0 .. n)
  OBVIOUS
<1> HIDE DEF U
<1>4. U = {}
  BY <1>1, <1>2, <1>3, NoLeastExample
<1>5. Above(n)
  BY <1>4 DEF U
<1>6. PICK i \in S : i >= n
  BY <1>5
<1>7. PICK j \in S : ~(j <= i)
  OBVIOUS
<1> QED
  BY <1>6, <1>7

\* What the proxies would be created with.
FoundIn(es, side) == [p \in Proxies |-> Found(es, side, p)]

\* It is what the set updates the proxy last to, else what the session has.
LEMMA FoundIs ==
  ASSUME cache \in World, NEW es \in Seq(Elements), NEW side \in {"undo", "redo"}
  PROVE  /\ FoundIn(es, side) \in [Proxies -> States]
         /\ \A p \in Proxies : Own(es, p) = {} => FoundIn(es, side)[p] = cache[p]
         /\ \A p \in Proxies : Own(es, p) # {} => FoundIn(es, side)[p] \in Values
<1> DEFINE F(p) == Found(es, side, p)
<1>1. ASSUME NEW p \in Proxies
      PROVE  /\ Own(es, p) = {} => F(p) = cache[p]
             /\ Own(es, p) # {} => F(p) \in Values
  <2>1. Own(es, p) = {i \in DOMAIN es : es[i].kind = "update" /\ es[i].id = p}
    BY DEF Own, Updates
  <2>2. CASE Own(es, p) = {}
    BY <2>1, <2>2 DEF Found
  <2>3. CASE Own(es, p) # {}
    <3> DEFINE own == Own(es, p)
               last == CHOOSE i \in own : \A j \in own : j <= i
    <3>1. own \in SUBSET (1 .. Len(es)) /\ Len(es) \in Nat
      BY DEF Own
    <3>2. \E i \in own : \A j \in own : j <= i
      BY <2>3, <3>1, HasLast
    <3>3. last \in own
      BY <3>2
    <3>4. last \in 1 .. Len(es) /\ Updates(es[last], p)
      BY <3>3 DEF Own
    <3>5. F(p) = IF side = "undo" THEN es[last].before ELSE es[last].after
      BY <2>1, <2>3 DEF Found
    <3>6. es[last] \in Elements
      BY <3>4
    <3>7. F(p) = Target(es[last], side)
      BY <3>5 DEF Target
    <3> HIDE DEF last, F
    <3>8. Target(es[last], side) \in Values
      BY <3>4, <3>6, ElementIs
    <3> QED
      BY <2>3, <3>7, <3>8
  <2> QED
    BY <2>2, <2>3
<1>2. \A p \in Proxies : FoundIn(es, side)[p] = F(p)
  BY DEF FoundIn
<1>3. \A p \in Proxies : cache[p] \in States
  BY WorldIs
<1> HIDE DEF F
<1>4. \A p \in Proxies : F(p) \in States
  BY <1>1, <1>3, Apart
<1>5. FoundIn(es, side) \in [Proxies -> States]
  BY <1>4 DEF FoundIn, F
<1> QED
  BY <1>1, <1>2, <1>5

\* The states of the objects and proxies, and the cache, have their types.
StatesTyped ==
  /\ state \in World /\ Sound(state)
  /\ cache \in World
  /\ \A p \in Registered : cache[p] # NoState
  /\ modified \in Modified

\* The processing starts where the application is.
LEMMA StartIs ==
  ASSUME StatesTyped
  PROVE  /\ Start \in Ats
         /\ Start.state = state /\ Start.alive = Registered /\ Start.failed = 0
<1>1. state[Pipeline] \in SUBSET Proxies
  BY WorldIs DEF StatesTyped
<1>2. Start \in [state : World, modified : Modified, alive : SUBSET Proxies,
                 failed : Nat]
  BY <1>1 DEF StatesTyped, Start, Registered
<1>3. Start.state = state /\ Start.alive = Registered /\ Start.failed = 0
  BY DEF Start
<1>4. \A p \in Registered : state[p] # NoState
  BY <1>1 DEF StatesTyped, Sound, Registered
<1> QED
  BY <1>2, <1>3, <1>4 DEF Ats, Registered

\* Both orders are orders of the elements, or of those before one of them.
LEMMA Orders ==
  ASSUME NEW es \in Seq(Elements), NEW n \in 0 .. Len(es)
  PROVE  /\ OrderOf(Ascending(n), es) /\ OrderOf(Descending(n), es)
         /\ Len(Ascending(n)) = n /\ Len(Descending(n)) = n
         /\ \A i \in 1 .. n : Ascending(n)[i] = i /\ Descending(n)[i] = n + 1 - i
<1>1. n \in Nat /\ Len(es) \in Nat /\ \A i \in 1 .. n : i \in 1 .. Len(es)
  OBVIOUS
<1>2. Len(Ascending(n)) = n /\ \A i \in 1 .. n : Ascending(n)[i] = i
  BY <1>1 DEF Ascending
<1>3. Len(Descending(n)) = n /\ \A i \in 1 .. n : Descending(n)[i] = n + 1 - i
  BY <1>1 DEF Descending
<1>4. \A i \in 1 .. n : n + 1 - i \in 1 .. Len(es)
  BY <1>1
<1> QED
  BY <1>1, <1>2, <1>3, <1>4 DEF OrderOf

\* Elements attempted in an order and, if one fails, others rolled back.
LEMMA Attempting ==
  ASSUME StatesTyped, NEW es \in Seq(Elements), NEW order, OrderOf(order, es),
         NEW direction, NEW other, NEW found \in [Proxies -> States], NEW back,
         LET at == Attempt(Start, es, order, direction, found)
         IN  at.failed # 0 => OrderOf(back, es),
         NEW a,
         LET at == Attempt(Start, es, order, direction, found)
         IN  a = IF at.failed = 0 THEN at ELSE Insist(at, es, back, other, found)
  PROVE  /\ a \in Ats /\ Unaffected(Start, es, a)
         /\ a.failed = 0 /\ CanRun(Registered, es, order, direction, found) =>
              Sofar(Start, es, order, direction, found, Len(order), a)
<1> DEFINE at == Attempt(Start, es, order, direction, found)
<1>1. at = Run(Start, es, order, direction, found, TRUE)
  BY DEF Attempt
<1>2. at \in Ats /\ Unaffected(Start, es, at)
  <2> HIDE DEF at
  <2> QED
    BY <1>1, StartIs, RunKeeps
<1>3. at.failed = 0 /\ CanRun(Registered, es, order, direction, found) =>
        Sofar(Start, es, order, direction, found, Len(order), at)
  <2> HIDE DEF at
  <2> QED
    BY <1>1, StartIs, RunReaches
<1>4. CASE at.failed = 0
  BY <1>2, <1>3, <1>4
<1>5. CASE at.failed # 0
  <2> DEFINE b == Run(at, es, back, other, found, FALSE)
  <2>1. a = [b EXCEPT !.failed = at.failed]
    BY <1>5 DEF Insist
  <2> HIDE DEF at
  <2>2. OrderOf(back, es)
    BY <1>5 DEF at
  <2>3. b \in Ats /\ Unaffected(at, es, b)
    BY <1>2, <2>2, RunKeeps
  <2> HIDE DEF b
  <2>4. /\ b \in [state : World, modified : Modified, alive : SUBSET Proxies,
                  failed : Nat]
        /\ at.failed \in Nat
    BY <1>2, <2>3 DEF Ats
  <2>5. /\ a \in [state : World, modified : Modified, alive : SUBSET Proxies,
                  failed : Nat]
        /\ a.state = b.state /\ a.alive = b.alive /\ a.failed = at.failed
    BY <2>1, <2>4
  <2>6. a \in Ats
    BY <2>3, <2>5 DEF Ats
  <2>7. Unaffected(Start, es, a)
    BY <1>2, <2>3, <2>5 DEF Unaffected
  <2> QED
    BY <1>5, <2>5, <2>6, <2>7
<1> QED
  BY <1>4, <1>5

\* The elements of a set undone, the last one first.
LEMMA Undoing ==
  ASSUME StatesTyped, NEW es \in Seq(Elements)
  PROVE  LET a == UndoElements(es)
             order == Descending(Len(es))
             found == FoundIn(es, "undo")
         IN  /\ a \in Ats /\ Unaffected(Start, es, a)
             /\ a.failed = 0 /\ CanRun(Registered, es, order, "undo", found) =>
                  Sofar(Start, es, order, "undo", found, Len(es), a)
<1> DEFINE found == FoundIn(es, "undo")
           order == Descending(Len(es))
           at == Attempt(Start, es, order, "undo", found)
           back == Ascending(at.failed - 1)
           a == UndoElements(es)
<1>1. a = IF at.failed = 0 THEN at ELSE Insist(at, es, back, "redo", found)
  BY DEF UndoElements, FoundIn
<1>2. found \in [Proxies -> States]
  BY FoundIs DEF StatesTyped
<1>3. Len(es) \in 0 .. Len(es)
  OBVIOUS
<1>4. OrderOf(order, es) /\ Len(order) = Len(es)
  BY <1>3, Orders
<1>5. at.failed \in {0} \cup 1 .. Len(es)
  <2>1. at = Run(Start, es, order, "undo", found, TRUE)
    BY DEF Attempt
  <2> HIDE DEF at, order, found
  <2> QED
    BY <1>2, <1>4, <2>1, StartIs, RunKeeps
<1>6. at.failed # 0 => OrderOf(back, es)
  <2> HIDE DEF at
  <2>1. at.failed # 0 => at.failed - 1 \in 0 .. Len(es)
    BY <1>5
  <2> QED
    BY <2>1, Orders
<1> HIDE DEF back, order, found, a
<1>7. /\ a \in Ats /\ Unaffected(Start, es, a)
      /\ a.failed = 0 /\ CanRun(Registered, es, order, "undo", found) =>
           Sofar(Start, es, order, "undo", found, Len(order), a)
  BY <1>1, <1>2, <1>4, <1>6, Attempting
<1> QED
  BY <1>4, <1>7 DEF a, order, found

\* The elements of a set redone, the first one first.
LEMMA Redoing ==
  ASSUME StatesTyped, NEW es \in Seq(Elements)
  PROVE  LET a == RedoElements(es)
             order == Ascending(Len(es))
             found == FoundIn(es, "redo")
         IN  /\ a \in Ats /\ Unaffected(Start, es, a)
             /\ a.failed = 0 /\ CanRun(Registered, es, order, "redo", found) =>
                  Sofar(Start, es, order, "redo", found, Len(es), a)
<1> DEFINE found == FoundIn(es, "redo")
           order == Ascending(Len(es))
           at == Attempt(Start, es, order, "redo", found)
           back == Descending(at.failed - 1)
           a == RedoElements(es)
<1>1. a = IF at.failed = 0 THEN at ELSE Insist(at, es, back, "undo", found)
  BY DEF RedoElements, FoundIn
<1>2. found \in [Proxies -> States]
  BY FoundIs DEF StatesTyped
<1>3. Len(es) \in 0 .. Len(es)
  OBVIOUS
<1>4. OrderOf(order, es) /\ Len(order) = Len(es)
  BY <1>3, Orders
<1>5. at.failed \in {0} \cup 1 .. Len(es)
  <2>1. at = Run(Start, es, order, "redo", found, TRUE)
    BY DEF Attempt
  <2> HIDE DEF at, order, found
  <2> QED
    BY <1>2, <1>4, <2>1, StartIs, RunKeeps
<1>6. at.failed # 0 => OrderOf(back, es)
  <2> HIDE DEF at
  <2>1. at.failed # 0 => at.failed - 1 \in 0 .. Len(es)
    BY <1>5
  <2> QED
    BY <2>1, Orders
<1> HIDE DEF back, order, found, a
<1>7. /\ a \in Ats /\ Unaffected(Start, es, a)
      /\ a.failed = 0 /\ CanRun(Registered, es, order, "redo", found) =>
           Sofar(Start, es, order, "redo", found, Len(order), a)
  BY <1>1, <1>2, <1>4, <1>6, Attempting
<1> QED
  BY <1>4, <1>7 DEF a, order, found

\* What the processing of a set leaves behind.
LEMMA Finishing ==
  ASSUME StatesTyped, NEW a \in Ats, Finish(a)
  PROVE  /\ StatesTyped'
         /\ Registered' = a.state[Pipeline]
         /\ \A p \in Proxies :
              state'[p] = IF p \in Registered' THEN a.state[p] ELSE NoState
         /\ cache'[Pipeline] = IF Registered' # Registered THEN Registered'
                               ELSE cache[Pipeline]
         /\ \A p \in Proxies :
              cache'[p] = IF p \in Registered' /\ state'[p] # state[p]
                          THEN state'[p] ELSE cache[p]
<1> DEFINE R == a.state[Pipeline]
<1>1. /\ a.state \in World /\ a.modified \in Modified /\ a.alive \in SUBSET Proxies
      /\ R \subseteq a.alive
      /\ \A p \in a.alive : a.state[p] # NoState
  BY DEF Ats
<1>2. /\ R \in SUBSET Proxies
      /\ \A p \in Proxies : a.state[p] \in States
  BY <1>1, WorldIs
<1>3. /\ state' = [o \in Objects |-> IF o \in R \cup {Pipeline} THEN a.state[o]
                                     ELSE NoState]
      /\ modified' = [p \in Proxies |-> IF p \in R THEN a.modified[p]
                                        ELSE "UNMODIFIED"]
      /\ cache' = [o \in Objects |->
                     IF o \in R \cup {Pipeline} /\ state'[o] # state[o]
                     THEN state'[o] ELSE cache[o]]
  BY DEF Finish
<1> HIDE DEF R
<1>4. /\ state'[Pipeline] = R
      /\ \A p \in Proxies : state'[p] = IF p \in R THEN a.state[p] ELSE NoState
  BY <1>3, Apart DEF R
<1>5. Registered' = R
  BY <1>4 DEF Registered
<1>6. /\ cache'[Pipeline] = IF R # state[Pipeline] THEN R ELSE cache[Pipeline]
      /\ \A p \in Proxies :
           cache'[p] = IF p \in R /\ state'[p] # state[p] THEN state'[p] ELSE cache[p]
  BY <1>3, <1>4, Apart
<1>7. state' \in World
  <2>1. state' = [o \in Objects |-> state'[o]]
    BY <1>3
  <2>2. \A p \in Proxies : state'[p] \in States
    BY <1>2, <1>4, Apart
  <2> QED
    BY <1>2, <1>4, <2>1, <2>2, WorldIs
<1>8. Sound(state)'
  BY <1>1, <1>2, <1>4 DEF Sound
<1>9. modified' \in Modified
  BY <1>1, <1>2, <1>3 DEF Modified
<1>10. cache' \in World
  <2>1. cache' = [o \in Objects |-> cache'[o]]
    BY <1>3
  <2>2. cache \in World
    BY DEF StatesTyped
  <2>3. /\ cache[Pipeline] \in SUBSET Proxies
        /\ \A p \in Proxies : cache[p] \in States
    BY <2>2, WorldIs
  <2>4. \A p \in Proxies : cache'[p] \in States
    BY <1>2, <1>4, <1>6, <2>3
  <2>5. cache'[Pipeline] \in SUBSET Proxies
    BY <1>2, <1>6, <2>3
  <2> QED
    BY <2>1, <2>4, <2>5, WorldIs
<1>11. ASSUME NEW p \in R PROVE cache'[p] # NoState
  <2>1. p \in Proxies /\ state'[p] # NoState
    BY <1>1, <1>2, <1>4
  <2>2. CASE state'[p] # state[p]
    BY <1>6, <2>1, <2>2
  <2>3. CASE state'[p] = state[p]
    <3>1. p \in Registered
      BY <2>1, <2>3 DEF StatesTyped, Sound, Registered
    <3> QED
      BY <1>6, <2>1, <2>3, <3>1 DEF StatesTyped
  <2> QED
    BY <2>2, <2>3
<1>12. StatesTyped'
  BY <1>5, <1>7, <1>8, <1>9, <1>10, <1>11 DEF StatesTyped
<1> QED
  BY <1>4, <1>5, <1>6, <1>12 DEF Registered, R

\* Undo and redo process a set and leave it behind.
LEMMA UndoIs ==
  ASSUME StatesTyped, undoStack \in Seq(Sets), Undo
  PROVE  LET set == Last(undoStack)
             a == UndoElements(set.elements)
         IN  /\ set \in Sets /\ set.elements \in Seq(Elements)
             /\ a \in Ats /\ Unaffected(Start, set.elements, a) /\ Finish(a)
             /\ Disturb(set.elements, a)
             /\ a.failed = 0 => MoveToRedo
             /\ a.failed # 0 => StacksStay
             /\ UNCHANGED <<multiClients, undoSet, builderVars, guiVars, begun, changes>>
<1> DEFINE set == Last(undoStack)
           a == UndoElements(set.elements)
<1>1. undoStack # <<>>
  BY DEF Undo
<1>2. set \in Sets
  BY <1>1, FrontAndLast
<1>3. /\ Finish(a) /\ Disturb(set.elements, a)
      /\ IF a.failed = 0
         THEN /\ undoStack' = Front(undoStack)
              /\ redoStack' = Append(redoStack, set)
         ELSE UNCHANGED <<undoStack, redoStack>>
      /\ UNCHANGED <<multiClients, undoSet, builderVars, guiVars, begun, changes>>
  BY DEF Undo
<1>4. set.elements \in Seq(Elements)
  BY <1>2 DEF Sets
<1>5. a \in Ats /\ Unaffected(Start, set.elements, a)
  BY <1>4, Undoing
<1> QED
  BY <1>1, <1>2, <1>3, <1>4, <1>5 DEF MoveToRedo, StacksStay

\* The same for a redo.
LEMMA RedoIs ==
  ASSUME StatesTyped, redoStack \in Seq(Sets), Redo
  PROVE  LET set == Last(redoStack)
             a == RedoElements(set.elements)
         IN  /\ set \in Sets /\ set.elements \in Seq(Elements)
             /\ a \in Ats /\ Unaffected(Start, set.elements, a) /\ Finish(a)
             /\ Disturb(set.elements, a)
             /\ a.failed = 0 => MoveToUndo
             /\ a.failed # 0 => StacksStay
             /\ UNCHANGED <<multiClients, undoSet, builderVars, guiVars, begun, changes>>
<1> DEFINE set == Last(redoStack)
           a == RedoElements(set.elements)
<1>1. redoStack # <<>>
  BY DEF Redo
<1>2. set \in Sets
  BY <1>1, FrontAndLast
<1>3. /\ Finish(a) /\ Disturb(set.elements, a)
      /\ IF a.failed = 0
         THEN /\ redoStack' = Front(redoStack)
              /\ undoStack' = Append(undoStack, set)
         ELSE UNCHANGED <<undoStack, redoStack>>
      /\ UNCHANGED <<multiClients, undoSet, builderVars, guiVars, begun, changes>>
  BY DEF Redo
<1>4. set.elements \in Seq(Elements)
  BY <1>2 DEF Sets
<1>5. a \in Ats /\ Unaffected(Start, set.elements, a)
  BY <1>4, Redoing
<1> QED
  BY <1>1, <1>2, <1>3, <1>4, <1>5 DEF MoveToUndo, StacksStay

-----------------------------------------------------------------------------
(* Types are kept                                                          *)

StatesStay == UNCHANGED <<state, modified, cache>>

\* The states of objects change with the objects, and in an undo or redo.
LEMMA StateSteps ==
  ASSUME [Next]_vars
  PROVE  \/ \E p \in Proxies, v \in Values : ChangeProxy(p, v) \/ CreateProxy(p, v)
         \/ \E p \in Proxies : UnRegisterProxy(p) \/ Apply(p) \/ DeletedElsewhere(p)
         \/ Undo \/ Redo
         \/ StatesStay
<1>1. CASE BeginUndoSet \/ EndUndoSet
  BY <1>1 DEF BeginUndoSet, EndUndoSet, StatesStay
<1>2. CASE BeginNonUndoable \/ EndNonUndoable \/ Clear
  BY <1>2 DEF BeginNonUndoable, EndNonUndoable, Clear, StatesStay
<1>3. CASE UNCHANGED vars
  BY <1>3 DEF vars, StatesStay
<1> QED
  BY <1>1, <1>2, <1>3 DEF Next

\* A proxy that is registered has another state.
LEMMA ChangeTyped ==
  ASSUME StatesTyped, NEW p \in Proxies, NEW v \in Values, ChangeProxy(p, v)
  PROVE  /\ StatesTyped'
         /\ p \in Registered /\ state[p] # NoState /\ cache[p] \in Values
         /\ Registered' = Registered
         /\ state'[p] = v /\ cache'[p] = v
         /\ \A o \in Objects : o # p => state'[o] = state[o] /\ cache'[o] = cache[o]
<1>1. /\ p \in Registered /\ state' = [state EXCEPT ![p] = v]
      /\ cache' = [cache EXCEPT ![p] = v] /\ modified' = modified
  BY DEF ChangeProxy
<1>2. v \in States /\ v # NoState
  BY Apart
<1>3. /\ state' \in World /\ state'[Pipeline] = state[Pipeline] /\ state'[p] = v
      /\ \A q \in Proxies : q # p => state'[q] = state[q]
  <2>1. state \in World /\ state' = [state EXCEPT ![p] = v] /\ v \in States
    BY <1>1, <1>2 DEF StatesTyped
  <2>2. OneChanged(state, p, v, state')
    BY ONLY <2>1, p \in Proxies, ChangingOne
  <2> QED
    BY <2>2 DEF OneChanged
<1>4. /\ cache' \in World /\ cache'[Pipeline] = cache[Pipeline] /\ cache'[p] = v
      /\ \A q \in Proxies : q # p => cache'[q] = cache[q]
  <2>1. cache \in World /\ cache' = [cache EXCEPT ![p] = v] /\ v \in States
    BY <1>1, <1>2 DEF StatesTyped
  <2>2. OneChanged(cache, p, v, cache')
    BY ONLY <2>1, p \in Proxies, ChangingOne
  <2> QED
    BY <2>2 DEF OneChanged
<1>5. Registered \in SUBSET Proxies /\ cache[p] \in States
  BY WorldIs DEF StatesTyped, Registered
<1>6. Registered' = Registered
  BY <1>3 DEF Registered
<1>7. state[p] # NoState /\ cache[p] # NoState
  BY <1>1 DEF StatesTyped, Sound, Registered
<1>8. cache[p] \in Values
  BY <1>5, <1>7 DEF States
<1>9. Sound(state)'
  BY <1>1, <1>2, <1>3 DEF StatesTyped, Sound, Registered
<1>10. \A q \in Registered : cache'[q] # NoState
  BY <1>2, <1>4, <1>5 DEF StatesTyped
<1>11. StatesTyped'
  BY <1>1, <1>3, <1>4, <1>6, <1>9, <1>10 DEF StatesTyped
<1> QED
  BY <1>1, <1>3, <1>4, <1>6, <1>7, <1>8, <1>11 DEF Objects

\* A world in which a proxy and the pipeline have other states.
BothChanged(w, R, p, v, u) ==
  /\ u \in World /\ u[Pipeline] = R /\ u[p] = v
  /\ \A q \in Proxies : q # p => u[q] = w[q]

\* The result of the assignments is one.
LEMMA ChangingBoth ==
  ASSUME NEW w, w \in World, NEW R, R \in SUBSET Proxies, NEW p, p \in Proxies,
         NEW v, v \in States, NEW u, u = [w EXCEPT ![p] = v, ![Pipeline] = R]
  PROVE  BothChanged(w, R, p, v, u)
<1>1. w = [o \in Objects |-> w[o]] /\ \A q \in Proxies : w[q] \in States
  BY WorldIs
<1>2. u = [o \in Objects |-> IF o = Pipeline THEN R ELSE IF o = p THEN v ELSE w[o]]
  BY <1>1, Apart
<1>3. u = [o \in Objects |-> u[o]]
  BY <1>2
<1>4. /\ u[Pipeline] = R /\ u[p] = v
      /\ \A q \in Proxies : q # p => u[q] = w[q]
  BY <1>2, Apart
<1>5. \A q \in Proxies : u[q] \in States
  BY <1>1, <1>4
<1>6. u \in World
  BY <1>3, <1>4, <1>5, WorldIs
<1> QED
  BY <1>4, <1>6 DEF BothChanged

\* A proxy with a new id is registered.
LEMMA CreateTyped ==
  ASSUME StatesTyped, NEW p \in Proxies, NEW v \in Values, CreateProxy(p, v)
  PROVE  /\ StatesTyped'
         /\ p \notin Registered /\ cache[p] = NoState
         /\ Registered' = Registered \cup {p} /\ state'[p] = v
         /\ cache'[Pipeline] = Registered' /\ cache'[p] = v
         /\ \A q \in Proxies : q # p => state'[q] = state[q] /\ cache'[q] = cache[q]
<1> DEFINE R == Registered \cup {p}
<1>1. /\ cache[p] = NoState
      /\ state' = [state EXCEPT ![p] = v, ![Pipeline] = R]
      /\ cache' = [cache EXCEPT ![p] = v, ![Pipeline] = R]
      /\ modified' = [modified EXCEPT ![p] = "UNINITIALIZED"]
  BY DEF CreateProxy
<1>2. v \in States /\ v # NoState
  BY Apart
<1>3. Registered \in SUBSET Proxies
  BY WorldIs DEF StatesTyped, Registered
<1>4. R \in SUBSET Proxies
  BY <1>3
<1> HIDE DEF R
<1>5. /\ state' \in World /\ state'[Pipeline] = R /\ state'[p] = v
      /\ \A q \in Proxies : q # p => state'[q] = state[q]
  <2>1. /\ state \in World /\ v \in States
        /\ state' = [state EXCEPT ![p] = v, ![Pipeline] = R]
    BY <1>1, <1>2 DEF StatesTyped
  <2>2. BothChanged(state, R, p, v, state')
    BY ONLY <1>4, <2>1, p \in Proxies, ChangingBoth
  <2> QED
    BY <2>2 DEF BothChanged
<1>6. /\ cache' \in World /\ cache'[Pipeline] = R /\ cache'[p] = v
      /\ \A q \in Proxies : q # p => cache'[q] = cache[q]
  <2>1. /\ cache \in World /\ v \in States
        /\ cache' = [cache EXCEPT ![p] = v, ![Pipeline] = R]
    BY <1>1, <1>2 DEF StatesTyped
  <2>2. BothChanged(cache, R, p, v, cache')
    BY ONLY <1>4, <2>1, p \in Proxies, ChangingBoth
  <2> QED
    BY <2>2 DEF BothChanged
<1>7. Registered' = R
  BY <1>5 DEF Registered
<1>8. p \notin Registered
  BY <1>1 DEF StatesTyped
<1>9. Sound(state)'
  <2>1. Sound(state)
    BY DEF StatesTyped
  <2> QED
    BY <1>2, <1>5, <2>1 DEF Sound, R, Registered
<1>10. \A q \in R : cache'[q] # NoState
  BY <1>2, <1>3, <1>6 DEF StatesTyped, R
<1>11. modified' \in Modified
  BY <1>1 DEF StatesTyped, Modified
<1>12. StatesTyped'
  BY <1>5, <1>6, <1>7, <1>9, <1>10, <1>11 DEF StatesTyped
<1> QED
  BY <1>1, <1>5, <1>6, <1>7, <1>8, <1>12 DEF R

\* A proxy is unregistered, here or elsewhere; then no state is cached.
LEMMA DeleteTyped ==
  ASSUME StatesTyped, NEW p \in Proxies, UnRegisterProxy(p) \/ DeletedElsewhere(p)
  PROVE  /\ StatesTyped'
         /\ p \in Registered
         /\ Registered' = Registered \ {p}
         /\ UnRegisterProxy(p) => cache'[Pipeline] = Registered'
         /\ \A q \in Proxies : q # p => state'[q] = state[q]
         /\ \A q \in Proxies : cache'[q] = cache[q]
<1> DEFINE R == Registered \ {p}
<1>1. /\ p \in Registered
      /\ state' = [state EXCEPT ![p] = NoState, ![Pipeline] = R]
      /\ \/ cache' = cache /\ ~UnRegisterProxy(p)
         \/ cache' = [cache EXCEPT ![Pipeline] = R]
      /\ modified' = [modified EXCEPT ![p] = "UNMODIFIED"]
  <2>1. CASE UnRegisterProxy(p)
    BY <2>1 DEF UnRegisterProxy
  <2>2. CASE DeletedElsewhere(p) /\ ~UnRegisterProxy(p)
    <3>1. state \in World /\ state = [o \in Objects |-> state[o]]
      BY WorldIs DEF StatesTyped
    <3>2. state' = [state EXCEPT ![p] = NoState, ![Pipeline] = state[Pipeline] \ {p}]
      BY <2>2, <3>1, Apart DEF DeletedElsewhere
    <3> QED
      BY <2>2, <3>2 DEF DeletedElsewhere, Registered
  <2> QED
    BY <2>1, <2>2
<1>2. Registered \in SUBSET Proxies
  BY WorldIs DEF StatesTyped, Registered
<1>3. R \in SUBSET Proxies
  BY <1>2
<1> HIDE DEF R
<1>4. /\ state' \in World /\ state'[Pipeline] = R /\ state'[p] = NoState
      /\ \A q \in Proxies : q # p => state'[q] = state[q]
  <2>1. /\ state \in World /\ NoState \in States
        /\ state' = [state EXCEPT ![p] = NoState, ![Pipeline] = R]
    BY <1>1, Apart DEF StatesTyped
  <2>2. BothChanged(state, R, p, NoState, state')
    BY ONLY <1>3, <2>1, p \in Proxies, ChangingBoth
  <2> QED
    BY <2>2 DEF BothChanged
<1>5. /\ cache' \in World
      /\ UnRegisterProxy(p) => cache'[Pipeline] = R
      /\ \A q \in Proxies : cache'[q] = cache[q]
  <2>1. CASE cache' = cache /\ ~UnRegisterProxy(p)
    BY <2>1 DEF StatesTyped
  <2>2. CASE cache' = [cache EXCEPT ![Pipeline] = R]
    <3>1. cache = [o \in Objects |-> cache[o]] /\ \A q \in Proxies : cache[q] \in States
      BY WorldIs DEF StatesTyped
    <3>2. cache' = [o \in Objects |-> IF o = Pipeline THEN R ELSE cache[o]]
      BY <2>2, <3>1, Apart
    <3>3. cache'[Pipeline] = R /\ \A q \in Proxies : cache'[q] = cache[q]
      BY <3>2, Apart
    <3>4. cache' = [o \in Objects |-> cache'[o]]
      BY <3>2
    <3>5. cache' \in World
      BY <1>3, <3>1, <3>3, <3>4, WorldIs
    <3> QED
      BY <3>3, <3>5
  <2> QED
    BY <1>1, <2>1, <2>2
<1>6. Registered' = R
  BY <1>4 DEF Registered
<1>7. Sound(state)'
  <2>1. Sound(state)
    BY DEF StatesTyped
  <2> QED
    BY <1>4, <2>1 DEF Sound, R, Registered
<1>8. \A q \in R : cache'[q] # NoState
  BY <1>2, <1>5 DEF StatesTyped, R
<1>9. modified' \in Modified
  BY <1>1 DEF StatesTyped, Modified
<1>10. StatesTyped'
  BY <1>4, <1>5, <1>6, <1>7, <1>8, <1>9 DEF StatesTyped
<1> QED
  BY <1>1, <1>4, <1>5, <1>6, <1>10 DEF R

\* The states keep their types, whatever happens.
LEMMA StatesStep ==
  ASSUME StatesTyped, undoStack \in Seq(Sets), redoStack \in Seq(Sets), [Next]_vars
  PROVE  StatesTyped'
<1>1. ASSUME NEW p \in Proxies, NEW v \in Values, ChangeProxy(p, v) \/ CreateProxy(p, v)
      PROVE  StatesTyped'
  BY <1>1, ChangeTyped, CreateTyped
<1>2. ASSUME NEW p \in Proxies, UnRegisterProxy(p) \/ DeletedElsewhere(p)
      PROVE  StatesTyped'
  BY <1>2, DeleteTyped
<1>3. ASSUME NEW p \in Proxies, Apply(p)
      PROVE  StatesTyped'
  BY <1>3 DEF Apply, StatesTyped, Modified, Sound, Registered
<1>4. CASE Undo
  <2>1. \E a \in Ats : Finish(a)
    BY <1>4, UndoIs
  <2> QED
    BY <2>1, Finishing
<1>5. CASE Redo
  <2>1. \E a \in Ats : Finish(a)
    BY <1>5, RedoIs
  <2> QED
    BY <2>1, Finishing
<1>6. CASE StatesStay
  BY <1>6 DEF StatesStay, StatesTyped, Sound, Registered
<1> QED
  BY <1>1, <1>2, <1>3, <1>4, <1>5, <1>6, StateSteps

\* The open set, the stacks, and the states the open section began with.
BegunTyped ==
  /\ begun = NoState <=> nestedCount = 0
  /\ begun # NoState => begun \in World /\ Sound(begun)
SetsTyped ==
  /\ undoSet \in Seq(Elements)
  /\ nestedCount = 0 => undoSet = <<>>
  /\ undoStack \in Seq(Sets) /\ redoStack \in Seq(Sets)

\* One set more.
LEMMA PushTyped ==
  ASSUME undoStack \in Seq(Sets), NEW es \in Seq(Elements), es # <<>>,
         NEW from \in World, Sound(from), NEW to \in World, Sound(to),
         PushSet(es, from, to)
  PROVE  SetsTyped'
<1> DEFINE set == [elements |-> es, from |-> from, to |-> to]
<1>1. set \in Sets
  BY DEF Sets
<1>2. Trimmed(undoStack) \in Seq(Sets)
  <2>1. CASE StackDepth > 0 /\ Len(undoStack) >= StackDepth
    <3>1. /\ Len(undoStack) \in Nat /\ StackDepth \in Nat
          /\ Len(undoStack) - StackDepth + 2 \in 1 .. Len(undoStack) + 1
      BY <2>1, DepthAssumption
    <3>2. \A i \in Len(undoStack) - StackDepth + 2 .. Len(undoStack) :
            undoStack[i] \in Sets
      BY <3>1
    <3> QED
      BY <2>1, <3>1, <3>2, SubSeqProperties DEF Trimmed
  <2> QED
    BY <2>1 DEF Trimmed
<1>3. /\ undoStack' = Append(Trimmed(undoStack), set)
      /\ redoStack' = <<>> /\ undoSet' = <<>>
  BY DEF PushSet
<1> HIDE DEF set
<1>4. undoStack' \in Seq(Sets)
  BY <1>1, <1>2, <1>3
<1> QED
  BY <1>3, <1>4 DEF SetsTyped

\* A change is recorded.
LEMMA RecordTyped ==
  ASSUME SectionInv, SetsTyped, NEW es \in Seq(Elements), es # <<>>, Record(es),
         state \in World, Sound(state), state' \in World, Sound(state'),
         nestedCount' = nestedCount
  PROVE  SetsTyped'
<1>1. CASE UNCHANGED setVars
  BY <1>1 DEF SetsTyped, setVars
<1>2. CASE /\ monitoring > 0 /\ undoSet' = undoSet \o es
           /\ UNCHANGED <<undoStack, redoStack>>
  <2>1. nestedCount # 0
    BY <1>2 DEF SectionInv
  <2> QED
    BY <1>2, <2>1 DEF SetsTyped
<1>3. CASE PushSet(<<es[1]>>, state, state')
  <2>1. <<es[1]>> \in Seq(Elements) /\ <<es[1]>> # <<>>
    OBVIOUS
  <2> QED
    BY <1>3, <2>1, PushTyped DEF SetsTyped
<1> QED
  BY <1>1, <1>2, <1>3 DEF Record

\* What the changes record are elements.
LEMMA RecordsElements ==
  ASSUME NEW p \in Proxies
  PROVE  /\ \A v, w \in Values : Update(p, v, w) \in Elements
         /\ \A R, S \in SUBSET Proxies : Update(Pipeline, R, S) \in Elements
         /\ MadeUnmodified(p) \in Elements /\ MadeUninitialized(p) \in Elements
BY DEF Update, MadeUnmodified, MadeUninitialized, Elements

\* The sets keep their types.
LEMMA SetsStep ==
  ASSUME SectionInv, SectionInv', StatesTyped, StatesTyped', BegunTyped, SetsTyped,
         [Next]_vars
  PROVE  SetsTyped'
<1>0. /\ state \in World /\ Sound(state) /\ state' \in World /\ Sound(state')
      /\ Registered \in SUBSET Proxies /\ cache[Pipeline] \in SUBSET Proxies
  BY WorldIs DEF StatesTyped, Registered, Sound
<1>1. ASSUME NEW p \in Proxies, NEW v \in Values, ChangeProxy(p, v)
      PROVE  SetsTyped'
  <2>1. Update(p, cache[p], v) \in Elements
    BY <1>1, ChangeTyped, RecordsElements
  <2>2. Record(<<Update(p, cache[p], v)>>) /\ nestedCount' = nestedCount
    BY <1>1 DEF ChangeProxy, guiVars
  <2>3. /\ <<Update(p, cache[p], v)>> \in Seq(Elements)
        /\ <<Update(p, cache[p], v)>> # <<>>
    BY <2>1
  <2> QED
    BY <1>0, <2>2, <2>3, RecordTyped
<1>2. ASSUME NEW p \in Proxies, NEW v \in Values, CreateProxy(p, v)
      PROVE  SetsTyped'
  <2> DEFINE e == Update(Pipeline, cache[Pipeline], Registered \cup {p})
             m == MadeUninitialized(p)
  <2>1. Registered \cup {p} \in SUBSET Proxies
    BY <1>0
  <2>2. e \in Elements /\ m \in Elements
    BY <1>0, <2>1, RecordsElements
  <2>3. Record(<<e, m>>) /\ nestedCount' = nestedCount
    BY <1>2 DEF CreateProxy, guiVars
  <2> HIDE DEF e, m
  <2>4. <<e, m>> \in Seq(Elements) /\ <<e, m>> # <<>>
    BY <2>2
  <2> QED
    BY <1>0, <2>3, <2>4, RecordTyped
<1>3. ASSUME NEW p \in Proxies, UnRegisterProxy(p)
      PROVE  SetsTyped'
  <2> DEFINE e == Update(Pipeline, cache[Pipeline], Registered \ {p})
  <2>1. Registered \ {p} \in SUBSET Proxies
    BY <1>0
  <2>2. e \in Elements
    BY <1>0, <2>1, RecordsElements
  <2>3. Record(<<e>>) /\ nestedCount' = nestedCount
    BY <1>3 DEF UnRegisterProxy, guiVars
  <2> HIDE DEF e
  <2>4. <<e>> \in Seq(Elements) /\ <<e>> # <<>>
    BY <2>2
  <2> QED
    BY <1>0, <2>3, <2>4, RecordTyped
<1>4. ASSUME NEW p \in Proxies, Apply(p)
      PROVE  SetsTyped'
  <2>1. /\ UNCHANGED <<undoStack, redoStack, nestedCount>>
        /\ \/ undoSet' = undoSet
           \/ monitoring # 0 /\ undoSet' = Append(undoSet, MadeUnmodified(p))
    BY <1>4 DEF Apply, guiVars
  <2>2. MadeUnmodified(p) \in Elements
    BY RecordsElements
  <2>3. monitoring # 0 => nestedCount # 0
    BY DEF SectionInv
  <2> QED
    BY <2>1, <2>2, <2>3 DEF SetsTyped
<1>5. CASE \/ \E p \in Proxies : DeletedElsewhere(p)
           \/ BeginUndoSet \/ BeginNonUndoable \/ EndNonUndoable \/ UNCHANGED vars
  <2>1. UNCHANGED setVars
    BY <1>5 DEF DeletedElsewhere, BeginUndoSet, BeginNonUndoable, EndNonUndoable, vars
  <2>2. nestedCount' = 0 => nestedCount = 0
    <3>1. nestedCount \in Nat
      BY BothKinds, AtFinite DEF SectionInv
    <3>2. nestedCount' = nestedCount + 1 \/ nestedCount' = nestedCount
      BY <1>5 DEF DeletedElsewhere, BeginUndoSet, BeginNonUndoable, EndNonUndoable,
                  vars, guiVars
    <3> QED
      BY <3>1, <3>2
  <2> QED
    BY <2>1, <2>2 DEF SetsTyped, setVars
<1>6. CASE EndUndoSet
  <2>1. nestedCount \in Nat /\ nestedCount' \in Nat /\ nestedCount' = nestedCount - 1
    BY <1>6, BothKinds, AtFinite DEF SectionInv, EndUndoSet
  <2>2. begun # NoState
    BY <2>1 DEF BegunTyped
  <2>3. CASE monitoring' = 0 /\ undoSet # <<>>
    <3>1. PushSet(undoSet, begun, state)
      BY <1>6, <2>3 DEF EndUndoSet
    <3> QED
      BY <1>0, <2>2, <2>3, <3>1, PushTyped DEF SetsTyped, BegunTyped
  <2>4. CASE ~(monitoring' = 0 /\ undoSet # <<>>)
    <3>1. UNCHANGED setVars
      BY <1>6, <2>4 DEF EndUndoSet
    <3>2. nestedCount' = 0 => undoSet = <<>>
      BY <2>4 DEF SectionInv
    <3> QED
      BY <3>1, <3>2 DEF SetsTyped, setVars
  <2> QED
    BY <2>3, <2>4
<1>7. CASE Clear
  BY <1>7 DEF Clear, SetsTyped
<1>8. CASE Undo
  <2>1. (MoveToRedo \/ StacksStay) /\ UNCHANGED <<undoSet, nestedCount>>
    BY <1>8, UndoMoves DEF Undo, guiVars
  <2> QED
    BY <2>1, Moved DEF MoveToRedo, StacksStay, SetsTyped
<1>9. CASE Redo
  <2>1. (MoveToUndo \/ StacksStay) /\ UNCHANGED <<undoSet, nestedCount>>
    BY <1>9, RedoMoves DEF Redo, guiVars
  <2> QED
    BY <2>1, Moved DEF MoveToUndo, StacksStay, SetsTyped
<1> QED
  BY <1>1, <1>2, <1>3, <1>4, <1>5, <1>6, <1>7, <1>8, <1>9 DEF Next

\* The open section's beginning is kept until it ends.
LEMMA BegunStep ==
  ASSUME SectionInv, StatesTyped, BegunTyped, [Next]_vars
  PROVE  BegunTyped'
<1>0. nestedCount \in Nat /\ state \in World /\ Sound(state) /\ state # NoState
  BY BothKinds, AtFinite, Apart DEF SectionInv, StatesTyped
<1>1. CASE BeginUndoSet
  <2>1. /\ nestedCount' = nestedCount + 1 /\ nestedCount' # 0
        /\ begun' = IF nestedCount = 0 THEN state ELSE begun
    BY <1>0, <1>1 DEF BeginUndoSet
  <2> QED
    BY <1>0, <2>1 DEF BegunTyped, Sound
<1>2. CASE EndUndoSet
  <2>1. nestedCount' = nestedCount - 1
        /\ begun' = IF nestedCount = 1 THEN NoState ELSE begun
    BY <1>2 DEF EndUndoSet
  <2>2. nestedCount > 0
    <3>1. /\ sections \in Seq(Kinds) /\ sections # <<>> /\ Last(sections) = "set"
      BY <1>2 DEF EndUndoSet, SectionInv
    <3>2. Last(sections) = sections[Len(sections)]
      BY DEF Last
    <3>4. Len(sections) \in DOMAIN sections
      BY <3>1
    <3>3. Len(sections) \in At("set", sections)
      BY <3>1, <3>2, <3>4 DEF At
    <3> QED
      BY <3>1, <3>3, BothKinds, AtFinite DEF SectionInv
  <2> QED
    BY <1>0, <2>1, <2>2 DEF BegunTyped, Sound
<1>3. CASE Clear
  BY <1>0, <1>3 DEF Clear, BegunTyped, Sound
<1>4. CASE UNCHANGED <<begun, nestedCount>>
  BY <1>4 DEF BegunTyped, Sound
<1>5. \/ BeginUndoSet \/ EndUndoSet \/ Clear \/ UNCHANGED <<begun, nestedCount>>
  <2>1. ASSUME NEW p \in Proxies, NEW v \in Values, ChangeProxy(p, v) \/ CreateProxy(p, v)
        PROVE  UNCHANGED <<begun, nestedCount>>
    BY <2>1 DEF ChangeProxy, CreateProxy, guiVars
  <2>2. ASSUME NEW p \in Proxies,
               UnRegisterProxy(p) \/ Apply(p) \/ DeletedElsewhere(p)
        PROVE  UNCHANGED <<begun, nestedCount>>
    BY <2>2 DEF UnRegisterProxy, Apply, DeletedElsewhere, guiVars
  <2>3. CASE BeginNonUndoable \/ EndNonUndoable \/ UNCHANGED vars
    BY <2>3 DEF BeginNonUndoable, EndNonUndoable, vars, guiVars
  <2>4. CASE Undo \/ Redo
    BY <2>4 DEF Undo, Redo, guiVars
  <2> QED
    BY <2>1, <2>2, <2>3, <2>4 DEF Next
<1> QED
  BY <1>1, <1>2, <1>3, <1>4, <1>5

\* There are never more saved flags than open excluded sections.
FlagsTyped ==
  /\ ignoreStack \in Seq(BOOLEAN)
  /\ Len(ignoreStack) <= Cardinality(Excluded)
  /\ ignoreAll \in BOOLEAN

\* Each excluded section saves a flag, and takes one back if there is any.
LEMMA FlagsTypedStep ==
  ASSUME SectionInv, FlagsTyped, [Next]_vars
  PROVE  FlagsTyped'
<1> DEFINE depth == Cardinality(Excluded)
<1>0. sections \in Seq(Kinds) /\ depth \in Nat /\ Len(ignoreStack) \in Nat
  BY BothKinds, AtFinite DEF SectionInv, Excluded, FlagsTyped
<1>1. CASE BeginUndoSet
  <2>1. sections' = Append(sections, "set") /\ UNCHANGED <<ignoreStack, ignoreAll>>
    BY <1>1 DEF BeginUndoSet
  <2>2. depth' = depth
    BY <1>0, <2>1, BothKinds, OpenOne DEF Excluded
  <2> QED
    BY <2>1, <2>2 DEF FlagsTyped
<1>2. CASE EndUndoSet
  <2>1. /\ sections # <<>> /\ Last(sections) = "set" /\ sections' = Front(sections)
        /\ UNCHANGED <<ignoreStack, ignoreAll>>
    BY <1>2 DEF EndUndoSet
  <2>2. depth' = depth
    BY <1>0, <2>1, BothKinds, CloseOne DEF Excluded
  <2> QED
    BY <2>1, <2>2 DEF FlagsTyped
<1>3. CASE BeginNonUndoable
  <2>1. /\ sections' = Append(sections, "exclude")
        /\ ignoreStack' = Append(ignoreStack, ignoreAll) /\ ignoreAll' = TRUE
    BY <1>3 DEF BeginNonUndoable
  <2>2. depth' = depth + 1
    BY <1>0, <2>1, BothKinds, OpenOne DEF Excluded
  <2>3. /\ Append(ignoreStack, ignoreAll) \in Seq(BOOLEAN)
        /\ Len(Append(ignoreStack, ignoreAll)) = Len(ignoreStack) + 1
    BY DEF FlagsTyped
  <2> HIDE DEF depth
  <2>4. Len(ignoreStack) + 1 <= depth + 1
    BY <1>0 DEF FlagsTyped, depth
  <2> QED
    BY <2>1, <2>2, <2>3, <2>4 DEF FlagsTyped, depth
<1>4. CASE EndNonUndoable
  <2>1. /\ sections # <<>> /\ Last(sections) = "exclude" /\ sections' = Front(sections)
        /\ ignoreAll' = IF ignoreStack = <<>> THEN FALSE ELSE Last(ignoreStack)
        /\ ignoreStack' = IF ignoreStack = <<>> THEN <<>> ELSE Front(ignoreStack)
    BY <1>4 DEF EndNonUndoable
  <2>2. depth' = depth - 1 /\ sections' \in Seq(Kinds)
    BY <1>0, <2>1, BothKinds, CloseOne DEF Excluded
  <2>3. depth' \in Nat
    BY <2>2, BothKinds, AtFinite DEF Excluded
  <2>4. CASE ignoreStack = <<>>
    <3>1. ignoreStack' = <<>> /\ ignoreAll' = FALSE
      BY <2>1, <2>4
    <3>2. ignoreStack' \in Seq(BOOLEAN) /\ Len(ignoreStack') = 0
      BY <3>1, EmptyFlags
    <3> HIDE DEF depth
    <3>3. Len(ignoreStack') <= depth'
      BY <2>3, <3>2
    <3> QED
      BY <3>1, <3>2, <3>3 DEF FlagsTyped, depth
  <2>5. CASE ignoreStack # <<>>
    <3>1. ignoreStack' = Front(ignoreStack) /\ ignoreAll' = Last(ignoreStack)
      BY <2>1, <2>5
    <3>2. /\ ignoreStack' \in Seq(BOOLEAN) /\ Len(ignoreStack') = Len(ignoreStack) - 1
          /\ ignoreAll' \in BOOLEAN
      BY <2>5, <3>1, FrontAndLast DEF FlagsTyped
    <3> HIDE DEF depth
    <3>3. Len(ignoreStack') <= depth'
      BY <1>0, <2>2, <3>2 DEF FlagsTyped, depth
    <3> QED
      BY <3>2, <3>3 DEF FlagsTyped, depth
  <2> QED
    BY <2>4, <2>5
<1>5. CASE Clear
  <2>1. ignoreStack' = <<>> /\ UNCHANGED <<sections, ignoreAll>>
    BY <1>5 DEF Clear, builderVars
  <2>2. ignoreStack' \in Seq(BOOLEAN) /\ Len(ignoreStack') = 0 /\ depth' = depth
    BY <2>1, EmptyFlags DEF Excluded
  <2> QED
    BY <1>0, <2>1, <2>2 DEF FlagsTyped
<1>6. CASE FlagsStay
  BY <1>6 DEF FlagsStay, FlagsTyped, Excluded
<1> QED
  BY <1>1, <1>2, <1>3, <1>4, <1>5, <1>6, FlagSteps

\* The objects changed behind the back of the stack are objects, and changes
\* are counted up to the bound.
RestTyped ==
  /\ multiClients \in BOOLEAN
  /\ tainted \subseteq Objects
  /\ changes \in 0 .. MaxChanges

\* The elements of a set are about objects.
LEMMA TouchedIs ==
  ASSUME NEW es \in Seq(Elements)
  PROVE  /\ Touched(es) \subseteq Objects
         /\ Own(es, Pipeline) # {} => Touched(es) = Objects
         /\ Own(es, Pipeline) = {} =>
              Touched(es) = {p \in Proxies : Own(es, p) # {}}
<1> DEFINE ids == {es[i].id : i \in {j \in DOMAIN es : es[j].kind = "update"}}
<1>1. DOMAIN es = 1 .. Len(es) /\ \A i \in 1 .. Len(es) : es[i] \in Elements
  OBVIOUS
<1>2. \A i \in 1 .. Len(es) : es[i].kind = "update" => es[i].id \in Objects
  BY <1>1, ElementIs
<1>3. \A o \in Objects : o \in ids <=> Own(es, o) # {}
  BY <1>1 DEF Own, Updates
<1>4. ids \subseteq Objects
  BY <1>1, <1>2
<1>5. Touched(es) = IF Pipeline \in ids THEN Objects ELSE ids
  BY DEF Touched
<1> HIDE DEF ids
<1> QED
  BY <1>3, <1>4, <1>5, Apart DEF Objects

\* These types are kept, too.
LEMMA RestStep ==
  ASSUME StatesTyped, SetsTyped, RestTyped, [Next]_vars
  PROVE  RestTyped'
<1>1. multiClients' = multiClients /\ changes' \in 0 .. MaxChanges
  <2>1. CountChange => changes' \in 0 .. MaxChanges
    BY BoundsAssumption DEF CountChange, RestTyped
  <2>2. ASSUME NEW p \in Proxies, NEW v \in Values, ChangeProxy(p, v) \/ CreateProxy(p, v)
        PROVE  multiClients' = multiClients /\ CountChange
    BY <2>2 DEF ChangeProxy, CreateProxy
  <2>3. ASSUME NEW p \in Proxies,
               UnRegisterProxy(p) \/ Apply(p) \/ DeletedElsewhere(p)
        PROVE  multiClients' = multiClients /\ CountChange
    BY <2>3 DEF UnRegisterProxy, Apply, DeletedElsewhere
  <2>4. CASE BeginNonUndoable \/ EndNonUndoable \/ BeginUndoSet \/ EndUndoSet \/ Clear
    BY <2>4 DEF BeginNonUndoable, EndNonUndoable, BeginUndoSet, EndUndoSet, Clear,
                RestTyped
  <2>5. CASE Undo \/ Redo \/ UNCHANGED vars
    BY <2>5 DEF Undo, Redo, vars, RestTyped
  <2> QED
    BY <2>1, <2>2, <2>3, <2>4, <2>5 DEF Next
<1>2. tainted' \subseteq Objects
  <2>1. ASSUME NEW o \in Objects, Taint(o) PROVE tainted' \subseteq Objects
    BY <2>1 DEF Taint, RestTyped
  <2>2. ASSUME NEW p \in Proxies, NEW v \in Values, ChangeProxy(p, v) \/ CreateProxy(p, v)
        PROVE  Taint(p) \/ Taint(Pipeline)
    BY <2>2 DEF ChangeProxy, CreateProxy
  <2>3. ASSUME NEW p \in Proxies,
               UnRegisterProxy(p) \/ Apply(p) \/ DeletedElsewhere(p)
        PROVE  Taint(Pipeline) \/ tainted' = tainted
    BY <2>3 DEF UnRegisterProxy, Apply, DeletedElsewhere
  <2>4. CASE BeginNonUndoable \/ EndNonUndoable \/ BeginUndoSet \/ EndUndoSet \/ Clear
    BY <2>4 DEF BeginNonUndoable, EndNonUndoable, BeginUndoSet, EndUndoSet, Clear,
                RestTyped
  <2>5. CASE UNCHANGED vars
    BY <2>5 DEF vars, RestTyped
  <2>6. ASSUME NEW es \in Seq(Elements), NEW a, Disturb(es, a)
        PROVE  tainted' \subseteq Objects
    BY <2>6, TouchedIs DEF Disturb, RestTyped
  <2>7. CASE Undo
    BY <2>6, <2>7, UndoIs DEF SetsTyped
  <2>8. CASE Redo
    BY <2>6, <2>8, RedoIs DEF SetsTyped
  <2> QED
    BY <2>1, <2>2, <2>3, <2>4, <2>5, <2>7, <2>8, Apart DEF Next, RestTyped
<1> QED
  BY <1>1, <1>2 DEF RestTyped

\* The types of all variables.
TInv ==
  /\ SectionInv
  /\ StatesTyped
  /\ BegunTyped
  /\ SetsTyped
  /\ FlagsTyped
  /\ RestTyped

\* The initial states have the types.
LEMMA TypedInit == Init => TInv
<1> SUFFICES ASSUME Init PROVE TInv
  OBVIOUS
<1>1. state = [o \in Objects |-> IF o = Pipeline THEN {} ELSE NoState]
  BY DEF Init
<1>2. state[Pipeline] = {} /\ \A p \in Proxies : state[p] = NoState
  BY <1>1, Apart
<1>3. state = [o \in Objects |-> state[o]]
  BY <1>1
<1>4. state \in World
  <2>1. state[Pipeline] \in SUBSET Proxies /\ \A p \in Proxies : state[p] \in States
    BY <1>2, Apart
  <2> QED
    BY <1>3, <2>1, WorldIs
<1>5. StatesTyped
  <2>1. cache = state /\ modified = [p \in Proxies |-> "UNMODIFIED"]
    BY DEF Init
  <2>2. modified \in Modified
    BY <2>1 DEF Modified
  <2> QED
    BY <1>2, <1>4, <2>1, <2>2 DEF StatesTyped, Sound, Registered
<1>6. BegunTyped /\ SetsTyped
  BY DEF Init, BegunTyped, SetsTyped
<1>7. FlagsTyped
  <2>1. Excluded = {} /\ ignoreStack = <<>> /\ ignoreAll = FALSE
    BY DEF Init, At, Excluded
  <2>2. Cardinality(Excluded) = 0
    BY <2>1, FS_EmptySet
  <2>3. ignoreStack \in Seq(BOOLEAN)
    BY <2>1
  <2>4. Len(ignoreStack) = 0
    BY <2>1
  <2>5. Len(ignoreStack) <= Cardinality(Excluded)
    BY ONLY <2>2, <2>4
  <2> QED
    BY <2>1, <2>3, <2>5 DEF FlagsTyped
<1>8. RestTyped
  BY BoundsAssumption DEF Init, RestTyped
<1> QED
  BY <1>5, <1>6, <1>7, <1>8, SectionInit DEF TInv

\* Every step keeps them.
LEMMA TypedStep == TInv /\ [Next]_vars => TInv'
<1> SUFFICES ASSUME TInv, [Next]_vars PROVE TInv'
  OBVIOUS
<1>1. SectionInv' /\ StatesTyped'
  BY SectionStep, StatesStep DEF TInv, SetsTyped
<1>2. BegunTyped' /\ FlagsTyped' /\ RestTyped'
  BY BegunStep, FlagsTypedStep, RestStep DEF TInv
<1>3. SetsTyped'
  BY <1>1, SetsStep DEF TInv
<1> QED
  BY <1>1, <1>2, <1>3 DEF TInv

\* The recorded elements are those of the model's type.
LEMMA ElementsTyped == Elements \subseteq Element
BY DEF Elements, Element, States, Objects

\* The invariant says what TypeOK does, and more.
LEMMA TypedIsTypeOK == TInv => TypeOK
<1> SUFFICES ASSUME TInv PROVE TypeOK
  OBVIOUS
<1>1. sections \in Seq(Kinds)
  BY DEF TInv, SectionInv
<1>2. /\ Depth("set") = Cardinality(At("set", sections))
      /\ Depth("exclude") = Cardinality(Excluded)
  <2>1. \A kind \in Kinds : {i \in DOMAIN sections : sections[i] = kind} = At(kind, sections)
    BY <1>1 DEF At
  <2> QED
    BY <2>1, BothKinds DEF Depth, Excluded
<1>3. Open("set") <=> nestedCount > 0
  <2>1. Open("set") <=> At("set", sections) # {}
    BY <1>1 DEF Open, At
  <2> QED
    BY <1>1, <2>1, BothKinds, AtFinite DEF TInv, SectionInv
<1>4. nestedCount \in Nat
  BY <1>1, BothKinds, AtFinite DEF TInv, SectionInv
<1>5. \A w : w \in World => IsWorld(w)
  BY DEF World
<1>6. /\ IsWorld(state) /\ IsWorld(cache)
      /\ \A p \in Proxies : p \in Registered <=> state[p] # NoState
      /\ modified \in [Proxies -> {"UNINITIALIZED", "UNMODIFIED"}]
  BY <1>5 DEF TInv, StatesTyped, Sound, Registered, Modified
<1>7. /\ begun = NoState <=> ~Open("set")
      /\ begun # NoState => IsWorld(begun)
  BY <1>3, <1>4, <1>5 DEF TInv, BegunTyped
<1>8. \A i \in DOMAIN undoSet : undoSet[i] \in Element
  BY ElementsTyped DEF TInv, SetsTyped
<1>9. ASSUME NEW set \in Sets PROVE IsSet(set)
  <2>1. /\ set.elements \in Seq(Elements) /\ set.elements # <<>>
        /\ set.from \in World /\ set.to \in World
    BY DEF Sets
  <2>2. \A i \in DOMAIN set.elements : set.elements[i] \in Element
    BY <2>1, ElementsTyped
  <2> QED
    BY <1>5, <2>1, <2>2 DEF IsSet
<1>10. /\ \A i \in DOMAIN undoStack : IsSet(undoStack[i])
       /\ \A i \in DOMAIN redoStack : IsSet(redoStack[i])
  BY <1>9 DEF TInv, SetsTyped
<1>11. /\ monitoring = (IF nestedCount > 0 THEN 1 ELSE 0)
       /\ nestedCount = Depth("set")
       /\ Len(ignoreStack) <= Depth("exclude")
  BY <1>2 DEF TInv, SectionInv, FlagsTyped
<1> QED
  BY <1>6, <1>7, <1>8, <1>10, <1>11 DEF TInv, RestTyped, TypeOK

\* For any proxies, values, depth and bounds, every variable keeps its type,
\* exactly the registered proxies have a state, and the builder monitors, and
\* remembers where it began, exactly while an undo section is open
\* (pqUndoStack, vtkSMUndoStackBuilder, vtkUndoSet).
THEOREM TypeCorrect == Spec => []TypeOK
BY TypedInit, TypedStep, TypedIsTypeOK, PTL DEF Spec

-----------------------------------------------------------------------------
(* What the elements of a set tell of the states before and after it       *)

\* An object that has a state in w.
Has(w, o) == o = Pipeline \/ o \in w[Pipeline]

IsFirst(S, i) == i \in S /\ \A j \in S : i <= j
IsLast(S, i) == i \in S /\ \A j \in S : j <= i

AgreeBut(T, w1, w2) == \A o \in Objects \ T : w1[o] = w2[o]

\* Except for the objects of T, the elements lead from w1 to w2 and back.
Leaves(T, es, w1, w2) ==
  \A o \in Objects \ T :
    /\ Own(es, o) = {} /\ Has(w1, o) /\ Has(w2, o) => w1[o] = w2[o]
    /\ \A i : IsFirst(Own(es, o), i) /\ Has(w1, o) => es[i].before = w1[o]
    /\ \A i : IsLast(Own(es, o), i) /\ Has(w2, o) => es[i].after = w2[o]

\* A proxy that is updated is there, whichever way the elements are processed.
Peopled(es, w1, w2) ==
  \A p \in Proxies : \A i \in Own(es, p) :
    /\ p \in w1[Pipeline] \/ \E j \in Own(es, Pipeline) : j < i /\ p \in es[j].after
    /\ p \in w2[Pipeline] \/ \E j \in Own(es, Pipeline) : i < j /\ p \in es[j].before

\* The session C has a state of every proxy that is registered on the way.
Known(C, es, w1, w2) ==
  /\ \A p \in Proxies : p \in w1[Pipeline] \/ p \in w2[Pipeline] => C[p] # NoState
  /\ \A j \in Own(es, Pipeline) : \A p \in Proxies :
       p \in es[j].before \/ p \in es[j].after => C[p] # NoState

Tells(T, C, es, w1, w2) ==
  Leaves(T, es, w1, w2) /\ Peopled(es, w1, w2) /\ Known(C, es, w1, w2)

\* A proxy that is in w1 and not in w2, and that no element updates, can be
\* created as it was.
Kept(T, C, es, w1, w2) ==
  \A p \in Proxies \ T :
    p \in w1[Pipeline] /\ p \notin w2[Pipeline] /\ Own(es, p) = {} => C[p] = w1[p]

\* The same in terms of the order in which the elements are processed.
Leads(T, es, order, direction, found, here, there) ==
  /\ CanRun(here[Pipeline], es, order, direction, found)
  /\ \A o \in Objects \ T :
       /\ Never(es, order, o, Len(order)) /\ Has(here, o) /\ Has(there, o) =>
            here[o] = there[o]
       /\ \A i : Latest(es, order, o, Len(order), i) /\ Has(there, o) =>
            Target(es[order[i]], direction) = there[o]
  /\ \A p \in Proxies \ T :
       /\ p \in there[Pipeline] /\ p \notin here[Pipeline]
       /\ Never(es, order, p, Len(order))
       => found[p] = there[p]

\* Elements processed in the order of their numbers.
LEMMA OrderedUp ==
  ASSUME NEW es \in Seq(Elements), NEW o
  PROVE  LET order == Ascending(Len(es)) N == Len(es) IN
         /\ Never(es, order, o, N) => Own(es, o) = {}
         /\ \A i : Latest(es, order, o, N, i) => order[i] = i /\ IsLast(Own(es, o), i)
<1> DEFINE order == Ascending(Len(es))  N == Len(es)
<1>1. N \in Nat /\ \A i \in 1 .. N : order[i] = i
  BY Orders
<1> HIDE DEF order
<1>2. Never(es, order, o, N) => Own(es, o) = {}
  BY <1>1 DEF Never, Own
<1>3. ASSUME NEW i, Latest(es, order, o, N, i)
      PROVE  order[i] = i /\ IsLast(Own(es, o), i)
  BY <1>1, <1>3 DEF Latest, Own, IsLast
<1> QED
  BY <1>2, <1>3 DEF order

\* Elements processed in the opposite order.
LEMMA OrderedDown ==
  ASSUME NEW es \in Seq(Elements), NEW o
  PROVE  LET order == Descending(Len(es)) N == Len(es) IN
         /\ Never(es, order, o, N) => Own(es, o) = {}
         /\ \A i : Latest(es, order, o, N, i) => IsFirst(Own(es, o), order[i])
<1> DEFINE order == Descending(Len(es))  N == Len(es)
<1>0. N \in Nat /\ N \in 0 .. Len(es)
  OBVIOUS
<1> HIDE DEF order, N
<1>1. N \in Nat /\ \A i \in 1 .. N : order[i] = N + 1 - i
  BY <1>0, Orders DEF order, N
<1> USE DEF N
<1>2. ASSUME NEW k \in 1 .. N PROVE N + 1 - k \in 1 .. N /\ order[N + 1 - k] = k
  <2>1. N + 1 - k \in 1 .. N /\ N + 1 - (N + 1 - k) = k
    BY <1>1
  <2> QED
    BY <1>1, <2>1
<1>3. Never(es, order, o, N) => Own(es, o) = {}
  BY <1>2 DEF Never, Own
<1>4. ASSUME NEW i, Latest(es, order, o, N, i)
      PROVE  IsFirst(Own(es, o), order[i])
  <2>1. i \in 1 .. N /\ order[i] = N + 1 - i /\ Updates(es[order[i]], o)
    BY <1>1, <1>4 DEF Latest
  <2>2. order[i] \in Own(es, o)
    BY <1>1, <2>1 DEF Own
  <2>3. ASSUME NEW k \in Own(es, o) PROVE order[i] <= k
    <3>1. k \in 1 .. N /\ Updates(es[k], o)
      BY DEF Own
    <3>2. N + 1 - k <= i
      BY <1>2, <1>4, <3>1 DEF Latest
    <3> QED
      BY <1>1, <2>1, <3>1, <3>2
  <2> QED
    BY <2>2, <2>3 DEF IsFirst
<1> QED
  BY <1>3, <1>4 DEF order

\* What a proxy is created with is a state, if the session has one.
LEMMA FoundAll ==
  ASSUME cache \in World, NEW es \in Seq(Elements), NEW side \in {"undo", "redo"},
         NEW p \in Proxies, cache[p] # NoState
  PROVE  FoundIn(es, side)[p] # NoState
BY FoundIs, Apart

\* A set tells how to undo it.
LEMMA UndoLeads ==
  ASSUME cache \in World, NEW es \in Seq(Elements), NEW T, NEW w1, NEW w2,
         Tells(T, cache, es, w1, w2), Kept(T, cache, es, w1, w2)
  PROVE  Leads(T, es, Descending(Len(es)), "undo", FoundIn(es, "undo"), w2, w1)
<1> DEFINE order == Descending(Len(es))  N == Len(es)  found == FoundIn(es, "undo")
<1>1. N \in Nat /\ N \in 0 .. Len(es)
  OBVIOUS
<1>2. /\ OrderOf(order, es) /\ Len(order) = N
      /\ \A i \in 1 .. N : order[i] = N + 1 - i
  <2> HIDE DEF order, N
  <2> QED
    BY <1>1, Orders DEF order, N
<1>3. \A o : /\ Never(es, order, o, N) => Own(es, o) = {}
             /\ \A i : Latest(es, order, o, N, i) => IsFirst(Own(es, o), order[i])
  BY OrderedDown
<1> HIDE DEF order, found
<1>4. CanRun(w2[Pipeline], es, order, "undo", found)
  <2> SUFFICES ASSUME NEW i \in 1 .. N
               PROVE  /\ Updates(es[order[i]], Pipeline) =>
                           \A p \in Target(es[order[i]], "undo") : found[p] # NoState
                      /\ \A p \in Proxies : Updates(es[order[i]], p) =>
                           \/ p \in w2[Pipeline]
                           \/ \E j \in 1 .. N :
                                /\ j < i /\ Updates(es[order[j]], Pipeline)
                                /\ p \in Target(es[order[j]], "undo")
    BY <1>2 DEF CanRun
  <2> DEFINE k == order[i]  e == es[k]
  <2>1. k = N + 1 - i /\ k \in 1 .. N /\ i \in Nat
    BY <1>1, <1>2
  <2>2. e \in Elements
    BY <2>1
  <2>3. ASSUME Updates(e, Pipeline), NEW p \in Target(e, "undo")
        PROVE  found[p] # NoState
    <3>1. p \in Proxies
      BY <2>2, <2>3, ElementIs
    <3>2. k \in Own(es, Pipeline)
      BY <2>1, <2>3 DEF Own
    <3>3. p \in es[k].before
      BY <2>3 DEF Target
    <3>4. cache[p] # NoState
      BY <3>1, <3>2, <3>3 DEF Tells, Known
    <3> QED
      BY <3>1, <3>4, FoundAll DEF found
  <2>4. ASSUME NEW p \in Proxies, Updates(e, p), p \notin w2[Pipeline]
        PROVE  \E j \in 1 .. N : /\ j < i /\ Updates(es[order[j]], Pipeline)
                                 /\ p \in Target(es[order[j]], "undo")
    <3>1. k \in Own(es, p)
      BY <2>1, <2>4 DEF Own
    <3>2. PICK m \in Own(es, Pipeline) : k < m /\ p \in es[m].before
      BY <2>4, <3>1 DEF Tells, Peopled
    <3>3. m \in 1 .. N /\ Updates(es[m], Pipeline)
      BY DEF Own
    <3>4. N + 1 - m \in 1 .. N /\ N + 1 - m < i /\ N + 1 - (N + 1 - m) = m
      BY <1>1, <2>1, <3>2, <3>3
    <3>5. order[N + 1 - m] = m
      BY <1>2, <3>4
    <3> QED
      BY <3>2, <3>3, <3>4, <3>5 DEF Target
  <2> QED
    BY <2>3, <2>4
<1>5. ASSUME NEW o \in Objects \ T
      PROVE  /\ Never(es, order, o, N) /\ Has(w2, o) /\ Has(w1, o) => w2[o] = w1[o]
             /\ \A i : Latest(es, order, o, N, i) /\ Has(w1, o) =>
                  Target(es[order[i]], "undo") = w1[o]
  BY <1>3 DEF Tells, Leaves, Target
<1>6. ASSUME NEW p \in Proxies \ T, p \in w1[Pipeline], p \notin w2[Pipeline],
             Never(es, order, p, N)
      PROVE  found[p] = w1[p]
  <2>1. Own(es, p) = {}
    BY <1>3, <1>6
  <2>2. cache[p] = w1[p]
    BY <1>6, <2>1 DEF Kept
  <2> QED
    BY <2>1, <2>2, FoundIs DEF found
<1> QED
  BY <1>2, <1>4, <1>5, <1>6 DEF Leads, order, found

\* And how to redo it.
LEMMA RedoLeads ==
  ASSUME cache \in World, NEW es \in Seq(Elements), NEW T, NEW w1, NEW w2,
         Tells(T, cache, es, w1, w2), Kept(T, cache, es, w2, w1)
  PROVE  Leads(T, es, Ascending(Len(es)), "redo", FoundIn(es, "redo"), w1, w2)
<1> DEFINE order == Ascending(Len(es))  N == Len(es)  found == FoundIn(es, "redo")
<1>1. N \in Nat /\ N \in 0 .. Len(es)
  OBVIOUS
<1>2. /\ OrderOf(order, es) /\ Len(order) = N
      /\ \A i \in 1 .. N : order[i] = i
  <2> HIDE DEF order, N
  <2> QED
    BY <1>1, Orders DEF order, N
<1>3. \A o : /\ Never(es, order, o, N) => Own(es, o) = {}
             /\ \A i : Latest(es, order, o, N, i) =>
                  order[i] = i /\ IsLast(Own(es, o), i)
  BY OrderedUp
<1> HIDE DEF order, found
<1>4. CanRun(w1[Pipeline], es, order, "redo", found)
  <2> SUFFICES ASSUME NEW i \in 1 .. N
               PROVE  /\ Updates(es[i], Pipeline) =>
                           \A p \in Target(es[i], "redo") : found[p] # NoState
                      /\ \A p \in Proxies : Updates(es[i], p) =>
                           \/ p \in w1[Pipeline]
                           \/ \E j \in 1 .. N :
                                /\ j < i /\ Updates(es[j], Pipeline)
                                /\ p \in Target(es[j], "redo")
    BY <1>2 DEF CanRun
  <2>2. es[i] \in Elements
    OBVIOUS
  <2>3. ASSUME Updates(es[i], Pipeline), NEW p \in Target(es[i], "redo")
        PROVE  found[p] # NoState
    <3>1. p \in Proxies
      BY <2>2, <2>3, ElementIs
    <3>2. i \in Own(es, Pipeline)
      BY <2>3 DEF Own
    <3>3. p \in es[i].after
      BY <2>3 DEF Target
    <3>4. cache[p] # NoState
      BY <3>1, <3>2, <3>3 DEF Tells, Known
    <3> QED
      BY <3>1, <3>4, FoundAll DEF found
  <2>4. ASSUME NEW p \in Proxies, Updates(es[i], p), p \notin w1[Pipeline]
        PROVE  \E j \in 1 .. N : /\ j < i /\ Updates(es[j], Pipeline)
                                 /\ p \in Target(es[j], "redo")
    <3>1. i \in Own(es, p)
      BY <2>4 DEF Own
    <3>2. PICK m \in Own(es, Pipeline) : m < i /\ p \in es[m].after
      BY <2>4, <3>1 DEF Tells, Peopled
    <3>3. m \in 1 .. N /\ Updates(es[m], Pipeline)
      BY DEF Own
    <3> QED
      BY <3>2, <3>3 DEF Target
  <2> QED
    BY <2>3, <2>4
<1>5. ASSUME NEW o \in Objects \ T
      PROVE  /\ Never(es, order, o, N) /\ Has(w1, o) /\ Has(w2, o) => w1[o] = w2[o]
             /\ \A i : Latest(es, order, o, N, i) /\ Has(w2, o) =>
                  Target(es[order[i]], "redo") = w2[o]
  BY <1>3 DEF Tells, Leaves, Target
<1>6. ASSUME NEW p \in Proxies \ T, p \in w2[Pipeline], p \notin w1[Pipeline],
             Never(es, order, p, N)
      PROVE  found[p] = w2[p]
  <2>1. Own(es, p) = {}
    BY <1>3, <1>6
  <2>2. cache[p] = w2[p]
    BY <1>6, <2>1 DEF Kept
  <2> QED
    BY <2>1, <2>2, FoundIs DEF found
<1> QED
  BY <1>2, <1>4, <1>5, <1>6 DEF Leads, order, found

\* Processed where it leads, a set brings the application there.
LEMMA Arriving ==
  ASSUME StatesTyped, NEW es \in Seq(Elements), NEW T, Pipeline \notin T,
         NEW order, OrderOf(order, es), NEW direction,
         NEW found \in [Proxies -> States],
         NEW here \in World, NEW there \in World, Sound(there),
         Leads(T, es, order, direction, found, here, there),
         AgreeBut(T, here, state),
         NEW a \in Ats, Sofar(Start, es, order, direction, found, Len(order), a),
         Finish(a)
  PROVE  AgreeBut(T, there, state')
<1> DEFINE N == Len(order)
<1>1. /\ N \in Nat
      /\ \A i \in 1 .. N : order[i] \in 1 .. Len(es)
  BY DEF OrderOf
<1>2. here[Pipeline] = Registered
  BY Apart DEF AgreeBut, Registered
<1>3. \A o : \/ Never(es, order, o, N)
             \/ \E i : Latest(es, order, o, N, i)
  <2> SUFFICES ASSUME NEW o, ~Never(es, order, o, N)
               PROVE  \E i : Latest(es, order, o, N, i)
    OBVIOUS
  <2> DEFINE S == {i \in 1 .. N : Updates(es[order[i]], o)}
  <2>1. S \in SUBSET (1 .. N) /\ S # {}
    BY DEF Never
  <2>2. PICK i \in S : \A j \in S : j <= i
    <3> HIDE DEF S
    <3> QED
      BY <1>1, <2>1, HasLast
  <2> QED
    BY <2>2 DEF Latest
<1>4. /\ Start.state = state /\ Start.alive = Registered
  BY StartIs
<1>5. a.state[Pipeline] = there[Pipeline]
  <2>1. CASE Never(es, order, Pipeline, N)
    <3>1. a.state[Pipeline] = state[Pipeline]
      BY <1>4, <2>1 DEF Sofar
    <3>2. here[Pipeline] = there[Pipeline]
      BY <2>1, Apart DEF Leads, Has
    <3> QED
      BY <1>2, <3>1, <3>2 DEF Registered
  <2>2. ASSUME NEW i, Latest(es, order, Pipeline, N, i)
        PROVE  a.state[Pipeline] = there[Pipeline]
    <3>1. a.state[Pipeline] = Target(es[order[i]], direction)
      BY <2>2 DEF Sofar
    <3>2. Target(es[order[i]], direction) = there[Pipeline]
      BY <2>2, Apart DEF Leads, Has
    <3> QED
      BY <3>1, <3>2
  <2> QED
    BY <1>3, <2>1, <2>2
<1>6. /\ Registered' = there[Pipeline]
      /\ \A p \in Proxies :
           state'[p] = IF p \in Registered' THEN a.state[p] ELSE NoState
  BY <1>5, Finishing
<1>7. ASSUME NEW p \in Proxies \ T PROVE state'[p] = there[p]
  <2>1. CASE p \notin there[Pipeline]
    BY <1>6, <2>1 DEF Sound
  <2>2. CASE p \in there[Pipeline]
    <3>1. state'[p] = a.state[p] /\ p \in a.alive
      BY <1>5, <1>6, <2>2 DEF Ats
    <3>2. ASSUME NEW i, Latest(es, order, p, N, i) PROVE a.state[p] = there[p]
      <4>1. a.state[p] = Target(es[order[i]], direction)
        BY <3>2 DEF Sofar
      <4>2. Target(es[order[i]], direction) = there[p]
        BY <2>2, <3>2, Apart DEF Leads, Has
      <4> QED
        BY <4>1, <4>2
    <3>3. CASE Never(es, order, p, N) /\ p \in Registered
      <4>1. a.state[p] = state[p]
        BY <1>4, <3>3 DEF Sofar
      <4>2. here[p] = there[p] /\ here[p] = state[p]
        BY <1>2, <2>2, <3>3, Apart DEF Leads, Has, AgreeBut
      <4> QED
        BY <3>1, <4>1, <4>2
    <3>4. CASE Never(es, order, p, N) /\ p \notin Registered
      <4>1. a.state[p] = found[p]
        BY <1>4, <3>1, <3>4 DEF Sofar
      <4>2. found[p] = there[p]
        BY <1>2, <2>2, <3>4 DEF Leads
      <4> QED
        BY <3>1, <4>1, <4>2
    <3> QED
      BY <1>3, <3>1, <3>2, <3>3, <3>4
  <2> QED
    BY <2>1, <2>2
<1> QED
  BY <1>6, <1>7 DEF AgreeBut, Objects, Registered

-----------------------------------------------------------------------------
(* What the sets tell of the history                                       *)

\* Each set begins where the one before ends.
Chained(T, tl) ==
  \A i \in 1 .. Len(tl) - 1 : AgreeBut(T, tl[i].to, tl[i + 1].from)

\* The application is between the sets that can be undone and the others.
Now(T, tl, n, w) ==
  /\ n > 0 => AgreeBut(T, tl[n].to, w)
  /\ n < Len(tl) => AgreeBut(T, tl[n + 1].from, w)

Told(T, C, tl) ==
  \A i \in 1 .. Len(tl) : Tells(T, C, tl[i].elements, tl[i].from, tl[i].to)

\* A proxy is created in one set at most, and deleted in one at most.
Once(tl) ==
  \A i \in 1 .. Len(tl) : \A p \in Proxies :
    /\ p \in tl[i].from[Pipeline] /\ p \notin tl[i].to[Pipeline] =>
         \A j \in i .. Len(tl) : p \notin tl[j].to[Pipeline]
    /\ p \in tl[i].to[Pipeline] /\ p \notin tl[i].from[Pipeline] =>
         \A j \in 1 .. i : p \notin tl[j].from[Pipeline]

\* What undoing and redoing delete can be created again.
Restorable(T, C, tl, n) ==
  /\ \A i \in 1 .. n : Kept(T, C, tl[i].elements, tl[i].from, tl[i].to)
  /\ \A i \in n + 1 .. Len(tl) : Kept(T, C, tl[i].elements, tl[i].to, tl[i].from)

\* A proxy that some set has.
InTime(tl, p) ==
  \E i \in 1 .. Len(tl) : p \in tl[i].from[Pipeline] \/ p \in tl[i].to[Pipeline]

\* The open set tells of the states from w to s; what it creates is new.
Opened(T, C, tl, es, w, s) ==
  /\ Tells(T, C, es, w, s) /\ Kept(T, C, es, w, s)
  /\ \A p \in Proxies : p \in s[Pipeline] /\ p \notin w[Pipeline] => ~InTime(tl, p)

Chronicle(T, C, tl, n, es, w, s) ==
  /\ Chained(T, tl) /\ Now(T, tl, n, w) /\ Told(T, C, tl)
  /\ Once(tl) /\ Restorable(T, C, tl, n)
  /\ Opened(T, C, tl, es, w, s)

\* With more objects left out, and what they do left out.
LEMMA TellsLess ==
  ASSUME NEW T, NEW U, T \subseteq U, NEW C, NEW D,
         \A p \in Proxies : C[p] # NoState => D[p] # NoState,
         NEW es, NEW w, NEW s, NEW x, NEW y, AgreeBut(U, w, x), AgreeBut(U, s, y),
         w[Pipeline] = x[Pipeline], s[Pipeline] = y[Pipeline],
         Tells(T, C, es, w, s)
  PROVE  Tells(U, D, es, x, y)
<1>1. \A o : (Has(x, o) <=> Has(w, o)) /\ (Has(y, o) <=> Has(s, o))
  BY DEF Has
<1>2. \A o \in Objects \ U : o \in Objects \ T /\ w[o] = x[o] /\ s[o] = y[o]
  BY DEF AgreeBut
<1>3. Leaves(U, es, x, y)
  BY <1>1, <1>2 DEF Tells, Leaves
<1>4. Peopled(es, x, y) /\ Known(D, es, x, y)
  BY DEF Tells, Peopled, Known
<1> QED
  BY <1>3, <1>4 DEF Tells

LEMMA KeptLess ==
  ASSUME NEW T, NEW U, T \subseteq U, NEW C, NEW D, NEW es, NEW w, NEW s, NEW x, NEW y,
         AgreeBut(U, w, x), w[Pipeline] = x[Pipeline], s[Pipeline] = y[Pipeline],
         \A p \in Proxies \ U :
           p \in w[Pipeline] /\ p \notin s[Pipeline] => D[p] = C[p],
         Kept(T, C, es, w, s)
  PROVE  Kept(U, D, es, x, y)
BY DEF Kept, AgreeBut, Objects

LEMMA AgreeLess ==
  ASSUME NEW T, NEW U, T \subseteq U, NEW w, NEW s, NEW x, AgreeBut(T, w, s),
         AgreeBut(U, s, x)
  PROVE  AgreeBut(U, w, x)
BY DEF AgreeBut

LEMMA AgreesItself == ASSUME NEW T, NEW w PROVE AgreeBut(T, w, w)
BY DEF AgreeBut

\* What happens behind the back of the stack does not matter if the objects are
\* left out.
LEMMA BehindKeeps ==
  ASSUME NEW T, NEW U, T \subseteq U, NEW C, NEW D,
         \A p \in Proxies : C[p] # NoState => D[p] # NoState,
         \A p \in Proxies \ U : D[p] = C[p],
         NEW tl, NEW n, NEW es, NEW w, NEW s, NEW x, NEW y,
         AgreeBut(U, w, x), AgreeBut(U, s, y),
         w[Pipeline] = x[Pipeline], s[Pipeline] = y[Pipeline],
         Chronicle(T, C, tl, n, es, w, s)
  PROVE  Chronicle(U, D, tl, n, es, x, y)
<1>1. Chained(U, tl)
  BY DEF Chronicle, Chained, AgreeBut
<1>2. Now(U, tl, n, x)
  BY AgreeLess DEF Chronicle, Now
<1>3. Told(U, D, tl)
  BY TellsLess, AgreesItself DEF Chronicle, Told
<1>4. Restorable(U, D, tl, n)
  BY KeptLess, AgreesItself DEF Chronicle, Restorable
<1>5. Opened(U, D, tl, es, x, y)
  <2>1. Tells(U, D, es, x, y)
    BY TellsLess DEF Chronicle, Opened
  <2>2. Kept(U, D, es, x, y)
    BY KeptLess DEF Chronicle, Opened
  <2> QED
    BY <2>1, <2>2 DEF Chronicle, Opened
<1> QED
  BY <1>1, <1>2, <1>3, <1>4, <1>5 DEF Chronicle

\* No element, no change.
LEMMA NothingTold ==
  ASSUME NEW T, NEW C, NEW s, \A p \in Proxies : p \in s[Pipeline] => C[p] # NoState
  PROVE  Tells(T, C, <<>>, s, s) /\ Kept(T, C, <<>>, s, s)
<1>1. \A o : Own(<<>>, o) = {}
  BY DEF Own
<1> QED
  BY <1>1 DEF Tells, Leaves, Peopled, Known, Kept, IsFirst, IsLast

\* A set whose objects are left out changes nothing else.
LEMMA TellsNothing ==
  ASSUME NEW T, Pipeline \notin T, NEW C, NEW es, NEW w \in World, Sound(w),
         NEW s \in World, Sound(s), Tells(T, C, es, w, s),
         \A o \in Objects \ T : Own(es, o) = {}
  PROVE  AgreeBut(T, w, s) /\ w[Pipeline] = s[Pipeline]
<1>1. w[Pipeline] = s[Pipeline]
  BY Apart DEF Tells, Leaves, Has
<1>2. ASSUME NEW o \in Objects \ T PROVE w[o] = s[o]
  <2>1. CASE Has(w, o)
    BY <1>1, <2>1 DEF Tells, Leaves, Has
  <2>2. CASE ~Has(w, o)
    BY <1>1, <2>2 DEF Has, Sound, Objects
  <2> QED
    BY <2>1, <2>2
<1> QED
  BY <1>1, <1>2 DEF AgreeBut

\* The worlds of the sets.
LEMMA WorldsOf ==
  ASSUME NEW tl \in Seq(Sets), NEW i \in 1 .. Len(tl)
  PROVE  /\ tl[i].from \in World /\ Sound(tl[i].from)
         /\ tl[i].to \in World /\ Sound(tl[i].to)
         /\ tl[i].elements \in Seq(Elements)
<1>1. tl[i] \in Sets
  OBVIOUS
<1> QED
  BY <1>1 DEF Sets

\* A set whose objects are left out is undone: nothing else is said.
LEMMA BackWithin ==
  ASSUME NEW T, Pipeline \notin T, NEW C, NEW tl \in Seq(Sets), NEW n \in 1 .. Len(tl),
         NEW es, NEW w, NEW s, Chronicle(T, C, tl, n, es, w, s),
         \A o \in Objects \ T : Own(tl[n].elements, o) = {}
  PROVE  Chronicle(T, C, tl, n - 1, es, w, s)
<1>1. /\ n \in Nat /\ Len(tl) \in Nat /\ n - 1 + 1 = n
      /\ n - 1 > 0 => n - 1 \in 1 .. Len(tl) - 1
      /\ \A i \in 1 .. n - 1 : i \in 1 .. n
      /\ \A i \in n .. Len(tl) : i = n \/ i \in n + 1 .. Len(tl)
  OBVIOUS
<1>2. Tells(T, C, tl[n].elements, tl[n].from, tl[n].to)
  BY DEF Chronicle, Told
<1>3. /\ AgreeBut(T, tl[n].from, tl[n].to)
      /\ tl[n].from[Pipeline] = tl[n].to[Pipeline]
  BY <1>2, WorldsOf, TellsNothing
<1>4. AgreeBut(T, tl[n].to, w)
  BY <1>1 DEF Chronicle, Now
<1>5. Now(T, tl, n - 1, w)
  <2>1. AgreeBut(T, tl[n].from, w)
    BY <1>3, <1>4 DEF AgreeBut
  <2>2. ASSUME n - 1 > 0 PROVE AgreeBut(T, tl[n - 1].to, w)
    <3>1. AgreeBut(T, tl[n - 1].to, tl[n].from)
      BY <1>1, <2>2 DEF Chronicle, Chained
    <3> QED
      BY <2>1, <3>1 DEF AgreeBut
  <2> QED
    BY <1>1, <2>1, <2>2 DEF Now
<1>6. Restorable(T, C, tl, n - 1)
  <2>1. Kept(T, C, tl[n].elements, tl[n].to, tl[n].from)
    BY <1>3 DEF Kept
  <2> QED
    BY <1>1, <2>1 DEF Chronicle, Restorable
<1> QED
  BY <1>5, <1>6 DEF Chronicle

LEMMA ForthWithin ==
  ASSUME NEW T, Pipeline \notin T, NEW C, NEW tl \in Seq(Sets),
         NEW n \in 0 .. Len(tl) - 1,
         NEW es, NEW w, NEW s, Chronicle(T, C, tl, n, es, w, s),
         \A o \in Objects \ T : Own(tl[n + 1].elements, o) = {}
  PROVE  Chronicle(T, C, tl, n + 1, es, w, s)
<1> DEFINE m == n + 1
<1>1. /\ n \in Nat /\ Len(tl) \in Nat /\ m \in 1 .. Len(tl) /\ n < Len(tl) /\ m > 0
      /\ m < Len(tl) => m \in 1 .. Len(tl) - 1
      /\ \A i \in 1 .. m : i = m \/ i \in 1 .. n
      /\ \A i \in m + 1 .. Len(tl) : i \in n + 1 .. Len(tl)
  OBVIOUS
<1>2. Tells(T, C, tl[m].elements, tl[m].from, tl[m].to)
  BY <1>1 DEF Chronicle, Told
<1>3. /\ AgreeBut(T, tl[m].from, tl[m].to)
      /\ tl[m].from[Pipeline] = tl[m].to[Pipeline]
  BY <1>1, <1>2, WorldsOf, TellsNothing
<1>4. AgreeBut(T, tl[m].from, w)
  BY <1>1 DEF Chronicle, Now
<1>5. Now(T, tl, m, w)
  <2>1. AgreeBut(T, tl[m].to, w)
    BY <1>3, <1>4 DEF AgreeBut
  <2>2. ASSUME m < Len(tl) PROVE AgreeBut(T, tl[m + 1].from, w)
    <3>1. AgreeBut(T, tl[m].to, tl[m + 1].from)
      BY <1>1, <2>2 DEF Chronicle, Chained
    <3> QED
      BY <2>1, <3>1 DEF AgreeBut
  <2> QED
    BY <1>1, <2>1, <2>2 DEF Now
<1>6. Restorable(T, C, tl, m)
  <2>1. Kept(T, C, tl[m].elements, tl[m].from, tl[m].to)
    BY <1>3 DEF Kept
  <2> QED
    BY <1>1, <2>1 DEF Chronicle, Restorable
<1> QED
  BY <1>5, <1>6 DEF Chronicle

\* What changes in the session is what is registered.
Learns(C, D, y) ==
  /\ \A p \in Proxies : C[p] # NoState => D[p] # NoState
  /\ \A p \in Proxies : p \notin y[Pipeline] => D[p] = C[p]
  /\ \A p \in Proxies : p \in y[Pipeline] => D[p] # NoState

\* The proxies that a set before or after the nth creates or deletes are not
\* registered where the nth begins or ends.
LEMMA Elsewhere ==
  ASSUME NEW T, Pipeline \notin T, NEW tl \in Seq(Sets), Chained(T, tl), Once(tl),
         NEW i \in 1 .. Len(tl), NEW n \in 1 .. Len(tl), NEW p \in Proxies
  PROVE  /\ /\ i < n
            /\ p \in tl[i].from[Pipeline] /\ p \notin tl[i].to[Pipeline]
            => p \notin tl[n].from[Pipeline] /\ p \notin tl[n].to[Pipeline]
         /\ /\ n < i
            /\ p \in tl[i].to[Pipeline] /\ p \notin tl[i].from[Pipeline]
            => p \notin tl[n].from[Pipeline] /\ p \notin tl[n].to[Pipeline]
<1>1. i \in Nat /\ n \in Nat /\ Len(tl) \in Nat
  OBVIOUS
<1>2. ASSUME i < n, p \in tl[i].from[Pipeline], p \notin tl[i].to[Pipeline]
      PROVE  p \notin tl[n].from[Pipeline] /\ p \notin tl[n].to[Pipeline]
  <2>1. /\ n \in i .. Len(tl) /\ n - 1 \in i .. Len(tl)
        /\ n - 1 \in 1 .. Len(tl) - 1 /\ n - 1 + 1 = n
    BY <1>1, <1>2
  <2>2. p \notin tl[n].to[Pipeline] /\ p \notin tl[n - 1].to[Pipeline]
    BY <1>2, <2>1 DEF Once
  <2>3. tl[n - 1].to[Pipeline] = tl[n].from[Pipeline]
    BY <2>1, Apart DEF Chained, AgreeBut
  <2> QED
    BY <2>2, <2>3
<1>3. ASSUME n < i, p \in tl[i].to[Pipeline], p \notin tl[i].from[Pipeline]
      PROVE  p \notin tl[n].from[Pipeline] /\ p \notin tl[n].to[Pipeline]
  <2>1. n \in 1 .. i /\ n + 1 \in 1 .. i /\ n \in 1 .. Len(tl) - 1
    BY <1>1, <1>3
  <2>2. p \notin tl[n].from[Pipeline] /\ p \notin tl[n + 1].from[Pipeline]
    BY <1>3, <2>1 DEF Once
  <2>3. tl[n].to[Pipeline] = tl[n + 1].from[Pipeline]
    BY <2>1, Apart DEF Chained, AgreeBut
  <2> QED
    BY <2>2, <2>3
<1> QED
  BY <1>2, <1>3

\* A set is undone outside all sections.
LEMMA BackOutside ==
  ASSUME NEW T, Pipeline \notin T, NEW C, NEW tl \in Seq(Sets), NEW n \in 1 .. Len(tl),
         NEW s, Chronicle(T, C, tl, n, <<>>, s, s),
         \A p \in Proxies : p \in s[Pipeline] => C[p] = s[p],
         NEW D, NEW y, AgreeBut(T, tl[n].from, y), Learns(C, D, y)
  PROVE  Chronicle(T, D, tl, n - 1, <<>>, y, y)
<1>1. /\ n \in Nat /\ Len(tl) \in Nat /\ n - 1 + 1 = n /\ n > 0
      /\ n - 1 > 0 => n - 1 \in 1 .. Len(tl) - 1
      /\ \A i \in 1 .. n - 1 : i \in 1 .. n /\ i < n /\ i \in 1 .. Len(tl)
      /\ \A i \in n .. Len(tl) : i = n \/ (i \in n + 1 .. Len(tl) /\ n < i)
      /\ \A i \in n .. Len(tl) : i \in 1 .. Len(tl)
  OBVIOUS
<1>2. /\ Chained(T, tl) /\ Once(tl) /\ Restorable(T, C, tl, n)
      /\ AgreeBut(T, tl[n].to, s)
  BY <1>1 DEF Chronicle, Now
<1>3. y[Pipeline] = tl[n].from[Pipeline] /\ s[Pipeline] = tl[n].to[Pipeline]
  BY <1>2, Apart DEF AgreeBut
<1>4. Told(T, D, tl)
  BY TellsLess, AgreesItself DEF Chronicle, Told, Learns
<1>5. Now(T, tl, n - 1, y)
  <2>1. ASSUME n - 1 > 0 PROVE AgreeBut(T, tl[n - 1].to, y)
    <3>1. AgreeBut(T, tl[n - 1].to, tl[n].from)
      BY <1>1, <1>2, <2>1 DEF Chained
    <3> QED
      BY <3>1 DEF AgreeBut
  <2> QED
    BY <1>1, <2>1 DEF Now
<1>6. ASSUME NEW i \in 1 .. n - 1
      PROVE  Kept(T, D, tl[i].elements, tl[i].from, tl[i].to)
  <2>1. Kept(T, C, tl[i].elements, tl[i].from, tl[i].to)
    BY <1>1, <1>2 DEF Restorable
  <2>2. ASSUME NEW p \in Proxies, p \in tl[i].from[Pipeline], p \notin tl[i].to[Pipeline]
        PROVE  D[p] = C[p]
    BY <1>1, <1>2, <1>3, <2>2, Elsewhere DEF Learns
  <2> QED
    BY <2>1, <2>2 DEF Kept
<1>7. ASSUME NEW i \in n .. Len(tl)
      PROVE  Kept(T, D, tl[i].elements, tl[i].to, tl[i].from)
  <2>1. CASE i = n
    <3> SUFFICES ASSUME NEW p \in Proxies \ T,
                        p \in tl[n].to[Pipeline], p \notin tl[n].from[Pipeline]
                 PROVE  D[p] = tl[n].to[p]
      BY <2>1 DEF Kept
    <3>1. D[p] = C[p] /\ C[p] = s[p]
      BY <1>3 DEF Learns
    <3>2. s[p] = tl[n].to[p]
      BY <1>2, Apart DEF AgreeBut
    <3> QED
      BY <3>1, <3>2
  <2>2. CASE i \in n + 1 .. Len(tl) /\ n < i
    <3>1. Kept(T, C, tl[i].elements, tl[i].to, tl[i].from)
      BY <1>2, <2>2 DEF Restorable
    <3>2. ASSUME NEW p \in Proxies, p \in tl[i].to[Pipeline], p \notin tl[i].from[Pipeline]
          PROVE  D[p] = C[p]
      BY <1>1, <1>2, <1>3, <2>2, <3>2, Elsewhere DEF Learns
    <3> QED
      BY <3>1, <3>2 DEF Kept
  <2> QED
    BY <1>1, <2>1, <2>2
<1>8. Restorable(T, D, tl, n - 1)
  BY <1>1, <1>6, <1>7 DEF Restorable
<1>9. Opened(T, D, tl, <<>>, y, y)
  BY NothingTold DEF Opened, Learns
<1> QED
  BY <1>2, <1>4, <1>5, <1>8, <1>9 DEF Chronicle

\* A set is redone outside all sections.
LEMMA ForthOutside ==
  ASSUME NEW T, Pipeline \notin T, NEW C, NEW tl \in Seq(Sets),
         NEW n \in 0 .. Len(tl) - 1,
         NEW s, Chronicle(T, C, tl, n, <<>>, s, s),
         \A p \in Proxies : p \in s[Pipeline] => C[p] = s[p],
         NEW D, NEW y, AgreeBut(T, tl[n + 1].to, y), Learns(C, D, y)
  PROVE  Chronicle(T, D, tl, n + 1, <<>>, y, y)
<1> DEFINE m == n + 1
<1>1. /\ n \in Nat /\ Len(tl) \in Nat /\ m \in 1 .. Len(tl) /\ n < Len(tl) /\ m > 0
      /\ m \in Nat
      /\ m < Len(tl) => m \in 1 .. Len(tl) - 1
      /\ \A i \in 1 .. m : i = m \/ (i \in 1 .. n /\ i < m)
      /\ \A i \in 1 .. m : i \in 1 .. Len(tl)
      /\ \A i \in m + 1 .. Len(tl) : i \in n + 1 .. Len(tl) /\ m < i /\ i \in 1 .. Len(tl)
  OBVIOUS
<1>2. /\ Chained(T, tl) /\ Once(tl) /\ Restorable(T, C, tl, n)
      /\ AgreeBut(T, tl[m].from, s)
  BY <1>1 DEF Chronicle, Now
<1>3. y[Pipeline] = tl[m].to[Pipeline] /\ s[Pipeline] = tl[m].from[Pipeline]
  BY <1>2, Apart DEF AgreeBut
<1>4. Told(T, D, tl)
  BY TellsLess, AgreesItself DEF Chronicle, Told, Learns
<1>5. Now(T, tl, m, y)
  <2>1. ASSUME m < Len(tl) PROVE AgreeBut(T, tl[m + 1].from, y)
    <3>1. AgreeBut(T, tl[m].to, tl[m + 1].from)
      BY <1>1, <1>2, <2>1 DEF Chained
    <3> QED
      BY <3>1 DEF AgreeBut
  <2> QED
    BY <1>1, <2>1 DEF Now
<1> HIDE DEF m
<1>6. ASSUME NEW i \in m + 1 .. Len(tl)
      PROVE  Kept(T, D, tl[i].elements, tl[i].to, tl[i].from)
  <2>1. Kept(T, C, tl[i].elements, tl[i].to, tl[i].from)
    BY <1>1, <1>2 DEF Restorable
  <2>2. ASSUME NEW p \in Proxies, p \in tl[i].to[Pipeline], p \notin tl[i].from[Pipeline]
        PROVE  D[p] = C[p]
    BY <1>1, <1>2, <1>3, <2>2, Elsewhere DEF Learns
  <2> QED
    BY <2>1, <2>2 DEF Kept
<1>7. ASSUME NEW i \in 1 .. m
      PROVE  Kept(T, D, tl[i].elements, tl[i].from, tl[i].to)
  <2>1. CASE i = m
    <3> SUFFICES ASSUME NEW p \in Proxies \ T,
                        p \in tl[m].from[Pipeline], p \notin tl[m].to[Pipeline]
                 PROVE  D[p] = tl[m].from[p]
      BY <2>1 DEF Kept
    <3>1. D[p] = C[p] /\ C[p] = s[p]
      BY <1>3 DEF Learns
    <3>2. s[p] = tl[m].from[p]
      BY <1>2, Apart DEF AgreeBut
    <3> QED
      BY <3>1, <3>2
  <2>2. CASE i \in 1 .. n /\ i < m
    <3>1. Kept(T, C, tl[i].elements, tl[i].from, tl[i].to)
      BY <1>2, <2>2 DEF Restorable
    <3>2. ASSUME NEW p \in Proxies, p \in tl[i].from[Pipeline], p \notin tl[i].to[Pipeline]
          PROVE  D[p] = C[p]
      BY <1>1, <1>2, <1>3, <2>2, <3>2, Elsewhere DEF Learns
    <3> QED
      BY <3>1, <3>2 DEF Kept
  <2> QED
    BY <1>1, <2>1, <2>2
<1>8. Restorable(T, D, tl, m)
  BY <1>1, <1>6, <1>7 DEF Restorable
<1>9. Opened(T, D, tl, <<>>, y, y)
  BY NothingTold DEF Opened, Learns
<1> QED
  BY <1>2, <1>4, <1>5, <1>8, <1>9 DEF Chronicle, m

\* The elements with one more.
LEMMA AppendOwn ==
  ASSUME NEW es \in Seq(Elements), NEW e \in Elements
  PROVE  LET N == Len(es) l == Append(es, e) IN
         /\ N \in Nat /\ l \in Seq(Elements) /\ l[N + 1] = e
         /\ \A o : /\ \A i \in Own(es, o) : i \in 1 .. N /\ i < N + 1 /\ l[i] = es[i]
                   /\ Updates(e, o) => Own(l, o) = Own(es, o) \cup {N + 1}
                   /\ ~Updates(e, o) => Own(l, o) = Own(es, o)
<1> DEFINE N == Len(es)  l == Append(es, e)
<1>1. /\ N \in Nat /\ l \in Seq(Elements) /\ Len(l) = N + 1 /\ l[N + 1] = e
      /\ \A i \in 1 .. N : l[i] = es[i]
      /\ \A i : i \in 1 .. N + 1 <=> i \in 1 .. N \/ i = N + 1
      /\ \A i \in 1 .. N : i < N + 1
      /\ N + 1 \notin 1 .. N
  OBVIOUS
<1> HIDE DEF l
<1> QED
  BY <1>1 DEF Own, l

\* An element that makes a proxy modified or not tells nothing else.
LEMMA TellsModified ==
  ASSUME NEW es \in Seq(Elements), NEW e \in Elements, \A o : ~Updates(e, o),
         NEW T, NEW C, NEW tl, NEW w, NEW s, Opened(T, C, tl, es, w, s)
  PROVE  Opened(T, C, tl, Append(es, e), w, s)
<1> DEFINE l == Append(es, e)
<1>1. \A o : Own(l, o) = Own(es, o) /\ \A i \in Own(es, o) : l[i] = es[i]
  BY AppendOwn
<1> HIDE DEF l
<1>2. Leaves(T, l, w, s)
  BY <1>1 DEF Opened, Tells, Leaves, IsFirst, IsLast
<1>3. Peopled(l, w, s) /\ Known(C, l, w, s)
  BY <1>1 DEF Opened, Tells, Peopled, Known
<1>4. Kept(T, C, l, w, s)
  BY <1>1 DEF Opened, Kept
<1> QED
  BY <1>2, <1>3, <1>4 DEF Opened, Tells, l

\* A change of one proxy, and the element that records it: the proxy has
\* another state, is new, or is deleted.
Alters(C, s, e, p, D, y) ==
  /\ \A q \in Proxies : q # p =>
       y[q] = s[q] /\ D[q] = C[q] /\ (q \in y[Pipeline] <=> q \in s[Pipeline])
  /\ \/ /\ Updates(e, p) /\ e.before = s[p] /\ e.after = y[p]
        /\ p \in s[Pipeline] /\ y[Pipeline] = s[Pipeline] /\ D[p] # NoState
     \/ /\ Updates(e, Pipeline)
        /\ e.before = s[Pipeline] /\ e.after = y[Pipeline]
        /\ \/ C[p] = NoState /\ D[p] # NoState
           \/ p \in s[Pipeline] /\ p \notin y[Pipeline] /\ D[p] = C[p]

\* The open set tells of one more change.
LEMMA TellsMore ==
  ASSUME NEW es \in Seq(Elements), NEW e \in Elements,
         NEW T, Pipeline \notin T, NEW C, NEW D,
         NEW w \in World, NEW s \in World, NEW y \in World,
         \A q \in Proxies : q \in s[Pipeline] => C[q] # NoState /\ C[q] = s[q],
         Tells(T, C, es, w, s), Kept(T, C, es, w, s),
         NEW p \in Proxies, Alters(C, s, e, p, D, y)
  PROVE  Tells(T, D, Append(es, e), w, y) /\ Kept(T, D, Append(es, e), w, y)
<1> DEFINE N == Len(es)  l == Append(es, e)
<1>1. /\ N \in Nat /\ l[N + 1] = e
      /\ \A o : /\ \A i \in Own(es, o) : i \in 1 .. N /\ i < N + 1 /\ l[i] = es[i]
                /\ Updates(e, o) => Own(l, o) = Own(es, o) \cup {N + 1}
                /\ ~Updates(e, o) => Own(l, o) = Own(es, o)
  BY AppendOwn
<1> HIDE DEF l, N
<1>2. \A o, x : Updates(e, o) /\ Updates(e, x) => o = x
  BY DEF Updates
<1>3. /\ Leaves(T, es, w, s) /\ Peopled(es, w, s) /\ Known(C, es, w, s)
      /\ w[Pipeline] \in SUBSET Proxies /\ s[Pipeline] \in SUBSET Proxies
      /\ y[Pipeline] \in SUBSET Proxies
      /\ p # Pipeline /\ Pipeline \in Objects \ T
  BY WorldIs, Apart DEF Tells
<1>4. \* only what is registered is updated
      \A o : Updates(e, o) => o \in {p, Pipeline} /\ Has(s, o)
                              /\ e.before = s[o] /\ e.after = y[o]
  BY <1>2 DEF Alters, Has
<1>5. \* what is new was never there
      ASSUME C[p] = NoState
      PROVE  p \notin w[Pipeline] /\ p \notin s[Pipeline] /\ Own(es, p) = {}
  BY <1>3, <1>5 DEF Known, Peopled
<1>6. ASSUME NEW o \in Objects, ~Updates(e, o), Has(y, o), Has(w, o) \/ Own(es, o) # {}
      PROVE  Has(s, o) /\ y[o] = s[o]
  <2>1. CASE o = Pipeline
    BY <1>6, <2>1 DEF Alters, Has
  <2>2. CASE o # Pipeline /\ o # p
    BY <1>6, <2>2 DEF Alters, Has, Objects
  <2>3. CASE o = p
    BY <1>3, <1>5, <1>6, <2>3 DEF Alters, Has
  <2> QED
    BY <2>1, <2>2, <2>3
<1>7. Leaves(T, l, w, y)
  <2> SUFFICES ASSUME NEW o \in Objects \ T
               PROVE  /\ Own(l, o) = {} /\ Has(w, o) /\ Has(y, o) => w[o] = y[o]
                      /\ \A i : IsFirst(Own(l, o), i) /\ Has(w, o) => l[i].before = w[o]
                      /\ \A i : IsLast(Own(l, o), i) /\ Has(y, o) => l[i].after = y[o]
    BY DEF Leaves
  <2>0. /\ Own(es, o) = {} /\ Has(w, o) /\ Has(s, o) => w[o] = s[o]
        /\ \A i : IsFirst(Own(es, o), i) /\ Has(w, o) => es[i].before = w[o]
        /\ \A i : IsLast(Own(es, o), i) /\ Has(s, o) => es[i].after = s[o]
    BY <1>3 DEF Leaves
  <2>1. CASE Updates(e, o)
    <3>1. /\ Own(l, o) = Own(es, o) \cup {N + 1}
          /\ \A i \in Own(es, o) : i \in 1 .. N /\ i < N + 1 /\ l[i] = es[i]
          /\ Has(s, o) /\ e.before = s[o] /\ e.after = y[o]
      BY <1>1, <1>4, <2>1
    <3>2. ASSUME NEW i, IsFirst(Own(l, o), i), Has(w, o) PROVE l[i].before = w[o]
      <4>1. CASE Own(es, o) = {}
        <5>1. i = N + 1
          BY <3>1, <3>2, <4>1 DEF IsFirst
        <5> QED
          BY <1>1, <2>0, <3>1, <3>2, <4>1, <5>1
      <4>2. CASE Own(es, o) # {}
        <5>1. i # N + 1
          BY <1>1, <3>1, <3>2, <4>2 DEF IsFirst
        <5>2. IsFirst(Own(es, o), i)
          BY <3>1, <3>2, <5>1 DEF IsFirst
        <5> QED
          BY <2>0, <3>1, <3>2, <5>2 DEF IsFirst
      <4> QED
        BY <4>1, <4>2
    <3>3. ASSUME NEW i, IsLast(Own(l, o), i) PROVE l[i].after = y[o]
      <4>1. i = N + 1
        BY <1>1, <3>1, <3>3 DEF IsLast
      <4> QED
        BY <1>1, <3>1, <4>1
    <3> QED
      BY <3>1, <3>2, <3>3
  <2>2. CASE ~Updates(e, o)
    <3>1. Own(l, o) = Own(es, o) /\ \A i \in Own(es, o) : l[i] = es[i]
      BY <1>1, <2>2
    <3>2. Has(y, o) /\ (Has(w, o) \/ Own(es, o) # {}) => Has(s, o) /\ y[o] = s[o]
      BY <1>6, <2>2
    <3> QED
      BY <2>0, <3>1, <3>2 DEF IsFirst, IsLast
  <2> QED
    BY <2>1, <2>2
<1>8. \* what is registered was so at first, or an element registers it
      ASSUME NEW q \in Proxies, q \in s[Pipeline], q \notin w[Pipeline]
      PROVE  \E j \in Own(es, Pipeline) : q \in es[j].after
  <2>1. Own(es, Pipeline) # {}
    BY <1>3, <1>8 DEF Leaves, Has
  <2>2. Own(es, Pipeline) \in SUBSET (1 .. N)
    BY DEF Own, N
  <2>3. PICK j \in Own(es, Pipeline) : \A i \in Own(es, Pipeline) : i <= j
    BY <1>1, <2>1, <2>2, HasLast
  <2>4. es[j].after = s[Pipeline]
    BY <1>3, <2>3 DEF Leaves, Has, IsLast
  <2> QED
    BY <1>8, <2>4
<1>9. Own(es, Pipeline) \subseteq Own(l, Pipeline)
      /\ \A o : \A j \in Own(es, o) : l[j] = es[j]
  BY <1>1
<1>10. Peopled(l, w, y)
  <2> SUFFICES ASSUME NEW q \in Proxies, NEW i \in Own(l, q)
               PROVE  /\ \/ q \in w[Pipeline]
                         \/ \E j \in Own(l, Pipeline) : j < i /\ q \in l[j].after
                      /\ \/ q \in y[Pipeline]
                         \/ \E j \in Own(l, Pipeline) : i < j /\ q \in l[j].before
    BY DEF Peopled
  <2>1. CASE i \in Own(es, q)
    <3>1. /\ q \in w[Pipeline] \/ \E j \in Own(es, Pipeline) : j < i /\ q \in es[j].after
          /\ q \in s[Pipeline] \/ \E j \in Own(es, Pipeline) : i < j /\ q \in es[j].before
      BY <1>3, <2>1 DEF Peopled
    <3>2. ASSUME q \in s[Pipeline], q \notin y[Pipeline]
          PROVE  \E j \in Own(l, Pipeline) : i < j /\ q \in l[j].before
      <4>1. Updates(e, Pipeline) /\ e.before = s[Pipeline]
        BY <3>2 DEF Alters
      <4>2. N + 1 \in Own(l, Pipeline) /\ i < N + 1
        BY <1>1, <2>1, <4>1
      <4> QED
        BY <1>1, <3>2, <4>1, <4>2
    <3> QED
      BY <1>9, <3>1, <3>2
  <2>2. CASE i \notin Own(es, q)
    <3>1. Updates(e, q) /\ i = N + 1
      BY <1>1, <2>2
    <3>2. q = p /\ p \in s[Pipeline] /\ y[Pipeline] = s[Pipeline]
      BY <1>2, <3>1, Apart DEF Alters
    <3>3. ASSUME q \notin w[Pipeline]
          PROVE  \E j \in Own(l, Pipeline) : j < i /\ q \in l[j].after
      <4>1. PICK j \in Own(es, Pipeline) : q \in es[j].after
        BY <1>8, <3>2, <3>3
      <4> QED
        BY <1>1, <1>9, <3>1, <4>1
    <3> QED
      BY <3>2, <3>3
  <2> QED
    BY <2>1, <2>2
<1>11. \A q \in Proxies : C[q] # NoState => D[q] # NoState
  BY DEF Alters
<1>12. \A q \in Proxies : q \in s[Pipeline] \/ q \in y[Pipeline] => D[q] # NoState
  BY <1>11 DEF Alters
<1>13. Known(D, l, w, y)
  <2>1. \A q \in Proxies : q \in w[Pipeline] => D[q] # NoState
    BY <1>3, <1>11 DEF Known
  <2>2. ASSUME NEW j \in Own(l, Pipeline), NEW q \in Proxies,
               q \in l[j].before \/ q \in l[j].after
        PROVE  D[q] # NoState
    <3>1. CASE j \in Own(es, Pipeline)
      BY <1>3, <1>9, <1>11, <2>2, <3>1 DEF Known
    <3>2. CASE j \notin Own(es, Pipeline)
      <4>1. j = N + 1 /\ Updates(e, Pipeline)
        BY <1>1, <3>2
      <4> QED
        BY <1>1, <1>4, <1>12, <2>2, <4>1
    <3> QED
      BY <3>1, <3>2
  <2> QED
    BY <1>12, <2>1, <2>2 DEF Known
<1>14. Kept(T, D, l, w, y)
  <2> SUFFICES ASSUME NEW q \in Proxies \ T, q \in w[Pipeline], q \notin y[Pipeline],
                      Own(l, q) = {}
               PROVE  D[q] = w[q]
    BY DEF Kept
  <2>1. Own(es, q) = {}
    BY <1>1
  <2>2. D[q] = C[q]
    BY <1>5 DEF Alters
  <2>3. CASE q \notin s[Pipeline]
    BY <2>1, <2>2, <2>3 DEF Kept
  <2>4. CASE q \in s[Pipeline]
    <3>1. w[q] = s[q]
      BY <1>3, <2>1, <2>4, Apart DEF Leaves, Has
    <3> QED
      BY <2>2, <2>4, <3>1
  <2> QED
    BY <2>3, <2>4
<1> QED
  BY <1>7, <1>10, <1>13, <1>14 DEF Tells, l

\* A change of one proxy is recorded in the open set.
LEMMA RecordingTells ==
  ASSUME NEW T, Pipeline \notin T, NEW C, NEW D,
         NEW tl \in Seq(Sets), NEW n \in 0 .. Len(tl), NEW es \in Seq(Elements),
         NEW w \in World, NEW s \in World, NEW y \in World,
         Chronicle(T, C, tl, n, es, w, s),
         \A q \in Proxies : q \in s[Pipeline] => C[q] # NoState /\ C[q] = s[q],
         NEW e \in Elements, NEW p \in Proxies, Alters(C, s, e, p, D, y)
  PROVE  Chronicle(T, D, tl, n, Append(es, e), w, y)
<1>1. /\ n \in Nat /\ Len(tl) \in Nat
      /\ \A i \in 1 .. n : i \in 1 .. Len(tl) /\ n \in 1 .. Len(tl) /\ n > 0
                           /\ (i = n \/ i < n)
      /\ \A i \in n + 1 .. Len(tl) : i \in 1 .. Len(tl) /\ n + 1 \in 1 .. Len(tl)
                                     /\ n < Len(tl) /\ (i = n + 1 \/ n + 1 < i)
  OBVIOUS
<1>2. /\ Chained(T, tl) /\ Now(T, tl, n, w) /\ Told(T, C, tl) /\ Once(tl)
      /\ Restorable(T, C, tl, n) /\ Opened(T, C, tl, es, w, s)
  BY DEF Chronicle
<1>3. Tells(T, C, es, w, s) /\ Kept(T, C, es, w, s)
  BY <1>2 DEF Opened
<1>4. Tells(T, D, Append(es, e), w, y) /\ Kept(T, D, Append(es, e), w, y)
  BY <1>3, TellsMore
<1>5. /\ \A q \in Proxies : C[q] # NoState => D[q] # NoState
      /\ \A q \in Proxies : q # p => D[q] = C[q]
  BY DEF Alters
<1>6. Told(T, D, tl)
  BY <1>2, <1>5, TellsLess, AgreesItself DEF Told
<1>7. ASSUME C[p] = NoState PROVE ~InTime(tl, p)
  BY <1>2, <1>7 DEF Told, Tells, Known, InTime
<1>8. \* what the sets beside the open one have created or deleted is not there
      ASSUME D[p] # C[p], InTime(tl, p) PROVE p \in w[Pipeline]
  <2>1. p \in s[Pipeline]
    BY <1>7, <1>8 DEF Alters
  <2> QED
    BY <1>2, <1>8, <2>1 DEF Opened
<1>9. ASSUME NEW i \in 1 .. n
      PROVE  Kept(T, D, tl[i].elements, tl[i].from, tl[i].to)
  <2>1. Kept(T, C, tl[i].elements, tl[i].from, tl[i].to)
    BY <1>2 DEF Restorable
  <2>2. ASSUME NEW q \in Proxies, q \in tl[i].from[Pipeline], q \notin tl[i].to[Pipeline]
        PROVE  D[q] = C[q]
    <3>1. q \notin tl[n].to[Pipeline]
      BY <1>1, <1>2, <2>2, Elsewhere
    <3>2. tl[n].to[Pipeline] = w[Pipeline]
      BY <1>1, <1>2, Apart DEF Now, AgreeBut
    <3>3. InTime(tl, q)
      BY <1>1, <2>2 DEF InTime
    <3> QED
      BY <1>5, <1>8, <3>1, <3>2, <3>3
  <2> QED
    BY <2>1, <2>2 DEF Kept
<1>10. ASSUME NEW i \in n + 1 .. Len(tl)
       PROVE  Kept(T, D, tl[i].elements, tl[i].to, tl[i].from)
  <2>1. Kept(T, C, tl[i].elements, tl[i].to, tl[i].from)
    BY <1>2 DEF Restorable
  <2>2. ASSUME NEW q \in Proxies, q \in tl[i].to[Pipeline], q \notin tl[i].from[Pipeline]
        PROVE  D[q] = C[q]
    <3>1. q \notin tl[n + 1].from[Pipeline]
      BY <1>1, <1>2, <2>2, Elsewhere
    <3>2. tl[n + 1].from[Pipeline] = w[Pipeline]
      BY <1>1, <1>2, Apart DEF Now, AgreeBut
    <3>3. InTime(tl, q)
      BY <1>1, <2>2 DEF InTime
    <3> QED
      BY <1>5, <1>8, <3>1, <3>2, <3>3
  <2> QED
    BY <2>1, <2>2 DEF Kept
<1>11. Restorable(T, D, tl, n)
  BY <1>9, <1>10 DEF Restorable
<1>12. ASSUME NEW q \in Proxies, q \in y[Pipeline], q \notin w[Pipeline]
       PROVE  ~InTime(tl, q)
  <2>1. CASE q \in s[Pipeline]
    BY <1>2, <1>12, <2>1 DEF Opened
  <2>2. CASE q \notin s[Pipeline]
    BY <1>7, <1>12, <2>2 DEF Alters
  <2> QED
    BY <2>1, <2>2
<1>13. Opened(T, D, tl, Append(es, e), w, y)
  BY <1>4, <1>12 DEF Opened
<1> QED
  BY <1>2, <1>6, <1>11, <1>13 DEF Chronicle

\* The last sets that can be undone tell of the history, too.
LEMMA Forgotten ==
  ASSUME NEW T, NEW C, NEW tl \in Seq(Sets), NEW n \in 0 .. Len(tl),
         NEW es, NEW w, NEW s, Chronicle(T, C, tl, n, es, w, s),
         NEW k \in 0 .. n, NEW t \in Seq(Sets), Len(t) = n - k,
         \A i \in 1 .. Len(t) : t[i] = tl[i + k]
  PROVE  Chronicle(T, C, t, Len(t), es, w, s)
<1> DEFINE m == Len(t)  h == Len(tl)
<1>a. n \in Nat /\ k \in Nat /\ m \in Nat /\ h \in Nat /\ m = n - k /\ n <= h
  OBVIOUS
<1>2. \A i \in 1 .. m : t[i] = tl[i + k]
  OBVIOUS
<1> HIDE DEF m, h
<1>b. \A i \in 1 .. m : i + k \in 1 .. n /\ i + k \in 1 .. h
  BY <1>a
<1>c. \A i \in 1 .. m - 1 : /\ i \in 1 .. m /\ i + 1 \in 1 .. m
                            /\ i + k \in 1 .. h - 1 /\ i + 1 + k = i + k + 1
  BY <1>a
<1>d. \A i \in 1 .. m : \A j \in i .. m : j \in 1 .. m /\ j + k \in i + k .. h
  BY <1>a
<1>e. \A i \in 1 .. m : \A j \in 1 .. i : j \in 1 .. m /\ j + k \in 1 .. i + k
  BY <1>a
<1>f. (m > 0 => m \in 1 .. m /\ m + k = n /\ n > 0) /\ m + 1 .. m = {}
  BY <1>a
<1>1. /\ n \in Nat /\ k \in Nat /\ m \in Nat /\ Len(tl) \in Nat
      /\ \A i \in 1 .. m : i + k \in 1 .. n /\ i + k \in 1 .. Len(tl)
      /\ \A i \in 1 .. m - 1 : /\ i \in 1 .. m /\ i + 1 \in 1 .. m
                               /\ i + k \in 1 .. Len(tl) - 1 /\ i + 1 + k = i + k + 1
      /\ \A i \in 1 .. m : \A j \in i .. m : j \in 1 .. m /\ j + k \in i + k .. Len(tl)
      /\ \A i \in 1 .. m : \A j \in 1 .. i : j \in 1 .. m /\ j + k \in 1 .. i + k
      /\ m > 0 => m \in 1 .. m /\ m + k = n /\ n > 0
      /\ m + 1 .. m = {}
  BY <1>a, <1>b, <1>c, <1>d, <1>e, <1>f DEF h
<1>3. /\ Chained(T, tl) /\ Now(T, tl, n, w) /\ Told(T, C, tl) /\ Once(tl)
      /\ Restorable(T, C, tl, n) /\ Opened(T, C, tl, es, w, s)
  BY DEF Chronicle
<1>4. Chained(T, t)
  <2> SUFFICES ASSUME NEW i \in 1 .. m - 1 PROVE AgreeBut(T, t[i].to, t[i + 1].from)
    BY DEF Chained, m
  <2>1. t[i] = tl[i + k] /\ t[i + 1] = tl[i + k + 1] /\ i + k \in 1 .. Len(tl) - 1
    BY <1>1, <1>2
  <2> QED
    BY <1>3, <2>1 DEF Chained
<1>5. Now(T, t, m, w)
  <2>1. ~(m < Len(t))
    BY <1>1 DEF m
  <2>2. m > 0 => t[m] = tl[n] /\ n > 0
    BY <1>1, <1>2
  <2> QED
    BY <1>3, <2>1, <2>2 DEF Now
<1>6. Told(T, C, t)
  BY <1>1, <1>2, <1>3 DEF Told, m
<1>7. Once(t)
  <2> SUFFICES ASSUME NEW i \in 1 .. m, NEW p \in Proxies
               PROVE  /\ p \in t[i].from[Pipeline] /\ p \notin t[i].to[Pipeline] =>
                           \A j \in i .. m : p \notin t[j].to[Pipeline]
                      /\ p \in t[i].to[Pipeline] /\ p \notin t[i].from[Pipeline] =>
                           \A j \in 1 .. i : p \notin t[j].from[Pipeline]
    BY DEF Once, m
  <2>1. i + k \in 1 .. Len(tl) /\ t[i] = tl[i + k]
    BY <1>1, <1>2
  <2>2. \A j \in i .. m : t[j] = tl[j + k] /\ j + k \in i + k .. Len(tl)
    BY <1>1, <1>2
  <2>3. \A j \in 1 .. i : t[j] = tl[j + k] /\ j + k \in 1 .. i + k
    BY <1>1, <1>2
  <2> QED
    BY <1>3, <2>1, <2>2, <2>3 DEF Once
<1>8. Restorable(T, C, t, m)
  BY <1>1, <1>2, <1>3 DEF Restorable, m
<1>9. \A p : InTime(t, p) => InTime(tl, p)
  BY <1>1, <1>2 DEF InTime, m
<1>10. Opened(T, C, t, es, w, s)
  BY <1>3, <1>9 DEF Opened
<1> QED
  BY <1>4, <1>5, <1>6, <1>7, <1>8, <1>10 DEF Chronicle, m

\* A set is pushed.
LEMMA PushedOn ==
  ASSUME NEW T, Pipeline \notin T, NEW C, NEW tl \in Seq(Sets),
         NEW set \in Sets,
         Chronicle(T, C, tl, Len(tl), set.elements, set.from, set.to),
         \A p \in Proxies : p \in set.to[Pipeline] => C[p] # NoState
  PROVE  Chronicle(T, C, Append(tl, set), Len(tl) + 1, <<>>, set.to, set.to)
<1> DEFINE m == Len(tl)  l == Append(tl, set)  w == set.from  s == set.to
<1>1. /\ m \in Nat /\ Len(l) = m + 1 /\ l[m + 1] = set
      /\ \A i \in 1 .. m : l[i] = tl[i]
      /\ \A i \in 1 .. m + 1 : i \in 1 .. m \/ i = m + 1
      /\ \A i \in 1 .. m : m \in 1 .. m /\ (i = m \/ i < m)
      /\ m + 1 + 1 .. m + 1 = {} /\ m + 1 > 0
  OBVIOUS
<1> HIDE DEF l, m
<1>2. /\ Chained(T, tl) /\ Now(T, tl, m, w) /\ Told(T, C, tl) /\ Once(tl)
      /\ Restorable(T, C, tl, m) /\ Opened(T, C, tl, set.elements, w, s)
  BY DEF Chronicle, m
<1>3. ASSUME NEW i \in 1 .. m PROVE tl[m].to[Pipeline] = w[Pipeline]
  <2>1. m > 0
    BY <1>1, <1>3
  <2> QED
    BY <1>2, <2>1, Apart DEF Now, AgreeBut
<1>4. Chained(T, l)
  <2> SUFFICES ASSUME NEW i \in 1 .. m PROVE AgreeBut(T, l[i].to, l[i + 1].from)
    BY <1>1 DEF Chained
  <2>1. CASE i = m
    BY <1>1, <1>2, <2>1 DEF Now
  <2>2. CASE i # m
    <3>1. i \in 1 .. m - 1 /\ i + 1 \in 1 .. m
      BY <1>1, <2>2
    <3> QED
      BY <1>1, <1>2, <3>1 DEF Chained, m
  <2> QED
    BY <2>1, <2>2
<1>5. Now(T, l, m + 1, s)
  <2>1. ~(m + 1 < Len(l))
    BY <1>1
  <2> QED
    BY <1>1, <2>1, AgreesItself DEF Now
<1>6. Told(T, C, l)
  <2>1. Tells(T, C, set.elements, w, s)
    BY <1>2 DEF Opened
  <2> QED
    BY <1>1, <1>2, <2>1 DEF Told, m
<1>7. Once(l)
  <2> SUFFICES ASSUME NEW i \in 1 .. m + 1, NEW p \in Proxies
               PROVE  /\ p \in l[i].from[Pipeline] /\ p \notin l[i].to[Pipeline] =>
                           \A j \in i .. m + 1 : p \notin l[j].to[Pipeline]
                      /\ p \in l[i].to[Pipeline] /\ p \notin l[i].from[Pipeline] =>
                           \A j \in 1 .. i : p \notin l[j].from[Pipeline]
    BY <1>1 DEF Once
  <2>1. CASE i \in 1 .. m
    <3>1. l[i] = tl[i]
      BY <1>1, <2>1
    <3>2. \A j \in 1 .. i : j \in 1 .. m /\ l[j] = tl[j]
      BY <1>1, <2>1
    <3>3. \A j \in i .. m + 1 : j = m + 1 \/ (j \in i .. m /\ l[j] = tl[j])
      BY <1>1, <2>1
    <3>4. ASSUME p \in tl[i].from[Pipeline], p \notin tl[i].to[Pipeline]
          PROVE  p \notin s[Pipeline]
      <4>1. m \in i .. m
        BY <1>1, <2>1
      <4>2. p \notin tl[m].to[Pipeline]
        BY <1>2, <2>1, <3>4, <4>1 DEF Once, m
      <4>3. p \notin w[Pipeline] /\ InTime(tl, p)
        BY <1>3, <2>1, <3>4, <4>2 DEF InTime, m
      <4> QED
        BY <1>2, <4>3 DEF Opened
    <3> QED
      BY <1>1, <1>2, <2>1, <3>1, <3>2, <3>3, <3>4 DEF Once, m
  <2>2. CASE i = m + 1
    <3>1. l[i] = set
      BY <1>1, <2>2
    <3>2. \A j \in i .. m + 1 : l[j] = set
      BY <1>1, <2>2
    <3>3. ASSUME p \in s[Pipeline], p \notin w[Pipeline], NEW j \in 1 .. i
          PROVE  p \notin l[j].from[Pipeline]
      <4>1. ~InTime(tl, p)
        BY <1>2, <3>3 DEF Opened
      <4>2. CASE j \in 1 .. m
        BY <1>1, <4>1, <4>2 DEF InTime, m
      <4>3. CASE j = m + 1
        BY <1>1, <3>3, <4>3
      <4> QED
        BY <1>1, <2>2, <4>2, <4>3
    <3> QED
      BY <3>1, <3>2, <3>3
  <2> QED
    BY <1>1, <2>1, <2>2
<1>8. Restorable(T, C, l, m + 1)
  <2>1. Kept(T, C, set.elements, w, s)
    BY <1>2 DEF Opened
  <2> QED
    BY <1>1, <1>2, <2>1 DEF Restorable
<1>9. Opened(T, C, l, <<>>, s, s)
  BY NothingTold DEF Opened
<1> QED
  BY <1>4, <1>5, <1>6, <1>7, <1>8, <1>9 DEF Chronicle, l, m

\* A history without sets.
LEMMA NoHistory ==
  ASSUME NEW T, NEW C, NEW s, \A p \in Proxies : p \in s[Pipeline] => C[p] # NoState
  PROVE  Chronicle(T, C, <<>>, 0, <<>>, s, s)
<1>1. /\ Chained(T, <<>>) /\ Now(T, <<>>, 0, s) /\ Told(T, C, <<>>) /\ Once(<<>>)
      /\ Restorable(T, C, <<>>, 0)
  BY DEF Chained, Now, Told, Once, Restorable
<1>2. Opened(T, C, <<>>, <<>>, s, s)
  BY NothingTold DEF Opened
<1> QED
  BY <1>1, <1>2 DEF Chronicle

-----------------------------------------------------------------------------
(* The stacks as one history                                               *)

\* The sets that can be undone, and then those that can be redone, the next
\* one first.
Joined(S, u, m, r, n, tl) ==
  /\ tl \in Seq(S) /\ m \in Nat /\ n \in Nat
  /\ Len(tl) = m + n
  /\ \A i \in 1 .. m : tl[i] = u[i]
  /\ \A i \in 1 .. n : tl[m + i] = r[n - i + 1]

LEMMA JoinedIs ==
  ASSUME NEW S, NEW u, u \in Seq(S), NEW r, r \in Seq(S)
  PROVE  Joined(S, u, Len(u), r, Len(r), u \o Reverse(r))
<1> DEFINE m == Len(u)  n == Len(r)  v == Reverse(r)
<1>1. m \in Nat /\ n \in Nat /\ \A i \in 1 .. n : r[i] \in S
  OBVIOUS
<1>2. v = [i \in 1 .. n |-> r[(n - i) + 1]]
  BY DEF Reverse
<1>3. \A i \in 1 .. n : (n - i) + 1 \in 1 .. n
  BY <1>1
<1>4. \A i \in 1 .. n : r[(n - i) + 1] \in S
  BY <1>1, <1>3
<1>5. v \in Seq(S) /\ Len(v) = n /\ \A i \in 1 .. n : v[i] = r[n - i + 1]
  BY <1>1, <1>2, <1>4
<1> HIDE DEF v
<1> DEFINE tl == u \o v
<1>6. /\ tl \in Seq(S) /\ Len(tl) = m + n
      /\ \A i \in 1 .. m + n : tl[i] = IF i <= m THEN u[i] ELSE v[i - m]
  <2>1. v \in Seq(S) /\ Len(v) = n
    BY <1>5
  <2>2. /\ tl \in Seq(S) /\ Len(tl) = Len(u) + Len(v)
        /\ \A i \in 1 .. Len(u) + Len(v) :
             tl[i] = IF i <= Len(u) THEN u[i] ELSE v[i - Len(u)]
    BY <2>1, ConcatProperties, Zenon
  <2> HIDE DEF tl
  <2> QED
    BY <2>1, <2>2, Zenon
<1> HIDE DEF m, n, tl
<1>7. \A i \in 1 .. m : i \in 1 .. m + n /\ i <= m
  BY <1>1
<1>8. \A i \in 1 .. n : m + i \in 1 .. m + n /\ ~(m + i <= m) /\ (m + i) - m = i
  BY <1>1
<1>9. \A i \in 1 .. m : tl[i] = u[i]
  BY <1>6, <1>7
<1>10. ASSUME NEW i \in 1 .. n PROVE tl[m + i] = v[i]
  <2>1. m + i \in 1 .. m + n /\ ~(m + i <= m) /\ (m + i) - m = i
    BY <1>8
  <2>2. \A j \in 1 .. m + n : ~(j <= m) => tl[j] = v[j - m]
    BY <1>6
  <2>3. tl[m + i] = v[(m + i) - m]
    BY <2>1, <2>2, Zenon
  <2> QED
    BY <2>1, <2>3
<1>11. \A i \in 1 .. n : tl[m + i] = r[n - i + 1]
  BY <1>5, <1>10, Zenon
<1>12. Joined(S, u, m, r, n, tl)
  BY <1>1, <1>6, <1>9, <1>11 DEF Joined, m, n
<1> QED
  BY <1>12 DEF tl, v, m, n

\* A set that moves from one stack to the other stays where it is.
LEMMA JoinedStays ==
  ASSUME NEW S, NEW u \in Seq(S), u # <<>>, NEW r \in Seq(S)
  PROVE  Front(u) \o Reverse(Append(r, Last(u))) = u \o Reverse(r)
<1> DEFINE f == Front(u)  x == Last(u)  a == Append(r, x)
           s == u \o Reverse(r)  t == f \o Reverse(a)  m == Len(u)  n == Len(r)
<1>1. /\ m \in Nat \ {0} /\ x = u[m] /\ x \in S /\ f \in Seq(S) /\ Len(f) = m - 1
      /\ \A i \in 1 .. m - 1 : f[i] = u[i]
  BY FrontAndLast
<1>2. n \in Nat
  OBVIOUS
<1> HIDE DEF x, f
<1>3. /\ a \in Seq(S) /\ Len(a) = n + 1 /\ a[n + 1] = x
      /\ \A i \in 1 .. n : a[i] = r[i]
  BY <1>1
<1> HIDE DEF a
<1>4. /\ s \in Seq(S) /\ Len(s) = m + n
      /\ \A i \in 1 .. m : s[i] = u[i]
      /\ \A i \in 1 .. n : s[m + i] = r[n - i + 1]
  <2>1. Joined(S, u, m, r, n, s)
    BY JoinedIs
  <2> HIDE DEF s
  <2> QED
    BY <2>1 DEF Joined
<1>5. /\ t \in Seq(S) /\ Len(t) = m - 1 + (n + 1)
      /\ \A i \in 1 .. m - 1 : t[i] = f[i]
      /\ \A i \in 1 .. n + 1 : t[m - 1 + i] = a[(n + 1) - i + 1]
  <2>1. Joined(S, f, Len(f), a, Len(a), t)
    BY <1>1, <1>3, JoinedIs
  <2>2. Len(f) = m - 1 /\ Len(a) = n + 1
    BY <1>1, <1>3
  <2> HIDE DEF t, m, n
  <2>3. Joined(S, f, m - 1, a, n + 1, t)
    BY <2>1, <2>2
  <2> QED
    BY <2>3 DEF Joined
<1> HIDE DEF s, t, m, n
<1>6. Len(t) = Len(s)
  BY <1>1, <1>2, <1>3, <1>4, <1>5
<1>7. ASSUME NEW i \in 1 .. m + n PROVE t[i] = s[i]
  <2>1. CASE i < m
    <3>1. i \in 1 .. m /\ i \in 1 .. m - 1
      BY <1>1, <1>2, <2>1
    <3> QED
      BY <1>1, <1>4, <1>5, <3>1
  <2>2. CASE i = m
    <3>1. i \in 1 .. m /\ 1 \in 1 .. n + 1 /\ m - 1 + 1 = i /\ (n + 1) - 1 + 1 = n + 1
      BY <1>1, <1>2, <2>2
    <3>2. t[i] = a[n + 1]
      <4>1. t[m - 1 + 1] = a[(n + 1) - 1 + 1]
        BY <1>5, <3>1, Zenon
      <4> QED
        BY <3>1, <4>1
    <3> QED
      BY <1>1, <1>3, <1>4, <2>2, <3>1, <3>2
  <2>3. CASE i > m
    <3> DEFINE k == i - m
    <3>1. /\ k \in 1 .. n /\ m + k = i /\ k + 1 \in 1 .. n + 1 /\ m - 1 + (k + 1) = i
          /\ (n + 1) - (k + 1) + 1 = n - k + 1 /\ n - k + 1 \in 1 .. n
      BY <1>1, <1>2, <2>3
    <3> HIDE DEF k
    <3>2. t[i] = a[n - k + 1]
      <4>1. t[m - 1 + (k + 1)] = a[(n + 1) - (k + 1) + 1]
        BY <1>5, <3>1, Zenon
      <4> QED
        BY <3>1, <4>1
    <3>3. s[m + k] = r[n - k + 1]
      BY <1>4, <3>1
    <3>4. a[n - k + 1] = r[n - k + 1]
      BY <1>3, <3>1
    <3> QED
      BY <3>1, <3>2, <3>3, <3>4
  <2> QED
    BY <1>1, <1>2, <2>1, <2>2, <2>3
<1>8. t = s
  BY <1>4, <1>5, <1>6, <1>7, SeqEqual
<1> QED
  BY <1>8 DEF t, s, a, f, x

\* The oldest sets go.
LEMMA TrimmedIs ==
  ASSUME NEW S, NEW stack \in Seq(S)
  PROVE  \E k \in 0 .. Len(stack) :
           /\ Trimmed(stack) \in Seq(S) /\ Len(Trimmed(stack)) = Len(stack) - k
           /\ \A i \in 1 .. Len(stack) - k : Trimmed(stack)[i] = stack[i + k]
<1> DEFINE n == Len(stack)
<1>1. n \in Nat /\ StackDepth \in Nat
  BY DepthAssumption
<1>2. CASE StackDepth > 0 /\ n >= StackDepth
  <2> DEFINE k == n - StackDepth + 1  t == SubSeq(stack, k + 1, n)
  <2>1. k \in 0 .. n /\ k \in Nat /\ n - StackDepth + 2 = k + 1
    BY <1>1, <1>2
  <2>2. Trimmed(stack) = t
    BY <1>2, <2>1 DEF Trimmed
  <2> HIDE DEF k
  <2>3. \A i \in k + 1 .. n : stack[i] \in S
    BY <2>1
  <2>4. /\ t \in Seq(S)
        /\ Len(t) = IF k + 1 <= n THEN n - (k + 1) + 1 ELSE 0
        /\ \A i \in 1 .. n - (k + 1) + 1 : t[i] = stack[k + 1 + i - 1]
    BY <1>1, <2>1, <2>3, SubSeqProperties
  <2> HIDE DEF t, n
  <2>5. Len(t) = n - k /\ n - (k + 1) + 1 = n - k
    BY <1>1, <2>1, <2>4
  <2>6. ASSUME NEW i \in 1 .. n - k PROVE t[i] = stack[i + k]
    <3>1. k + 1 + i - 1 = i + k
      BY <1>1, <2>1
    <3> QED
      BY <2>4, <2>5, <3>1
  <2> QED
    BY <2>1, <2>2, <2>4, <2>5, <2>6 DEF n
<1>3. CASE ~(StackDepth > 0 /\ n >= StackDepth)
  <2> DEFINE k == 0
  <2>1. Trimmed(stack) = stack
    BY <1>3 DEF Trimmed
  <2> HIDE DEF n
  <2>2. k \in 0 .. n /\ n - k = n /\ \A i \in 1 .. n : i + k = i
    BY <1>1
  <2> HIDE DEF k
  <2>3. /\ Trimmed(stack) \in Seq(S) /\ Len(Trimmed(stack)) = n - k
        /\ \A i \in 1 .. n - k : Trimmed(stack)[i] = stack[i + k]
    BY <2>1, <2>2 DEF n
  <2> QED
    BY <2>2, <2>3, Zenon DEF n
<1> QED
  BY <1>2, <1>3

\* Where the application is on the timeline, and what a step does to it.
LEMMA TimelineIs ==
  ASSUME undoStack \in Seq(Sets), redoStack \in Seq(Sets)
  PROVE  /\ Timeline \in Seq(Sets) /\ Len(undoStack) \in 0 .. Len(Timeline)
         /\ Len(undoStack) \in Nat /\ Len(redoStack) \in Nat
         /\ Len(Timeline) = Len(undoStack) + Len(redoStack)
         /\ \A i \in 1 .. Len(undoStack) : Timeline[i] = undoStack[i]
         /\ \A i \in 1 .. Len(redoStack) :
              Timeline[Len(undoStack) + i] = redoStack[Len(redoStack) - i + 1]
<1> DEFINE m == Len(undoStack)  n == Len(redoStack)
<1>1. Joined(Sets, undoStack, m, redoStack, n, Timeline)
  BY JoinedIs DEF Timeline
<1> HIDE DEF m, n
<1>2. /\ Timeline \in Seq(Sets) /\ m \in Nat /\ n \in Nat
      /\ Len(Timeline) = m + n
      /\ \A i \in 1 .. m : Timeline[i] = undoStack[i]
      /\ \A i \in 1 .. n : Timeline[m + i] = redoStack[n - i + 1]
  BY <1>1 DEF Joined
<1>3. m \in 0 .. m + n
  BY <1>2
<1> QED
  BY <1>2, <1>3 DEF m, n

LEMMA TimelineStays ==
  ASSUME StacksStay PROVE Timeline' = Timeline /\ Len(undoStack') = Len(undoStack)
BY DEF StacksStay, Timeline

\* The next set to undo becomes the next to redo.
LEMMA MovedBack ==
  ASSUME undoStack \in Seq(Sets), redoStack \in Seq(Sets), MoveToRedo
  PROVE  LET n == Len(undoStack) IN
         /\ Timeline' = Timeline /\ Len(undoStack') = n - 1
         /\ n \in 1 .. Len(Timeline) /\ Last(undoStack) = Timeline[n]
<1>1. undoStack # <<>> /\ undoStack' = Front(undoStack)
      /\ redoStack' = Append(redoStack, Last(undoStack))
  BY DEF MoveToRedo
<1>2. Timeline' = Timeline
  BY <1>1, JoinedStays DEF Timeline
<1>3. /\ Len(undoStack) \in Nat \ {0} /\ Last(undoStack) = undoStack[Len(undoStack)]
      /\ Len(Front(undoStack)) = Len(undoStack) - 1
  BY <1>1, FrontAndLast
<1>4. Len(undoStack) \in 1 .. Len(undoStack) /\ Len(undoStack) \in 1 .. Len(Timeline)
  BY <1>3, TimelineIs
<1>5. Timeline[Len(undoStack)] = undoStack[Len(undoStack)]
  BY <1>4, TimelineIs
<1> QED
  BY <1>1, <1>2, <1>3, <1>4, <1>5

\* The next set to redo becomes the next to undo.
LEMMA MovedForth ==
  ASSUME undoStack \in Seq(Sets), redoStack \in Seq(Sets), MoveToUndo
  PROVE  LET n == Len(undoStack) IN
         /\ Timeline' = Timeline /\ Len(undoStack') = n + 1
         /\ n \in 0 .. Len(Timeline) - 1 /\ Last(redoStack) = Timeline[n + 1]
<1> DEFINE x == Last(redoStack)  u == Append(undoStack, x)  f == Front(redoStack)
           n == Len(undoStack)  m == Len(redoStack)
<1>1. redoStack # <<>> /\ redoStack' = f /\ undoStack' = u
  BY DEF MoveToUndo
<1>2. /\ m \in Nat \ {0} /\ x = redoStack[m] /\ x \in Sets
      /\ f \in Seq(Sets) /\ Len(f) = m - 1
      /\ \A i \in 1 .. m - 1 : f[i] = redoStack[i]
  BY <1>1, FrontAndLast
<1> HIDE DEF x, f
<1>3. /\ u \in Seq(Sets) /\ u # <<>> /\ Len(u) = n + 1 /\ u[n + 1] = x /\ n \in Nat
      /\ \A i \in 1 .. n : u[i] = undoStack[i]
  <2>1. x \in Sets
    BY <1>2
  <2>2. /\ u \in Seq(Sets) /\ Len(u) = n + 1 /\ n \in Nat
        /\ \A i \in 1 .. n : u[i] = undoStack[i]
    BY <2>1
  <2>3. u[n + 1] = x
    BY <2>1
  <2>4. u # <<>>
    BY <2>2
  <2> QED
    BY <2>2, <2>3, <2>4
<1> HIDE DEF u
<1>4. Front(u) = undoStack /\ Last(u) = x
  <2>1. /\ Last(u) = u[Len(u)] /\ Front(u) \in Seq(Sets) /\ Len(Front(u)) = Len(u) - 1
        /\ \A i \in 1 .. Len(u) - 1 : Front(u)[i] = u[i]
    BY <1>3, FrontAndLast
  <2>2. Len(u) - 1 = n
    BY <1>3
  <2>3. Front(u) \in Seq(Sets) /\ Len(Front(u)) = n
        /\ \A i \in 1 .. n : Front(u)[i] = undoStack[i]
    BY <1>3, <2>1, <2>2
  <2>4. Front(u) = undoStack
    BY <2>3, SeqEqual
  <2> QED
    BY <1>3, <2>1, <2>4
<1>5. Append(f, x) = redoStack
  <2> DEFINE r == Append(f, x)
  <2>1. /\ r \in Seq(Sets) /\ Len(r) = m - 1 + 1 /\ r[m - 1 + 1] = x
        /\ \A i \in 1 .. m - 1 : r[i] = f[i]
    BY <1>2
  <2> HIDE DEF r, m
  <2>2. m - 1 + 1 = m /\ \A i \in 1 .. m : i = m \/ i \in 1 .. m - 1
    BY <1>2
  <2>3. Len(r) = m /\ \A i \in 1 .. m : r[i] = redoStack[i]
    BY <1>2, <2>1, <2>2
  <2>4. r = redoStack
    BY <2>1, <2>3, SeqEqual DEF m
  <2> QED
    BY <2>4 DEF r
<1>6. Timeline' = Timeline
  <2>1. Front(u) \o Reverse(Append(f, Last(u))) = u \o Reverse(f)
    BY <1>2, <1>3, JoinedStays
  <2> QED
    BY <1>1, <1>4, <1>5, <2>1 DEF Timeline
<1>7. /\ Len(Timeline) = n + m /\ \A i \in 1 .. m : Timeline[n + i] = redoStack[m - i + 1]
  BY TimelineIs
<1> HIDE DEF m, n
<1>8. n \in 0 .. Len(Timeline) - 1 /\ 1 \in 1 .. m /\ m - 1 + 1 = m
  BY <1>2, <1>3, <1>7
<1>9. Timeline[n + 1] = x
  BY <1>2, <1>7, <1>8
<1> QED
  BY <1>1, <1>3, <1>6, <1>8, <1>9 DEF n, x

\* Nothing can be undone or redone.
LEMMA TimelineEmpty ==
  ASSUME ClearStacks PROVE Timeline' = <<>> /\ Len(undoStack') = 0
<1>1. undoStack' = <<>> /\ redoStack' = <<>>
  BY DEF ClearStacks
<1>2. <<>> \in Seq(Sets) /\ Len(<<>>) = 0
  OBVIOUS
<1>3. Joined(Sets, <<>>, Len(<<>>), <<>>, Len(<<>>), Timeline')
  BY <1>1, <1>2, JoinedIs DEF Timeline
<1>4. Timeline' \in Seq(Sets) /\ Len(Timeline') = 0
  BY <1>2, <1>3 DEF Joined
<1>5. Timeline' = <<>>
  BY <1>4
<1> QED
  BY <1>1, <1>2, <1>5

\* The pushed set comes last, after those that could be undone.
LEMMA PushTells ==
  ASSUME undoStack \in Seq(Sets), redoStack \in Seq(Sets),
         NEW T, Pipeline \notin T, NEW C, NEW es \in Seq(Elements), es # <<>>,
         NEW from \in World, Sound(from), NEW to \in World, Sound(to),
         Chronicle(T, C, Timeline, Len(undoStack), es, from, to),
         \A p \in Proxies : p \in to[Pipeline] => C[p] # NoState,
         PushSet(es, from, to)
  PROVE  /\ Chronicle(T, C, Timeline', Len(undoStack'), <<>>, to, to)
         /\ undoSet' = <<>>
<1> DEFINE set == [elements |-> es, from |-> from, to |-> to]
           t == Trimmed(undoStack)  n == Len(undoStack)  tl == Timeline
<1>1. /\ undoStack' = Append(t, set) /\ redoStack' = <<>> /\ undoSet' = <<>>
  BY DEF PushSet
<1>2. set \in Sets /\ set.elements = es /\ set.from = from /\ set.to = to
  BY DEF Sets
<1> HIDE DEF set, t, tl
<1>3. /\ tl \in Seq(Sets) /\ n \in 0 .. Len(tl) /\ n \in Nat
      /\ \A i \in 1 .. n : tl[i] = undoStack[i]
  BY TimelineIs DEF tl
<1>4. PICK k \in 0 .. n :
         /\ t \in Seq(Sets) /\ Len(t) = n - k
         /\ \A i \in 1 .. n - k : t[i] = undoStack[i + k]
  BY TrimmedIs DEF t
<1> HIDE DEF n
<1>5. ASSUME NEW i \in 1 .. n - k PROVE t[i] = tl[i + k]
  <2>1. i + k \in 1 .. n
    BY <1>3
  <2> QED
    BY <1>3, <1>4, <2>1
<1>6. Chronicle(T, C, tl, n, es, from, to)
  BY DEF tl, n
<1>7. Chronicle(T, C, t, Len(t), set.elements, set.from, set.to)
  <2>1. t \in Seq(Sets) /\ Len(t) = n - k
    BY <1>4
  <2>2. \A i \in 1 .. Len(t) : t[i] = tl[i + k]
    BY <1>5, <2>1
  <2>3. tl \in Seq(Sets) /\ n \in 0 .. Len(tl)
    BY <1>3
  <2>4. Chronicle(T, C, t, Len(t), es, from, to)
    BY <1>6, <2>1, <2>2, <2>3, Forgotten
  <2> QED
    BY <1>2, <2>4
<1>8. Chronicle(T, C, Append(t, set), Len(t) + 1, <<>>, to, to)
  BY <1>2, <1>4, <1>7, PushedOn
<1>9. Timeline' = undoStack' /\ Len(undoStack') = Len(t) + 1
  <2>1. undoStack' \in Seq(Sets) /\ Len(undoStack') = Len(t) + 1
    BY <1>1, <1>2, <1>4
  <2>2. redoStack' \in Seq(Sets) /\ Len(redoStack') = 0
    BY <1>1
  <2>3. Joined(Sets, undoStack', Len(undoStack'), redoStack', Len(redoStack'), Timeline')
    BY <2>1, <2>2, JoinedIs DEF Timeline
  <2>4. Joined(Sets, undoStack', Len(undoStack'), redoStack', 0, Timeline')
    BY <2>2, <2>3
  <2>5. /\ Timeline' \in Seq(Sets) /\ Len(undoStack') \in Nat
        /\ Len(Timeline') = Len(undoStack') + 0
        /\ \A i \in 1 .. Len(undoStack') : Timeline'[i] = undoStack'[i]
    BY <2>4 DEF Joined
  <2>6. Len(Timeline') = Len(undoStack')
    BY <2>5
  <2>7. Timeline' = undoStack'
    BY <2>1, <2>5, <2>6, SeqEqual
  <2> QED
    BY <2>1, <2>7
<1> QED
  BY <1>1, <1>8, <1>9

-----------------------------------------------------------------------------
(* The history is told in every state of a session of one client           *)

\* What the session has cached of the registered proxies is what they are.
Fresh ==
  /\ cache[Pipeline] = Registered
  /\ \A p \in Registered : cache[p] = state[p]

Untainted == Pipeline \in tainted => tainted = Objects

HistoryTold ==
  Chronicle(tainted, cache, Timeline, Len(undoStack), undoSet, Present, state)

\* The invariant that keeps the history current.
HInv ==
  multiClients \/
  /\ Fresh /\ Untainted
  /\ Pipeline \in tainted \/ HistoryTold

\* Where nothing is left out that depends on it, the history is current.
LEMMA ToldIsCurrent ==
  ASSUME undoStack \in Seq(Sets), redoStack \in Seq(Sets), HInv
  PROVE  HistoryIsCurrent
<1>1. CASE multiClients
  BY <1>1 DEF HistoryIsCurrent
<1>2. CASE tainted = Objects
  BY <1>2 DEF HistoryIsCurrent, Agree
<1>3. CASE HistoryTold
  <2> DEFINE n == Len(undoStack)  m == Len(redoStack)
  <2>1. /\ Chained(tainted, Timeline)
        /\ Now(tainted, Timeline, n, Present)
    BY <1>3 DEF HistoryTold, Chronicle
  <2>2. /\ n \in Nat /\ m \in Nat /\ Len(Timeline) = n + m
        /\ \A i \in 1 .. n : Timeline[i] = undoStack[i]
        /\ \A i \in 1 .. m : Timeline[n + i] = redoStack[m - i + 1]
    BY TimelineIs
  <2>3. \A i \in 1 .. Len(Timeline) - 1 : Agree(Timeline[i].to, Timeline[i + 1].from)
    BY <2>1 DEF Chained, AgreeBut, Agree
  <2>4. ASSUME undoStack # <<>> PROVE Agree(Last(undoStack).to, Present)
    <3>1. n \in Nat \ {0} /\ Last(undoStack) = undoStack[n]
      BY <2>4, FrontAndLast
    <3>2. n \in 1 .. n /\ n > 0
      BY <3>1
    <3>3. Last(undoStack) = Timeline[n]
      BY <2>2, <3>1, <3>2
    <3> QED
      BY <2>1, <3>2, <3>3 DEF Now, AgreeBut, Agree
  <2>5. ASSUME redoStack # <<>> PROVE Agree(Last(redoStack).from, Present)
    <3>1. m \in Nat \ {0} /\ Last(redoStack) = redoStack[m]
      BY <2>5, FrontAndLast
    <3> HIDE DEF n, m
    <3>2. 1 \in 1 .. m /\ n < n + m /\ m - 1 + 1 = m
      BY <2>2, <3>1
    <3>3. Timeline[n + 1] = redoStack[m - 1 + 1]
      BY <2>2, <3>2
    <3>4. Last(redoStack) = Timeline[n + 1]
      BY <3>1, <3>2, <3>3
    <3> QED
      BY <2>1, <2>2, <3>2, <3>4 DEF Now, AgreeBut, Agree
  <2> QED
    BY <2>3, <2>4, <2>5 DEF HistoryIsCurrent
<1> QED
  BY <1>1, <1>2, <1>3 DEF HInv, Untainted

\* Every push passes the session's cache.
LEMMA FreshStep ==
  ASSUME StatesTyped, undoStack \in Seq(Sets), redoStack \in Seq(Sets),
         ~multiClients, Fresh, [Next]_vars
  PROVE  Fresh'
<1>1. ASSUME NEW p \in Proxies, NEW v \in Values, ChangeProxy(p, v)
      PROVE  Fresh'
  <2>1. Registered \in SUBSET Proxies
    BY WorldIs DEF StatesTyped, Registered
  <2> QED
    BY <1>1, <2>1, ChangeTyped, Apart DEF Fresh
<1>2. ASSUME NEW p \in Proxies, NEW v \in Values, CreateProxy(p, v)
      PROVE  Fresh'
  <2>1. Registered \in SUBSET Proxies
    BY WorldIs DEF StatesTyped, Registered
  <2> QED
    BY <1>2, <2>1, CreateTyped DEF Fresh
<1>3. ASSUME NEW p \in Proxies, UnRegisterProxy(p)
      PROVE  Fresh'
  <2>1. Registered \in SUBSET Proxies
    BY WorldIs DEF StatesTyped, Registered
  <2> QED
    BY <1>3, <2>1, DeleteTyped DEF Fresh
<1>4. ASSUME NEW p \in Proxies, Apply(p) \/ DeletedElsewhere(p)
      PROVE  Fresh'
  BY <1>4 DEF Apply, DeletedElsewhere, Fresh, Registered
<1>5. ASSUME NEW a \in Ats, Finish(a)
      PROVE  Fresh'
  <2>1. /\ StatesTyped'
        /\ cache'[Pipeline] = IF Registered' # Registered THEN Registered'
                              ELSE cache[Pipeline]
        /\ \A p \in Proxies :
             cache'[p] = IF p \in Registered' /\ state'[p] # state[p]
                         THEN state'[p] ELSE cache[p]
    BY <1>5, Finishing
  <2>2. Registered' \in SUBSET Proxies
    BY <2>1, WorldIs DEF StatesTyped, Registered
  <2>3. ASSUME NEW p \in Registered' PROVE cache'[p] = state'[p]
    <3>1. CASE state'[p] # state[p]
      BY <2>1, <2>2, <3>1
    <3>2. CASE state'[p] = state[p]
      <4>1. state'[p] # NoState
        BY <2>1, <2>2 DEF StatesTyped, Sound, Registered
      <4>2. p \in Registered
        BY <2>2, <3>2, <4>1 DEF StatesTyped, Sound, Registered
      <4> QED
        BY <2>1, <2>2, <3>2, <4>2 DEF Fresh
    <3> QED
      BY <3>1, <3>2
  <2> QED
    BY <2>1, <2>3 DEF Fresh
<1>6. CASE Undo
  BY <1>5, <1>6, UndoIs
<1>7. CASE Redo
  BY <1>5, <1>7, RedoIs
<1>8. CASE StatesStay
  BY <1>8 DEF StatesStay, Fresh, Registered
<1> QED
  BY <1>1, <1>2, <1>3, <1>4, <1>6, <1>7, <1>8, StateSteps

\* If the pipeline is left out, everything is, until the stack is cleared.
LEMMA UntaintedStep ==
  ASSUME StatesTyped, undoStack \in Seq(Sets), redoStack \in Seq(Sets),
         tainted \subseteq Objects, Untainted, [Next]_vars
  PROVE  Untainted' /\ (Clear \/ tainted \subseteq tainted')
<1>1. ASSUME NEW o \in Objects, Taint(o) PROVE Untainted' /\ tainted \subseteq tainted'
  BY <1>1 DEF Taint, Untainted
<1>2. ASSUME NEW p \in Proxies, NEW v \in Values, ChangeProxy(p, v) \/ CreateProxy(p, v)
      PROVE  Taint(p) \/ Taint(Pipeline)
  BY <1>2 DEF ChangeProxy, CreateProxy
<1>3. ASSUME NEW p \in Proxies, UnRegisterProxy(p) \/ Apply(p) \/ DeletedElsewhere(p)
      PROVE  Taint(Pipeline) \/ tainted' = tainted
  BY <1>3 DEF UnRegisterProxy, Apply, DeletedElsewhere
<1>4. CASE BeginNonUndoable \/ EndNonUndoable \/ BeginUndoSet \/ EndUndoSet
           \/ UNCHANGED vars
  BY <1>4 DEF BeginNonUndoable, EndNonUndoable, BeginUndoSet, EndUndoSet, vars,
              Untainted
<1>5. CASE Clear
  BY <1>5 DEF Clear, Untainted
<1>6. ASSUME NEW es \in Seq(Elements), NEW a, Disturb(es, a)
      PROVE  Untainted' /\ tainted \subseteq tainted'
  <2>1. Pipeline \in Touched(es) => Touched(es) = Objects
    BY TouchedIs, Apart
  <2>2. Touched(es) \subseteq Objects
    BY TouchedIs
  <2>3. tainted' = tainted \/ tainted' = tainted \cup Touched(es)
    BY <1>6 DEF Disturb
  <2> HIDE DEF Touched
  <2> QED
    BY <2>1, <2>2, <2>3 DEF Untainted
<1>7. CASE Undo
  BY <1>6, <1>7, UndoIs
<1>8. CASE Redo
  BY <1>6, <1>8, RedoIs
<1> QED
  BY <1>1, <1>2, <1>3, <1>4, <1>5, <1>7, <1>8, Apart DEF Next, Untainted

\* A session of one client whose history is told.
Telling ==
  TInv /\ ~multiClients /\ Fresh /\ Pipeline \notin tainted /\ HistoryTold

\* Where the open section began, if one is open.
LEMMA PresentIs ==
  ASSUME TInv
  PROVE  /\ state \in World /\ Sound(state) /\ cache \in World
         /\ \A p \in Proxies : p \in state[Pipeline] => cache[p] # NoState
         /\ Present \in World /\ Sound(Present)
         /\ undoSet \in Seq(Elements)
         /\ undoStack \in Seq(Sets) /\ redoStack \in Seq(Sets)
         /\ nestedCount \in Nat /\ (Open("set") <=> nestedCount > 0)
         /\ monitoring = IF nestedCount > 0 THEN 1 ELSE 0
         /\ nestedCount = 0 => begun = NoState /\ undoSet = <<>> /\ Present = state
         /\ nestedCount > 0 => begun # NoState /\ Present = begun
<1>1. sections \in Seq(Kinds) /\ nestedCount \in Nat
      /\ monitoring = IF nestedCount > 0 THEN 1 ELSE 0
  BY BothKinds, AtFinite DEF TInv, SectionInv
<1>2. Open("set") <=> nestedCount > 0
  <2>1. Open("set") <=> At("set", sections) # {}
    BY <1>1 DEF Open, At
  <2> QED
    BY <1>1, <2>1, BothKinds, AtFinite DEF TInv, SectionInv
<1>3. /\ begun = NoState <=> nestedCount = 0
      /\ begun # NoState => begun \in World /\ Sound(begun)
  BY DEF TInv, BegunTyped
<1>4. /\ state \in World /\ Sound(state) /\ cache \in World
      /\ \A p \in Proxies : p \in state[Pipeline] => cache[p] # NoState
  BY DEF TInv, StatesTyped, Registered
<1>5. Present = IF begun = NoState THEN state ELSE begun
  BY DEF Present
<1>6. Present \in World /\ Sound(Present)
  BY <1>3, <1>4, <1>5
<1>7. /\ undoSet \in Seq(Elements) /\ (nestedCount = 0 => undoSet = <<>>)
      /\ undoStack \in Seq(Sets) /\ redoStack \in Seq(Sets)
  BY DEF TInv, SetsTyped
<1> QED
  BY <1>1, <1>2, <1>3, <1>4, <1>5, <1>6, <1>7

\* What is recorded, in the open set or as a set by itself, is told.
LEMMA RecordTells ==
  ASSUME Telling, TInv', ~ignoreAll, NEW p \in Proxies, NEW e \in Elements,
         Alters(cache, state, e, p, cache', state'),
         NEW es, es = <<e>> \/ \E m \in Elements : es = <<e, m>> /\ \A o : ~Updates(m, o),
         Record(es), UNCHANGED <<tainted, begun>>
  PROVE  HistoryTold'
<1> DEFINE T == tainted  C == cache  D == cache'  s == state  y == state'
           w == Present  set == undoSet  tl == Timeline  n == Len(undoStack)
<1>1. /\ Pipeline \notin T /\ Fresh
      /\ Chronicle(T, C, tl, n, set, w, s)
  BY DEF Telling, HistoryTold
<1>2. /\ tl \in Seq(Sets) /\ n \in 0 .. Len(tl) /\ set \in Seq(Elements)
      /\ w \in World /\ s \in World /\ y \in World /\ Sound(s) /\ Sound(y)
      /\ \A q \in Proxies : q \in y[Pipeline] => D[q] # NoState
  BY PresentIs, TimelineIs DEF Telling, TInv, StatesTyped, Registered
<1>3. \A q \in Proxies : q \in s[Pipeline] => C[q] # NoState /\ C[q] = s[q]
  BY <1>1, PresentIs DEF Telling, Fresh, Registered
<1>4. HistoryTold' <=>
        Chronicle(T, D, Timeline', Len(undoStack'), undoSet', Present', y)
  BY DEF HistoryTold
<1>5. Present' = IF begun = NoState THEN y ELSE begun
  BY DEF Present
<1>6. ~Ignores
  BY DEF Ignores, Telling
<1>7. Chronicle(T, D, tl, n, Append(set, e), w, y)
  <2> HIDE DEF T, C, D, s, y, w, set, tl, n
  <2>1. Alters(C, s, e, p, D, y)
    BY DEF C, s, D, y
  <2> QED
    BY <1>1, <1>2, <1>3, <2>1, RecordingTells
<1>8. CASE monitoring > 0
  <2>1. undoSet' = set \o es /\ StacksStay
    BY <1>6, <1>8 DEF Record, StacksStay
  <2>2. begun # NoState /\ Present' = w
    <3>1. nestedCount > 0
      BY <1>8, PresentIs DEF Telling
    <3> QED
      BY <1>5, <3>1, PresentIs DEF Telling
  <2>3. Timeline' = tl /\ Len(undoStack') = n
    BY <2>1, TimelineStays
  <2>4. CASE es = <<e>>
    <3>1. undoSet' = Append(set, e)
      BY <1>2, <2>1, <2>4
    <3> QED
      BY <1>4, <1>7, <2>2, <2>3, <3>1
  <2>5. ASSUME NEW m \in Elements, es = <<e, m>>, \A o : ~Updates(m, o)
        PROVE  HistoryTold'
    <3>1. undoSet' = Append(Append(set, e), m) /\ Append(set, e) \in Seq(Elements)
      BY <1>2, <2>1, <2>5
    <3> HIDE DEF T, C, D, s, y, w, set, tl, n
    <3>2. Opened(T, D, tl, Append(Append(set, e), m), w, y)
      BY <1>7, <2>5, <3>1, TellsModified DEF Chronicle
    <3>3. Chronicle(T, D, tl, n, Append(Append(set, e), m), w, y)
      BY <1>7, <3>2 DEF Chronicle
    <3> QED
      BY <1>4, <2>2, <2>3, <3>1, <3>3
  <2> QED
    BY <2>4, <2>5
<1>9. CASE ~(monitoring > 0)
  <2>1. nestedCount = 0
    BY <1>9, PresentIs DEF Telling
  <2>2. begun = NoState /\ set = <<>> /\ w = s /\ Present' = y
    BY <1>5, <2>1, PresentIs DEF Telling
  <2>3. Append(set, e) = <<e>> /\ <<e>> \in Seq(Elements) /\ <<e>> # <<>>
    BY <2>2
  <2>4. es[1] = e
    OBVIOUS
  <2>5. PushSet(<<e>>, s, y)
    BY <1>6, <1>9, <2>4 DEF Record
  <2>6. Chronicle(T, D, Timeline, Len(undoStack), <<e>>, s, y)
    BY <1>7, <2>2, <2>3
  <2>7. undoStack \in Seq(Sets) /\ redoStack \in Seq(Sets)
    BY PresentIs DEF Telling
  <2>8. /\ Chronicle(T, D, Timeline', Len(undoStack'), <<>>, y, y)
        /\ undoSet' = <<>>
    <3> HIDE DEF T, D, s, y
    <3> QED
      BY <1>1, <1>2, <2>3, <2>5, <2>6, <2>7, PushTells
  <2> QED
    BY <1>4, <2>2, <2>8
<1> QED
  BY <1>8, <1>9

\* What is not recorded is left out.
LEMMA BehindTells ==
  ASSUME Telling, Pipeline \notin tainted', tainted \subseteq tainted',
         StacksStay, UNCHANGED <<undoSet, begun>>,
         state'[Pipeline] = state[Pipeline],
         \A p \in Proxies : cache[p] # NoState => cache'[p] # NoState,
         \A p \in Proxies \ tainted' : cache'[p] = cache[p] /\ state'[p] = state[p]
  PROVE  HistoryTold'
<1> DEFINE T == tainted  U == tainted'  C == cache  D == cache'
           s == state  y == state'  w == Present  x == Present'
           set == undoSet  tl == Timeline  n == Len(undoStack)
<1>1. Chronicle(T, C, tl, n, set, w, s)
  BY DEF Telling, HistoryTold
<1>2. HistoryTold' <=>
        Chronicle(U, D, Timeline', Len(undoStack'), undoSet', x, y)
  BY DEF HistoryTold
<1>3. Timeline' = tl /\ Len(undoStack') = n /\ undoSet' = set
  BY TimelineStays
<1>4. AgreeBut(U, s, y) /\ s[Pipeline] = y[Pipeline]
  BY DEF AgreeBut, Objects
<1>5. AgreeBut(U, w, x) /\ w[Pipeline] = x[Pipeline]
  <2>1. (w = s /\ x = y) \/ w = x
    BY DEF Present
  <2> HIDE DEF w, x, s, y
  <2> QED
    BY <1>4, <2>1, AgreesItself
<1>6. /\ T \subseteq U
      /\ \A p \in Proxies : C[p] # NoState => D[p] # NoState
      /\ \A p \in Proxies \ U : D[p] = C[p]
  OBVIOUS
<1> HIDE DEF T, U, C, D, s, y, w, x, set, tl, n
<1>7. Chronicle(U, D, tl, n, set, x, y)
  BY <1>1, <1>4, <1>5, <1>6, BehindKeeps
<1> QED
  BY <1>2, <1>3, <1>7

\* A change of the state of an object is recorded or left out.
LEMMA ChangeTells ==
  ASSUME Telling, TInv', NEW p \in Proxies,
         \/ \E v \in Values : ChangeProxy(p, v) \/ CreateProxy(p, v)
         \/ UnRegisterProxy(p)
  PROVE  Pipeline \in tainted' \/ HistoryTold'
<1>0. /\ StatesTyped /\ cache[Pipeline] = Registered
      /\ \A q \in Registered : cache[q] = state[q]
      /\ Registered \in SUBSET Proxies /\ Pipeline \notin tainted
      /\ tainted \subseteq Objects
  BY WorldIs DEF Telling, TInv, StatesTyped, Fresh, Registered, RestTyped
<1>1. ASSUME NEW v \in Values, ChangeProxy(p, v)
      PROVE  HistoryTold'
  <2> DEFINE e == Update(p, cache[p], v)
  <2>1. /\ p \in Registered /\ cache[p] \in Values /\ Registered' = Registered
        /\ state'[p] = v /\ cache'[p] = v
        /\ \A q \in Proxies : q # p => state'[q] = state[q] /\ cache'[q] = cache[q]
    BY <1>0, <1>1, ChangeTyped DEF Objects
  <2>2. Record(<<e>>) /\ Taint(p) /\ begun' = begun
    BY <1>1 DEF ChangeProxy
  <2>3. CASE ~ignoreAll
    <3>1. e \in Elements
      BY <2>1, RecordsElements
    <3>2. Updates(e, p) /\ e.before = cache[p] /\ e.after = v
      BY DEF Update, Updates
    <3> HIDE DEF e
    <3>3. Alters(cache, state, e, p, cache', state')
      BY <1>0, <2>1, <3>2, Apart DEF Alters, Registered
    <3>4. tainted' = tainted
      BY <2>2, <2>3 DEF Taint, Ignores, Telling
    <3> QED
      BY <2>2, <2>3, <3>1, <3>3, <3>4, RecordTells
  <2>4. CASE ignoreAll
    <3>1. tainted' = tainted \cup {p} /\ UNCHANGED <<undoSet, undoStack, redoStack>>
      BY <2>2, <2>4, Apart DEF Taint, Record, Ignores, setVars
    <3>2. Pipeline \notin tainted' /\ tainted \subseteq tainted' /\ StacksStay
      BY <1>0, <3>1, Apart DEF StacksStay
    <3>3. \A q \in Proxies : cache[q] # NoState => cache'[q] # NoState
      BY <2>1, Apart
    <3>4. \A q \in Proxies \ tainted' : cache'[q] = cache[q] /\ state'[q] = state[q]
      BY <2>1, <3>1
    <3>5. state'[Pipeline] = state[Pipeline]
      BY <2>1 DEF Registered
    <3> QED
      BY <2>2, <3>1, <3>2, <3>3, <3>4, <3>5, BehindTells
  <2> QED
    BY <2>3, <2>4
<1>2. ASSUME Taint(Pipeline), ignoreAll PROVE Pipeline \in tainted'
  BY <1>2, Apart DEF Taint, Ignores
<1>3. ASSUME Taint(Pipeline), ~ignoreAll PROVE tainted' = tainted
  BY <1>3 DEF Taint, Ignores, Telling
<1>4. ASSUME NEW v \in Values, CreateProxy(p, v)
      PROVE  Pipeline \in tainted' \/ HistoryTold'
  <2> DEFINE R == Registered \cup {p}
             e == Update(Pipeline, cache[Pipeline], R)
             m == MadeUninitialized(p)
  <2>1. /\ p \notin Registered /\ cache[p] = NoState
        /\ Registered' = R /\ cache'[p] = v
        /\ \A q \in Proxies : q # p => state'[q] = state[q] /\ cache'[q] = cache[q]
    BY <1>0, <1>4, CreateTyped
  <2>2. Record(<<e, m>>) /\ Taint(Pipeline) /\ begun' = begun
    BY <1>4 DEF CreateProxy
  <2>3. CASE ~ignoreAll
    <3>0. R \in SUBSET Proxies
      BY <1>0
    <3>1. e \in Elements /\ m \in Elements
      BY <1>0, <3>0, RecordsElements
    <3>2. /\ Updates(e, Pipeline) /\ e.before = Registered /\ e.after = R
          /\ \A o : ~Updates(m, o)
      BY <1>0 DEF Update, Updates, MadeUninitialized
    <3>3. \A q \in Proxies : q # p => (q \in R <=> q \in Registered)
      OBVIOUS
    <3> HIDE DEF e, m, R
    <3>4. Alters(cache, state, e, p, cache', state')
      BY <1>0, <2>1, <3>2, <3>3, Apart DEF Alters, Registered
    <3> QED
      BY <1>3, <2>2, <2>3, <3>1, <3>2, <3>4, RecordTells
  <2> QED
    BY <1>2, <2>2, <2>3
<1>5. ASSUME UnRegisterProxy(p)
      PROVE  Pipeline \in tainted' \/ HistoryTold'
  <2> DEFINE R == Registered \ {p}
             e == Update(Pipeline, cache[Pipeline], R)
  <2>1. /\ p \in Registered /\ Registered' = R
        /\ \A q \in Proxies : q # p => state'[q] = state[q]
        /\ \A q \in Proxies : cache'[q] = cache[q]
    BY <1>0, <1>5, DeleteTyped
  <2>2. Record(<<e>>) /\ Taint(Pipeline) /\ begun' = begun
    BY <1>5 DEF UnRegisterProxy
  <2>3. CASE ~ignoreAll
    <3>0. R \in SUBSET Proxies
      BY <1>0
    <3>1. e \in Elements
      BY <1>0, <3>0, RecordsElements
    <3>2. Updates(e, Pipeline) /\ e.before = Registered /\ e.after = R
      BY <1>0 DEF Update, Updates
    <3>3. p \notin R /\ \A q \in Proxies : q # p => (q \in R <=> q \in Registered)
      OBVIOUS
    <3> HIDE DEF e, R
    <3>4. Alters(cache, state, e, p, cache', state')
      BY <1>0, <2>1, <3>2, <3>3, Apart DEF Alters, Registered
    <3> QED
      BY <1>3, <2>2, <2>3, <3>1, <3>4, RecordTells
  <2> QED
    BY <1>2, <2>2, <2>3
<1> QED
  BY <1>1, <1>4, <1>5

\* Applying a proxy is recorded in the open set, if any, and tells nothing.
LEMMA ApplyTells ==
  ASSUME Telling, NEW p \in Proxies, Apply(p)
  PROVE  HistoryTold'
<1> DEFINE e == MadeUnmodified(p)  T == tainted  C == cache  s == state
           w == Present  set == undoSet  tl == Timeline  n == Len(undoStack)
<1>1. Chronicle(T, C, tl, n, set, w, s) /\ set \in Seq(Elements)
  BY PresentIs DEF Telling, HistoryTold
<1>2. /\ UNCHANGED <<state, cache, begun, tainted>> /\ StacksStay
      /\ undoSet' = set \/ undoSet' = Append(set, e)
  BY DEF Apply, StacksStay
<1>3. Timeline' = tl /\ Len(undoStack') = n /\ Present' = w
  BY <1>2, TimelineStays DEF Present
<1>4. HistoryTold' <=> Chronicle(T, C, tl, n, undoSet', w, s)
  BY <1>2, <1>3 DEF HistoryTold
<1>5. e \in Elements /\ \A o : ~Updates(e, o)
  BY RecordsElements DEF Updates, MadeUnmodified
<1>6. Chronicle(T, C, tl, n, Append(set, e), w, s)
  <2> HIDE DEF e, T, C, s, w, set, tl, n
  <2>1. Opened(T, C, tl, Append(set, e), w, s)
    BY <1>1, <1>5, TellsModified DEF Chronicle
  <2> QED
    BY <1>1, <2>1 DEF Chronicle
<1> QED
  BY <1>1, <1>2, <1>4, <1>6

\* An undo section begins where the application is.
LEMMA BeginTells ==
  ASSUME Telling, BeginUndoSet
  PROVE  HistoryTold'
<1>1. /\ UNCHANGED <<state, cache, undoSet, undoStack, redoStack, tainted>>
      /\ begun' = IF nestedCount = 0 THEN state ELSE begun
  BY DEF BeginUndoSet, setVars
<1>2. state # NoState
  BY PresentIs, Apart DEF Telling
<1>3. Present' = Present
  <2>1. CASE nestedCount = 0
    BY <1>1, <1>2, <2>1, PresentIs DEF Telling, Present
  <2>2. CASE nestedCount # 0
    BY <1>1, <2>2 DEF Present
  <2> QED
    BY <2>1, <2>2
<1>4. Timeline' = Timeline /\ Len(undoStack') = Len(undoStack)
  BY <1>1, TimelineStays DEF StacksStay
<1> QED
  BY <1>1, <1>3, <1>4 DEF Telling, HistoryTold

\* The outermost section ends: its set is pushed, or there is none.
LEMMA EndTells ==
  ASSUME Telling, TInv', EndUndoSet
  PROVE  HistoryTold'
<1> DEFINE T == tainted  C == cache  s == state  w == Present
           set == undoSet  tl == Timeline  n == Len(undoStack)
<1>1. /\ Chronicle(T, C, tl, n, set, w, s) /\ Pipeline \notin T
      /\ set \in Seq(Elements)
      /\ undoStack \in Seq(Sets) /\ redoStack \in Seq(Sets)
      /\ w \in World /\ Sound(w) /\ s \in World /\ Sound(s)
      /\ \A p \in Proxies : p \in s[Pipeline] => C[p] # NoState
  BY PresentIs DEF Telling, HistoryTold
<1>2. /\ UNCHANGED <<state, cache, tainted>>
      /\ nestedCount' = nestedCount - 1
      /\ monitoring' = IF nestedCount = 1 THEN monitoring - 1 ELSE monitoring
      /\ begun' = IF nestedCount = 1 THEN NoState ELSE begun
      /\ IF monitoring' = 0 /\ undoSet # <<>>
         THEN PushSet(undoSet, begun, state)
         ELSE UNCHANGED setVars
  BY DEF EndUndoSet
<1>3. nestedCount \in Nat /\ nestedCount' \in Nat
      /\ monitoring = IF nestedCount > 0 THEN 1 ELSE 0
  <2>1. nestedCount' \in Nat
    BY BothKinds, AtFinite DEF TInv, SectionInv
  <2> QED
    BY <2>1, PresentIs DEF Telling
<1>4. nestedCount > 0 /\ monitoring = 1
  BY <1>2, <1>3
<1>5. begun # NoState /\ w = begun
  BY <1>4, PresentIs DEF Telling
<1>6. HistoryTold' <=> Chronicle(T, C, Timeline', Len(undoStack'), undoSet', Present', s)
  BY <1>2 DEF HistoryTold
<1>7. CASE nestedCount # 1
  <2>1. UNCHANGED <<undoSet, undoStack, redoStack, begun>>
    BY <1>2, <1>4, <1>7 DEF setVars
  <2>2. Timeline' = tl /\ Len(undoStack') = n /\ Present' = w
    BY <1>2, <2>1, TimelineStays DEF StacksStay, Present
  <2> QED
    BY <1>1, <1>6, <2>1, <2>2
<1>8. CASE nestedCount = 1
  <2>1. monitoring' = 0 /\ begun' = NoState
    BY <1>2, <1>4, <1>8
  <2>2. Present' = s
    BY <1>2, <2>1 DEF Present
  <2>3. CASE set # <<>>
    <3>1. PushSet(set, w, s)
      BY <1>2, <1>5, <2>1, <2>3
    <3>2. Chronicle(T, C, Timeline, Len(undoStack), set, w, s)
      BY <1>1
    <3>3. Chronicle(T, C, Timeline', Len(undoStack'), <<>>, s, s) /\ undoSet' = <<>>
      <4> HIDE DEF T, C, s, w, set, tl, n
      <4> QED
        BY <1>1, <2>3, <3>1, <3>2, PushTells
    <3> QED
      BY <1>6, <2>2, <3>3
  <2>4. CASE set = <<>>
    <3>1. UNCHANGED <<undoSet, undoStack, redoStack>>
      BY <1>2, <2>4 DEF setVars
    <3>2. Timeline' = tl /\ Len(undoStack') = n /\ undoSet' = set
      BY <3>1, TimelineStays DEF StacksStay
    <3>3. \A o : Own(set, o) = {}
      BY <2>4 DEF Own
    <3> HIDE DEF T, C, s, w, set, tl, n
    <3>4. Tells(T, C, set, w, s)
      BY <1>1 DEF Chronicle, Opened
    <3>5. AgreeBut(T, w, s) /\ w[Pipeline] = s[Pipeline]
      BY <1>1, <3>3, <3>4, TellsNothing
    <3>6. Chronicle(T, C, tl, n, set, s, s)
      BY <1>1, <3>5, AgreesItself, BehindKeeps
    <3> QED
      BY <1>6, <2>2, <3>2, <3>6
  <2> QED
    BY <2>3, <2>4
<1> QED
  BY <1>7, <1>8

\* Nothing is left to tell when the stack is cleared.
LEMMA ClearTells ==
  ASSUME TInv, Clear
  PROVE  HistoryTold'
<1>1. /\ undoSet' = <<>> /\ ClearStacks /\ UNCHANGED <<state, cache>>
      /\ begun' = IF begun = NoState THEN NoState ELSE state
      /\ tainted' = {}
  BY DEF Clear, ClearStacks
<1>2. Present' = state
  BY <1>1 DEF Present
<1>3. \A p \in Proxies : p \in state[Pipeline] => cache[p] # NoState
  BY PresentIs
<1>4. Chronicle({}, cache, <<>>, 0, <<>>, state, state)
  BY <1>3, NoHistory
<1> QED
  BY <1>1, <1>2, <1>4, TimelineEmpty DEF HistoryTold

\* An undo or redo that fails, or comes in the middle of a section, leaves out
\* the objects that it updates.
LEMMA DisturbTells ==
  ASSUME Telling, TInv', NEW es \in Seq(Elements),
         NEW a \in Ats, Unaffected(Start, es, a), Finish(a),
         tainted' = tainted \cup Touched(es), Pipeline \notin tainted',
         UNCHANGED <<undoSet, begun>>
  PROVE  /\ Chronicle(tainted', cache', Timeline, Len(undoStack), undoSet',
                      Present', state')
         /\ \A o \in Objects \ tainted' : Own(es, o) = {}
<1> DEFINE T == tainted  U == tainted'  C == cache  D == cache'
           s == state  y == state'  w == Present  x == Present'
           set == undoSet  tl == Timeline  n == Len(undoStack)
<1>1. Chronicle(T, C, tl, n, set, w, s)
  BY DEF Telling, HistoryTold
<1>2. /\ Own(es, Pipeline) = {}
      /\ \A o \in Objects \ U : Own(es, o) = {}
  BY TouchedIs, Apart DEF Objects
<1>3. /\ StatesTyped /\ Start.state = state /\ Start.alive = Registered
  BY StartIs DEF Telling, TInv
<1>4. /\ a.alive = Registered
      /\ \A o \in Objects : Own(es, o) = {} => a.state[o] = s[o]
  BY <1>2, <1>3 DEF Unaffected
<1>5. /\ StatesTyped' /\ Registered' = a.state[Pipeline]
      /\ \A p \in Proxies :
           y[p] = IF p \in Registered' THEN a.state[p] ELSE NoState
      /\ \A p \in Proxies :
           D[p] = IF p \in Registered' /\ y[p] # s[p] THEN y[p] ELSE C[p]
  BY <1>3, Finishing
<1>6. y[Pipeline] = s[Pipeline] /\ Registered' = Registered
  BY <1>2, <1>4, <1>5, Apart DEF Registered
<1>7. \A p \in Proxies : p \in Registered' => y[p] # NoState
  BY <1>5 DEF StatesTyped, Sound, Registered
<1>8. \A p \in Proxies : C[p] # NoState => D[p] # NoState
  BY <1>5, <1>7
<1>9. ASSUME NEW p \in Proxies \ U PROVE y[p] = s[p] /\ D[p] = C[p]
  <2>1. Own(es, p) = {}
    BY <1>2, Apart
  <2>2. a.state[p] = s[p]
    BY <1>4, <2>1, Apart
  <2>3. p \notin Registered => s[p] = NoState
    BY <1>3 DEF StatesTyped, Sound, Registered
  <2> QED
    BY <1>5, <1>6, <2>2, <2>3
<1>10. AgreeBut(U, s, y)
  BY <1>6, <1>9 DEF AgreeBut, Objects
<1>11. AgreeBut(U, w, x) /\ w[Pipeline] = x[Pipeline]
  <2>1. (w = s /\ x = y) \/ w = x
    BY DEF Present
  <2> HIDE DEF w, x, s, y
  <2> QED
    BY <1>6, <1>10, <2>1, AgreesItself
<1>12. T \subseteq U /\ undoSet' = set
  OBVIOUS
<1>13. Chronicle(U, D, tl, n, set, x, y)
  <2> HIDE DEF T, U, C, D, s, y, w, x, set, tl, n
  <2> QED
    BY <1>1, <1>6, <1>8, <1>9, <1>10, <1>11, <1>12, BehindKeeps
<1> QED
  BY <1>2, <1>12, <1>13

\* What the processing of a set leaves in the session's cache.
LEMMA FinishLearns ==
  ASSUME StatesTyped, NEW a \in Ats, Finish(a)
  PROVE  Learns(cache, cache', state')
<1>1. /\ StatesTyped'
      /\ \A p \in Proxies :
           cache'[p] = IF p \in Registered' /\ state'[p] # state[p]
                       THEN state'[p] ELSE cache[p]
  BY Finishing
<1>2. \A p \in Proxies : p \in Registered' => state'[p] # NoState /\ cache'[p] # NoState
  BY <1>1 DEF StatesTyped, Sound, Registered
<1> QED
  BY <1>1, <1>2 DEF Learns, Registered

\* A set is undone, or fails, or is undone in the middle of a section.
LEMMA UndoTells ==
  ASSUME Telling, TInv', Undo
  PROVE  Pipeline \in tainted' \/ HistoryTold'
<1> DEFINE T == tainted  C == cache  D == cache'  s == state  y == state'
           tl == Timeline  n == Len(undoStack)
           set == Last(undoStack)  es == set.elements  a == UndoElements(es)
<1>1. /\ StatesTyped /\ undoStack \in Seq(Sets) /\ redoStack \in Seq(Sets)
      /\ Pipeline \notin T
  BY DEF Telling, TInv, SetsTyped
<1>2. /\ set \in Sets /\ es \in Seq(Elements)
      /\ a \in Ats /\ Unaffected(Start, es, a) /\ Finish(a)
      /\ Disturb(es, a)
      /\ a.failed = 0 => MoveToRedo
      /\ a.failed # 0 => StacksStay
      /\ UNCHANGED <<undoSet, begun>>
  BY <1>1, UndoIs
<1>3. ASSUME MoveToRedo
      PROVE  /\ Timeline' = tl /\ Len(undoStack') = n - 1
             /\ n \in 1 .. Len(tl) /\ set = tl[n]
  BY <1>1, <1>3, MovedBack
<1>4. tl \in Seq(Sets)
  BY <1>1, TimelineIs
<1>5. HistoryTold' <=>
        Chronicle(tainted', D, Timeline', Len(undoStack'), undoSet', Present', y)
  BY DEF HistoryTold
<1>6. CASE (Open("set") \/ a.failed # 0) /\ Pipeline \notin tainted'
  <2>1. tainted' = T \cup Touched(es)
    BY <1>2, <1>6 DEF Disturb
  <2>2. /\ Chronicle(tainted', D, tl, n, undoSet', Present', y)
        /\ \A o \in Objects \ tainted' : Own(es, o) = {}
    <3> HIDE DEF a, es
    <3> QED
      BY <1>2, <1>6, <2>1, DisturbTells
  <2>3. CASE StacksStay
    BY <1>5, <2>2, <2>3, TimelineStays
  <2>4. CASE MoveToRedo
    <3>1. n \in 1 .. Len(tl) /\ es = tl[n].elements
      BY <1>3, <2>4
    <3>2. Chronicle(tainted', D, tl, n - 1, undoSet', Present', y)
      <4> DEFINE U == tainted'  x == Present'  us == undoSet'
      <4>1. /\ Chronicle(U, D, tl, n, us, x, y) /\ Pipeline \notin U
            /\ \A o \in Objects \ U : Own(tl[n].elements, o) = {}
        BY <1>6, <2>2, <3>1
      <4> HIDE DEF U, D, tl, n, us, x, y
      <4>2. Chronicle(U, D, tl, n - 1, us, x, y)
        BY <1>4, <3>1, <4>1, BackWithin
      <4> QED
        BY <4>2 DEF U, us, x
    <3> QED
      BY <1>3, <1>5, <2>4, <3>2
  <2> QED
    BY <1>2, <2>3, <2>4
<1>7. CASE ~Open("set") /\ a.failed = 0
  <2>1. nestedCount = 0
    BY <1>7, PresentIs DEF Telling
  <2>2. begun = NoState /\ undoSet = <<>> /\ Present = s
    BY <2>1, PresentIs DEF Telling
  <2>3. /\ tainted' = T /\ undoSet' = <<>> /\ Present' = y
    BY <1>2, <1>7, <2>2 DEF Disturb, Present
  <2>4. MoveToRedo
    BY <1>2, <1>7
  <2>5. /\ Timeline' = tl /\ Len(undoStack') = n - 1
        /\ n \in 1 .. Len(tl) /\ set = tl[n] /\ n > 0
    BY <1>3, <2>4
  <2>6. Chronicle(T, C, tl, n, <<>>, s, s)
    BY <2>2 DEF Telling, HistoryTold
  <2>7. /\ Tells(T, C, es, set.from, set.to) /\ Kept(T, C, es, set.from, set.to)
        /\ AgreeBut(T, set.to, s)
    <3>1. n \in 1 .. n
      BY <2>5
    <3> QED
      BY <2>5, <2>6, <3>1 DEF Chronicle, Told, Restorable, Now
  <2>8. /\ set.from \in World /\ Sound(set.from) /\ set.to \in World
    BY <1>2 DEF Sets
  <2> DEFINE order == Descending(Len(es))  found == FoundIn(es, "undo")
             from == set.from  to == set.to
  <2>9. Leads(T, es, order, "undo", found, to, from)
    <3> HIDE DEF es, T, from, to
    <3>1. cache \in World
      BY <1>1 DEF StatesTyped
    <3>2. Tells(T, cache, es, from, to) /\ Kept(T, cache, es, from, to)
      BY <2>7 DEF from, to
    <3> QED
      BY <1>2, <3>1, <3>2, UndoLeads
  <2>10. to[Pipeline] = Registered
    BY <1>1, <2>7, Apart DEF AgreeBut, Registered
  <2>11. Sofar(Start, es, order, "undo", found, Len(es), a)
    <3>1. CanRun(Registered, es, order, "undo", found)
      BY <2>9, <2>10 DEF Leads
    <3> QED
      BY <1>1, <1>2, <1>7, <3>1, Undoing
  <2>12. OrderOf(order, es) /\ Len(order) = Len(es)
    <3>1. Len(es) \in 0 .. Len(es)
      BY <1>2
    <3> HIDE DEF es
    <3> QED
      BY <1>2, <3>1, Orders
  <2>13. found \in [Proxies -> States]
    BY <1>1, <1>2, FoundIs DEF StatesTyped
  <2>14. AgreeBut(T, from, y)
    <3>1. /\ AgreeBut(T, to, state) /\ from \in World /\ Sound(from) /\ to \in World
          /\ a \in Ats /\ Finish(a) /\ es \in Seq(Elements)
      BY <1>2, <2>7, <2>8
    <3> HIDE DEF T, es, order, found, from, to, a
    <3>2. AgreeBut(T, from, state')
      BY <1>1, <2>9, <2>11, <2>12, <2>13, <3>1, Arriving
    <3> QED
      BY <3>2
  <2>15. Learns(C, D, y)
    BY <1>1, <1>2, FinishLearns
  <2>16. \A p \in Proxies : p \in s[Pipeline] => C[p] = s[p]
    BY DEF Telling, Fresh, Registered
  <2>17. AgreeBut(T, tl[n].from, y)
    BY <2>5, <2>14
  <2>18. Chronicle(T, D, tl, n - 1, <<>>, y, y)
    <3> HIDE DEF T, C, D, tl, n, s, y
    <3> QED
      BY <1>1, <1>4, <2>5, <2>6, <2>15, <2>16, <2>17, BackOutside
  <2> QED
    BY <1>5, <2>3, <2>5, <2>18
<1> QED
  BY <1>6, <1>7

\* The same for a redo.
LEMMA RedoTells ==
  ASSUME Telling, TInv', Redo
  PROVE  Pipeline \in tainted' \/ HistoryTold'
<1> DEFINE T == tainted  C == cache  D == cache'  s == state  y == state'
           tl == Timeline  n == Len(undoStack)
           set == Last(redoStack)  es == set.elements  a == RedoElements(es)
<1>1. /\ StatesTyped /\ undoStack \in Seq(Sets) /\ redoStack \in Seq(Sets)
      /\ Pipeline \notin T
  BY DEF Telling, TInv, SetsTyped
<1>2. /\ set \in Sets /\ es \in Seq(Elements)
      /\ a \in Ats /\ Unaffected(Start, es, a) /\ Finish(a)
      /\ Disturb(es, a)
      /\ a.failed = 0 => MoveToUndo
      /\ a.failed # 0 => StacksStay
      /\ UNCHANGED <<undoSet, begun>>
  BY <1>1, RedoIs
<1>3. ASSUME MoveToUndo
      PROVE  /\ Timeline' = tl /\ Len(undoStack') = n + 1
             /\ n \in 0 .. Len(tl) - 1 /\ set = tl[n + 1]
  BY <1>1, <1>3, MovedForth
<1>4. tl \in Seq(Sets)
  BY <1>1, TimelineIs
<1>5. HistoryTold' <=>
        Chronicle(tainted', D, Timeline', Len(undoStack'), undoSet', Present', y)
  BY DEF HistoryTold
<1>6. CASE (Open("set") \/ a.failed # 0) /\ Pipeline \notin tainted'
  <2>1. tainted' = T \cup Touched(es)
    BY <1>2, <1>6 DEF Disturb
  <2>2. /\ Chronicle(tainted', D, tl, n, undoSet', Present', y)
        /\ \A o \in Objects \ tainted' : Own(es, o) = {}
    <3> HIDE DEF a, es
    <3> QED
      BY <1>2, <1>6, <2>1, DisturbTells
  <2>3. CASE StacksStay
    BY <1>5, <2>2, <2>3, TimelineStays
  <2>4. CASE MoveToUndo
    <3>1. n \in 0 .. Len(tl) - 1 /\ es = tl[n + 1].elements
      BY <1>3, <2>4
    <3>2. Chronicle(tainted', D, tl, n + 1, undoSet', Present', y)
      <4> DEFINE U == tainted'  x == Present'  us == undoSet'
      <4>1. /\ Chronicle(U, D, tl, n, us, x, y) /\ Pipeline \notin U
            /\ \A o \in Objects \ U : Own(tl[n + 1].elements, o) = {}
        BY <1>6, <2>2, <3>1
      <4> HIDE DEF U, D, tl, n, us, x, y
      <4>2. Chronicle(U, D, tl, n + 1, us, x, y)
        BY <1>4, <3>1, <4>1, ForthWithin
      <4> QED
        BY <4>2 DEF U, us, x
    <3> QED
      BY <1>3, <1>5, <2>4, <3>2
  <2> QED
    BY <1>2, <2>3, <2>4
<1>7. CASE ~Open("set") /\ a.failed = 0
  <2>1. nestedCount = 0
    BY <1>7, PresentIs DEF Telling
  <2>2. begun = NoState /\ undoSet = <<>> /\ Present = s
    BY <2>1, PresentIs DEF Telling
  <2>3. /\ tainted' = T /\ undoSet' = <<>> /\ Present' = y
    BY <1>2, <1>7, <2>2 DEF Disturb, Present
  <2>4. MoveToUndo
    BY <1>2, <1>7
  <2>5. /\ Timeline' = tl /\ Len(undoStack') = n + 1
        /\ n \in 0 .. Len(tl) - 1 /\ set = tl[n + 1]
    BY <1>3, <2>4
  <2>6. Chronicle(T, C, tl, n, <<>>, s, s)
    BY <2>2 DEF Telling, HistoryTold
  <2>7. /\ Tells(T, C, es, set.from, set.to) /\ Kept(T, C, es, set.to, set.from)
        /\ AgreeBut(T, set.from, s)
    <3>1. Len(tl) \in Nat /\ n \in Nat
      BY <1>1, TimelineIs
    <3> HIDE DEF tl, n, es, set, T, C, s
    <3>2. n + 1 \in 1 .. Len(tl) /\ n + 1 \in n + 1 .. Len(tl) /\ n < Len(tl)
      BY <2>5, <3>1
    <3>3. /\ Tells(T, C, tl[n + 1].elements, tl[n + 1].from, tl[n + 1].to)
          /\ Kept(T, C, tl[n + 1].elements, tl[n + 1].to, tl[n + 1].from)
          /\ AgreeBut(T, tl[n + 1].from, s)
      BY <2>6, <3>2 DEF Chronicle, Told, Restorable, Now
    <3> QED
      BY <2>5, <3>3 DEF es
  <2>8. /\ set.from \in World /\ set.to \in World /\ Sound(set.to)
    BY <1>2 DEF Sets
  <2> DEFINE order == Ascending(Len(es))  found == FoundIn(es, "redo")
             from == set.from  to == set.to
  <2>9. Leads(T, es, order, "redo", found, from, to)
    <3> HIDE DEF es, T, from, to
    <3>1. cache \in World
      BY <1>1 DEF StatesTyped
    <3>2. Tells(T, cache, es, from, to) /\ Kept(T, cache, es, to, from)
      BY <2>7 DEF from, to
    <3> QED
      BY <1>2, <3>1, <3>2, RedoLeads
  <2>10. from[Pipeline] = Registered
    BY <1>1, <2>7, Apart DEF AgreeBut, Registered
  <2>11. Sofar(Start, es, order, "redo", found, Len(es), a)
    <3>1. CanRun(Registered, es, order, "redo", found)
      BY <2>9, <2>10 DEF Leads
    <3> QED
      BY <1>1, <1>2, <1>7, <3>1, Redoing
  <2>12. OrderOf(order, es) /\ Len(order) = Len(es)
    <3>1. Len(es) \in 0 .. Len(es)
      BY <1>2
    <3> HIDE DEF es
    <3> QED
      BY <1>2, <3>1, Orders
  <2>13. found \in [Proxies -> States]
    BY <1>1, <1>2, FoundIs DEF StatesTyped
  <2>14. AgreeBut(T, to, y)
    <3>1. /\ AgreeBut(T, from, state) /\ to \in World /\ Sound(to) /\ from \in World
          /\ a \in Ats /\ Finish(a) /\ es \in Seq(Elements)
      BY <1>2, <2>7, <2>8
    <3> HIDE DEF T, es, order, found, from, to, a
    <3>2. AgreeBut(T, to, state')
      BY <1>1, <2>9, <2>11, <2>12, <2>13, <3>1, Arriving
    <3> QED
      BY <3>2
  <2>15. Learns(C, D, y)
    BY <1>1, <1>2, FinishLearns
  <2>16. \A p \in Proxies : p \in s[Pipeline] => C[p] = s[p]
    BY DEF Telling, Fresh, Registered
  <2>17. AgreeBut(T, tl[n + 1].to, y)
    BY <2>5, <2>14
  <2>18. Chronicle(T, D, tl, n + 1, <<>>, y, y)
    <3> HIDE DEF T, C, D, tl, n, s, y
    <3> QED
      BY <1>1, <1>4, <2>5, <2>6, <2>15, <2>16, <2>17, ForthOutside
  <2> QED
    BY <1>5, <2>3, <2>5, <2>18
<1> QED
  BY <1>6, <1>7

\* The first history is empty.
LEMMA ToldInit == Init => HInv
<1> SUFFICES ASSUME Init PROVE HInv
  OBVIOUS
<1>1. TInv
  BY TypedInit
<1>2. /\ cache = state /\ undoSet = <<>> /\ undoStack = <<>> /\ redoStack = <<>>
      /\ begun = NoState /\ tainted = {}
  BY DEF Init
<1>3. Fresh /\ Untainted
  BY <1>2 DEF Fresh, Untainted, Registered
<1>4. Timeline = <<>> /\ Len(undoStack) = 0
  <2>1. <<>> \in Seq(Sets) /\ Len(<<>>) = 0
    OBVIOUS
  <2>2. Joined(Sets, <<>>, Len(<<>>), <<>>, Len(<<>>), Timeline)
    BY <1>2, <2>1, JoinedIs DEF Timeline
  <2>3. Timeline \in Seq(Sets) /\ Len(Timeline) = 0
    BY <2>1, <2>2 DEF Joined
  <2> QED
    BY <1>2, <2>3
<1>5. Present = state /\ \A p \in Proxies : p \in state[Pipeline] => cache[p] # NoState
  BY <1>1, <1>2, PresentIs DEF Present
<1>6. Chronicle({}, cache, <<>>, 0, <<>>, state, state)
  BY <1>5, NoHistory
<1> QED
  BY <1>2, <1>3, <1>4, <1>5, <1>6 DEF HInv, HistoryTold

\* Every step keeps the history told.
LEMMA ToldStep == TInv /\ HInv /\ [Next]_vars => HInv'
<1> SUFFICES ASSUME TInv, HInv, [Next]_vars PROVE HInv'
  OBVIOUS
<1>1. TInv'
  BY TypedStep
<1>2. multiClients' = multiClients
  <2>1. ASSUME NEW p \in Proxies, NEW v \in Values, ChangeProxy(p, v) \/ CreateProxy(p, v)
        PROVE  multiClients' = multiClients
    BY <2>1 DEF ChangeProxy, CreateProxy
  <2>2. ASSUME NEW p \in Proxies,
               UnRegisterProxy(p) \/ Apply(p) \/ DeletedElsewhere(p)
        PROVE  multiClients' = multiClients
    BY <2>2 DEF UnRegisterProxy, Apply, DeletedElsewhere
  <2>3. CASE BeginNonUndoable \/ EndNonUndoable \/ BeginUndoSet \/ EndUndoSet \/ Clear
    BY <2>3 DEF BeginNonUndoable, EndNonUndoable, BeginUndoSet, EndUndoSet, Clear
  <2>4. CASE Undo \/ Redo \/ UNCHANGED vars
    BY <2>4 DEF Undo, Redo, vars
  <2> QED
    BY <2>1, <2>2, <2>3, <2>4 DEF Next
<1>3. CASE multiClients
  BY <1>2, <1>3 DEF HInv
<1>4. CASE ~multiClients
  <2>1. /\ Fresh /\ Untainted /\ (Pipeline \in tainted \/ HistoryTold)
        /\ StatesTyped /\ undoStack \in Seq(Sets) /\ redoStack \in Seq(Sets)
        /\ tainted \subseteq Objects
    BY <1>4 DEF HInv, TInv, SetsTyped, RestTyped
  <2>2. Fresh' /\ Untainted' /\ (Clear \/ tainted \subseteq tainted')
    BY <1>4, <2>1, FreshStep, UntaintedStep
  <2>3. CASE Clear
    BY <2>2, <2>3, ClearTells DEF HInv
  <2>4. CASE ~Clear /\ Pipeline \in tainted
    BY <2>2, <2>4 DEF HInv
  <2>5. CASE ~Clear /\ Pipeline \notin tainted
    <3> SUFFICES Pipeline \in tainted' \/ HistoryTold'
      BY <2>2 DEF HInv
    <3>1. Telling
      BY <1>4, <2>1, <2>5 DEF Telling
    <3>2. ASSUME NEW p \in Proxies,
                 \/ \E v \in Values : ChangeProxy(p, v) \/ CreateProxy(p, v)
                 \/ UnRegisterProxy(p)
          PROVE  Pipeline \in tainted' \/ HistoryTold'
      BY <1>1, <3>1, <3>2, ChangeTells
    <3>3. ASSUME NEW p \in Proxies, Apply(p)
          PROVE  HistoryTold'
      BY <3>1, <3>3, ApplyTells
    <3>4. \A p \in Proxies : ~DeletedElsewhere(p)
      BY <1>4 DEF DeletedElsewhere
    <3>5. CASE BeginUndoSet \/ EndUndoSet
      BY <1>1, <3>1, <3>5, BeginTells, EndTells
    <3>6. CASE BeginNonUndoable \/ EndNonUndoable \/ UNCHANGED vars
      <4>1. UNCHANGED <<state, cache, undoSet, undoStack, redoStack, begun, tainted>>
        BY <3>6 DEF BeginNonUndoable, EndNonUndoable, vars, setVars
      <4> QED
        BY <3>1, <4>1 DEF Telling, HistoryTold, Timeline, Present
    <3>7. CASE Undo \/ Redo
      BY <1>1, <3>1, <3>7, UndoTells, RedoTells
    <3> QED
      BY <2>5, <3>2, <3>3, <3>4, <3>5, <3>6, <3>7 DEF Next
  <2> QED
    BY <2>3, <2>4, <2>5
<1> QED
  BY <1>3, <1>4

\* For any proxies, values, depth and bounds: in a session of one client the
\* application is where its history says.  What undo and redo lead to is what
\* the next sets begin and end with, whatever was recorded, in sections or
\* not, undone, redone, deleted and created again before (vtkUndoStack,
\* vtkUndoSet, vtkSMUndoStackBuilder, UndoSetStateLocator).
THEOREM HistoryStaysCurrent == Spec => []HistoryIsCurrent
<1>1. TInv /\ HInv => HistoryIsCurrent
  BY ToldIsCurrent DEF TInv, SetsTyped
<1> QED
  BY <1>1, TypedInit, TypedStep, ToldInit, ToldStep, PTL DEF Spec

=============================================================================
