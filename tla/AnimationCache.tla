----------------------------- MODULE AnimationCache -----------------------------
(***************************************************************************)
(* The geometry caches of representations while an animation plays.        *)
(*                                                                         *)
(* A tick of the scene sets the time and the animated property, updates    *)
(* the view with UseCache on, lets Qt process events, and renders.  With   *)
(* UseCache, a representation takes its data from the cache if the frame   *)
(* is there, and saves it otherwise, as long as no process exceeds the     *)
(* limit.  Caches are cleared when a representation is marked modified     *)
(* while UseCache is off.                                                  *)
(*                                                                         *)
(* Whether it is marked depends on flags of the client's proxies, each of  *)
(* which stops the propagation of changes already known: NeedsUpdate of    *)
(* the source, MarkedModified of a representation, NeedsUpdate of the      *)
(* view.  One source, one view.                                            *)
(***************************************************************************)
EXTENDS Naturals, FiniteSets

CONSTANTS
  Process,  \* the processes that hold caches
  Repr,     \* the representations of the source in the view
  Time,     \* the frames of the animation
  Value,    \* values of the property users change
  Curve,    \* key frames of the animated property, different at every time
  Limit,    \* AnimationGeometryCacheLimit
  Size,     \* per process, the size of a frame of a representation
  None

ASSUME NoneAssumption == None \notin Time
ASSUME LimitAssumption == Limit \in Nat
ASSUME SizeAssumption == Size \in [Process -> Nat]
ASSUME FiniteAssumption == IsFiniteSet(Repr) /\ IsFiniteSet(Time)

VARIABLES
  param,     \* the property of the source
  curve,     \* the key frames
  visible,   \* visible representations
  enabled,   \* CacheGeometryForAnimation
  tick,      \* the tick under way: its time, and whether UseCache is on
  pipe,      \* source, representations, view and caches: see TypeOK
  disturbed, \* history: representations that may hold outdated frames
  passed     \* history: hidden during a caching tick, not updated since

inputs == <<param, curve, visible, enabled>>
vars == <<inputs, tick, pipe, disturbed, passed>>

-----------------------------------------------------------------------------
(* Caches and their account                                                *)

NoTick == [time |-> None, caching |-> FALSE]
UseCache == tick.caching

Data == [param : Value, curve : Curve, time : Time]
Nothing == [t \in {} |-> None]

\* What the source produces at the time of the view.
Produced(s) == [param |-> param, curve |-> s.applied, time |-> s.viewTime]

Frames(s, p, rs) == UNION {{<<r, t>> : t \in DOMAIN s.cache[p][r]} : r \in rs}
Kept(s) == {r \in Repr : \E p \in Process : DOMAIN s.cache[p][r] # {}}

FreeCacheSize(size, freed) == IF size > freed THEN size - freed ELSE 0

\* Mutant: the account is not told.
RemoveUnaccounted(s, rs) ==
  [s EXCEPT !.cache = [p \in Process |->
                [r \in Repr |-> IF r \in rs THEN Nothing ELSE s.cache[p][r]]]]

RemoveAllCaches(s, rs) ==
  [s EXCEPT
    !.cache = [p \in Process |->
                [r \in Repr |-> IF r \in rs THEN Nothing ELSE s.cache[p][r]]],
    !.size = [p \in Process |->
                FreeCacheSize(s.size[p], Size[p] * Cardinality(Frames(s, p, rs)))]]

\* vtkPVView::Update with UseCache on: full on all processes if on one.
CacheLimit == IF enabled THEN Limit ELSE 0
\* Mutant: every process decides for itself.
SetCacheFullAlone(s) ==
  [s EXCEPT !.full = [p \in Process |-> s.size[p] > CacheLimit]]

SetCacheFull(s) ==
  [s EXCEPT !.full = [p \in Process |->
                       \E q \in Process : s.size[q] > CacheLimit]]

-----------------------------------------------------------------------------
(* What a change marks, and what an update of the view does                *)

\* Mutant: caches are kept whether or not they are in use.
MarkModifiedKeeping(s, useCache) ==
  IF s.sourceDirty THEN s
  ELSE [s EXCEPT !.sourceDirty = TRUE, !.viewDirty = TRUE,
          !.marked = Repr, !.updated = @ \cap s.marked,
          !.need = @ \cup (Repr \ s.marked)]

\* MarkModified of the source, through MarkDirtyFromProducer of those
\* representations that have not been marked since they were last updated.
MarkModified(s, useCache) ==
  LET news == Repr \ s.marked IN
  IF s.sourceDirty THEN s
  ELSE [RemoveAllCaches(s, IF useCache THEN {} ELSE news) EXCEPT
         !.sourceDirty = TRUE, !.viewDirty = TRUE,
         !.marked = Repr, !.updated = @ \ news, !.need = @ \cup news]

\* The view passes its time on before it updates representations.
SetUpdateTime(s, useCache) ==
  IF s.updateTime = s.viewTime THEN s
  ELSE [RemoveAllCaches(s, IF useCache THEN {} ELSE Repr) EXCEPT
         !.updateTime = s.viewTime, !.need = Repr]

\* Mutant: a full cache is filled further.
SavedAlways(s, rs, key, p) == {r \in rs : key \notin DOMAIN s.cache[p][r]}

\* RequestData of the representations in rs, on all processes.
Saved(s, rs, key, p) ==
  IF s.full[p] THEN {} ELSE {r \in rs : key \notin DOMAIN s.cache[p][r]}

RequestData(s, rs, useCache, key) ==
  LET saved(p) == IF useCache THEN Saved(s, rs, key, p) ELSE {}
      hit(p, r) == useCache /\ key \in DOMAIN s.cache[p][r]
  IN [s EXCEPT
       !.cache = [p \in Process |-> [r \in Repr |->
                   IF r \in saved(p)
                     THEN [t \in DOMAIN s.cache[p][r] \cup {key} |->
                            IF t = key THEN Produced(s) ELSE s.cache[p][r][t]]
                     ELSE s.cache[p][r]]],
       !.size = [p \in Process |-> @[p] + Size[p] * Cardinality(saved(p))],
       !.shown = [p \in Process |-> [r \in Repr |->
                   IF r \notin rs THEN s.shown[p][r]
                   ELSE IF hit(p, r) THEN s.cache[p][r][key] ELSE Produced(s)]],
       !.need = @ \ rs, !.marked = @ \ rs, !.updated = @ \cup rs]

\* ViewUpdated: PostUpdateData of the representations reaches the source if
\* one of them is updated and not marked.
PostUpdateData(s) ==
  [s EXCEPT !.sourceDirty = @ /\ s.updated \subseteq s.marked,
            !.viewDirty = FALSE]

\* vtkSMViewProxy::Update.
Update(s, useCache, key) ==
  LET full == IF useCache THEN SetCacheFull(s) ELSE s
      timed == SetUpdateTime(full, useCache)
  IN IF ~s.viewDirty THEN s
     ELSE PostUpdateData(RequestData(timed, visible \cap timed.need, useCache, key))

-----------------------------------------------------------------------------
Init ==
  /\ param \in Value /\ curve \in Curve
  /\ visible = Repr /\ enabled = FALSE
  /\ tick = NoTick
  /\ \E t \in Time :
       pipe = [sourceDirty |-> FALSE, viewDirty |-> TRUE,
               marked |-> {}, updated |-> {}, need |-> Repr,
               applied |-> curve, viewTime |-> t, updateTime |-> None,
               cache |-> [p \in Process |-> [r \in Repr |-> Nothing]],
               size |-> [p \in Process |-> 0],
               full |-> [p \in Process |-> FALSE],
               shown |-> [p \in Process |-> [r \in Repr |-> None]]]
  /\ disturbed = {} /\ passed = {}

\* A user changes the property, at any time: also during a tick.
ModifyParam(v) ==
  /\ v # param
  /\ param' = v
  /\ pipe' = MarkModified(pipe, UseCache)
  /\ disturbed' = IF UseCache THEN disturbed \cup Kept(pipe')
                  ELSE (disturbed \cup passed) \cap Kept(pipe')
  /\ UNCHANGED <<curve, visible, enabled, tick, passed>>

\* Cues are no producers of representations: nothing is marked.
EditKeyFrames(c) ==
  /\ c # curve
  /\ curve' = c
  /\ disturbed' = IF UseCache THEN Repr ELSE disturbed \cup Kept(pipe)
  /\ UNCHANGED <<param, visible, enabled, tick, pipe, passed>>

\* Mutant: a representation that is dirty does not tell the view.
SetVisibilityOnce(r) ==
  /\ visible' = IF r \in visible THEN visible \ {r} ELSE visible \cup {r}
  /\ pipe' = [pipe EXCEPT !.viewDirty = @ \/ r \notin pipe.marked]
  /\ UNCHANGED <<param, curve, enabled, tick, disturbed, passed>>

SetVisibility(r) ==
  /\ visible' = IF r \in visible THEN visible \ {r} ELSE visible \cup {r}
  /\ pipe' = [pipe EXCEPT !.viewDirty = TRUE]
  /\ UNCHANGED <<param, curve, enabled, tick, disturbed, passed>>

SetCacheGeometryForAnimation(val) ==
  /\ enabled # val
  /\ enabled' = val
  /\ UNCHANGED <<param, curve, visible, tick, pipe, disturbed, passed>>

StillRender ==
  /\ pipe' = Update(pipe, UseCache, tick.time)
  /\ disturbed' = IF UseCache THEN disturbed ELSE disturbed \cap Kept(pipe')
  /\ passed' = passed \ visible
  /\ UNCHANGED <<inputs, tick>>

\* Data information of the source is gathered.
UpdatePipeline ==
  /\ pipe.sourceDirty
  /\ pipe' = [pipe EXCEPT !.sourceDirty = FALSE]
  /\ UNCHANGED <<inputs, tick, disturbed, passed>>

\* Mutant: the time is not set.
CueUntimed(s, t) == [s EXCEPT !.applied = curve]

\* What the cues of a tick set: the time of the view and the property.
Cue(s, t) == [s EXCEPT !.viewTime = t, !.applied = curve]

\* A tick up to TickInternal of the superclass: cues, and UpdateAllViews.
BeginTick(t) ==
  LET cued == Cue(pipe, t)
      marked == IF cued = pipe THEN pipe ELSE MarkModified(cued, enabled)
  IN /\ tick = NoTick
     /\ tick' = [time |-> t, caching |-> enabled]
     /\ pipe' = Update(marked, enabled, t)
     /\ disturbed' = IF enabled THEN disturbed ELSE disturbed \cap Kept(pipe')
     /\ passed' = IF enabled THEN Repr \ visible ELSE passed \ visible
     /\ UNCHANGED inputs

\* Its end, after Qt has processed events: StillRenderAllViews.
EndTick ==
  /\ tick # NoTick
  /\ pipe' = Update(pipe, UseCache, tick.time)
  /\ tick' = NoTick
  /\ disturbed' = disturbed \cap Kept(pipe')
  /\ passed' = IF UseCache THEN Repr \ visible ELSE passed \ visible
  /\ UNCHANGED inputs

Next ==
  \/ \E v \in Value : ModifyParam(v)
  \/ \E c \in Curve : EditKeyFrames(c)
  \/ \E r \in Repr : SetVisibility(r)
  \/ \E val \in BOOLEAN : SetCacheGeometryForAnimation(val)
  \/ StillRender
  \/ UpdatePipeline
  \/ \E t \in Time : BeginTick(t)
  \/ EndTick

Spec == Init /\ [][Next]_vars

-----------------------------------------------------------------------------
(* Properties                                                              *)

Cache == UNION {[T -> Data] : T \in SUBSET Time}

\* The variables have their types; a tick has set the time of the view.
TypeOK ==
  /\ param \in Value /\ curve \in Curve
  /\ visible \subseteq Repr /\ enabled \in BOOLEAN
  /\ tick \in {NoTick} \cup [time : Time, caching : BOOLEAN]
  /\ pipe \in [sourceDirty : BOOLEAN, viewDirty : BOOLEAN,
               marked : SUBSET Repr, updated : SUBSET Repr, need : SUBSET Repr,
               applied : Curve, viewTime : Time, updateTime : Time \cup {None},
               cache : [Process -> [Repr -> Cache]],
               size : [Process -> Nat], full : [Process -> BOOLEAN],
               shown : [Process -> [Repr -> Data \cup {None}]]]
  /\ disturbed \subseteq Repr /\ passed \subseteq Repr
  /\ tick # NoTick => pipe.viewTime = tick.time

\* All processes have the same frames in their caches, and agree whether they
\* are full, however large the data is on each: otherwise some would execute
\* a pipeline that others skip, and wait for them in its collectives.
ProcessesAgree ==
  \A p, q \in Process :
    /\ pipe.full[p] = pipe.full[q]
    /\ \A r \in Repr : DOMAIN pipe.cache[p][r] = DOMAIN pipe.cache[q][r]

\* vtkCacheSizeKeeper's account is the size of what is in the caches, after
\* any number of savings and clearings.
AccountIsExact ==
  \A p \in Process :
    pipe.size[p] = Size[p] * Cardinality(Frames(pipe, p, Repr))

\* No process exceeds the limit by more than the frames of one update.
OvershootIsBounded ==
  \A p \in Process : pipe.size[p] <= Limit + Size[p] * Cardinality(Repr)

Current(d, t) == d = [param |-> param, curve |-> curve, time |-> t]

\* A cached frame is what the pipeline would produce now, unless the property
\* was changed during a caching tick, the key frames were edited, or the
\* representation was hidden during a caching tick and the change came before
\* it was updated again.
FramesAreCurrent ==
  \A p \in Process : \A r \in Repr \ disturbed :
    \A t \in DOMAIN pipe.cache[p][r] : Current(pipe.cache[p][r][t], t)

\* When the view is up to date, an undisturbed visible representation shows
\* what the pipeline would produce: no chain of flags loses a change.
ShownIsCurrent ==
  ~pipe.viewDirty =>
    \A p \in Process : \A r \in visible \ disturbed :
      pipe.shown[p][r] = Produced(pipe)
=============================================================================
