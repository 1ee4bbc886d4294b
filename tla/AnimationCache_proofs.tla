-------------------------- MODULE AnimationCache_proofs --------------------------
(***************************************************************************)
(* Proofs about AnimationCache: caches never hold outdated frames, and     *)
(* views never show them, but for the disturbances the model names; what   *)
(* the account of cached data says is what is cached.                      *)
(***************************************************************************)
EXTENDS AnimationCache, FiniteSetTheorems, TLAPS

-----------------------------------------------------------------------------
(* The inductive invariant                                                 *)

\* Types of what is in pipe.
Typed(s) ==
  s \in [sourceDirty : BOOLEAN, viewDirty : BOOLEAN,
         marked : SUBSET Repr, updated : SUBSET Repr, need : SUBSET Repr,
         applied : Curve, viewTime : Time, updateTime : Time \cup {None},
         cache : [Process -> [Repr -> Cache]],
         size : [Process -> Nat], full : [Process -> BOOLEAN],
         shown : [Process -> [Repr -> Data \cup {None}]]]

Agree(s) ==
  \A p, q \in Process :
    /\ s.full[p] = s.full[q]
    /\ \A r \in Repr : DOMAIN s.cache[p][r] = DOMAIN s.cache[q][r]

Within(s) ==
  \A p \in Process : s.size[p] <= Limit + Size[p] * Cardinality(Repr)

\* A dirty source has marked every representation, a marked one needs an
\* update.
Flags(s) ==
  /\ s.sourceDirty => s.marked = Repr
  /\ s.marked \subseteq s.need

Empty(s, r) == \A p \in Process : DOMAIN s.cache[p][r] = {}

\* Frames of all but the disturbed are those of the inputs.
Good(s, ds, v, c) ==
  \A p \in Process : \A r \in Repr \ ds : \A t \in DOMAIN s.cache[p][r] :
    s.cache[p][r][t] = [param |-> v, curve |-> c, time |-> t]

\* What needs no update shows what the pipeline would produce.
ShownGood(s, ds, v) ==
  \A p \in Process : \A r \in Repr :
    r \notin s.need /\ (r \notin ds \/ Empty(s, r)) =>
      s.shown[p][r] = [param |-> v, curve |-> s.applied, time |-> s.viewTime]

\* Without UseCache, who is marked has no frames, or was hidden in a tick.
MarkedAreEmpty(s, ps) == \A r \in s.marked : r \in ps \/ Empty(s, r)

TickInv ==
  /\ tick # NoTick => pipe.viewTime = tick.time
  /\ UseCache => pipe.applied = curve \/ disturbed = Repr

IInv ==
  /\ param \in Value /\ curve \in Curve
  /\ visible \subseteq Repr /\ enabled \in BOOLEAN
  /\ tick \in {NoTick} \cup [time : Time, caching : BOOLEAN]
  /\ disturbed \subseteq Repr /\ passed \subseteq Repr
  /\ Typed(pipe) /\ Agree(pipe) /\ Within(pipe)
  /\ Flags(pipe)
  /\ Good(pipe, disturbed, param, curve)
  /\ ShownGood(pipe, disturbed, param)
  /\ ~UseCache => MarkedAreEmpty(pipe, passed)
  /\ ~pipe.viewDirty => visible \cap pipe.need = {}
  /\ TickInv

-----------------------------------------------------------------------------
(* Clearing caches                                                         *)

\* What is cleared has no frames, the rest keeps them; nothing else changes.
Cleared(s, u, rs) ==
  /\ \A p \in Process : \A r \in Repr :
       u.cache[p][r] = IF r \in rs THEN Nothing ELSE s.cache[p][r]
  /\ u.sourceDirty = s.sourceDirty /\ u.viewDirty = s.viewDirty
  /\ u.marked = s.marked /\ u.updated = s.updated /\ u.need = s.need
  /\ u.applied = s.applied /\ u.viewTime = s.viewTime
  /\ u.updateTime = s.updateTime /\ u.full = s.full /\ u.shown = s.shown

\* The empty cache is a cache.
LEMMA NothingIsCache == Nothing \in Cache /\ DOMAIN Nothing = {}
BY DEF Nothing, Cache

\* The frames of a representation are finitely many.
LEMMA FramesFinite ==
  ASSUME NEW s, Typed(s), NEW p \in Process, NEW rs \in SUBSET Repr
  PROVE Cardinality(Frames(s, p, rs)) \in Nat
<1>1. \A r \in rs : DOMAIN s.cache[p][r] \subseteq Time
  BY DEF Typed, Cache
<1>2. Frames(s, p, rs) \subseteq rs \X Time
  BY <1>1 DEF Frames
<1>3. IsFiniteSet(rs) /\ IsFiniteSet(Time)
  BY FiniteAssumption, FS_Subset
<1>4. IsFiniteSet(rs \X Time)
  BY <1>3, FS_Product
<1>5. IsFiniteSet(Frames(s, p, rs))
  BY <1>2, <1>4, FS_Subset
<1> QED
  BY <1>5, FS_CardinalityType

\* Freeing makes the account no larger, and never negative.
LEMMA FreedIsLess ==
  ASSUME NEW a \in Nat, NEW b \in Nat
  PROVE FreeCacheSize(a, b) \in Nat /\ FreeCacheSize(a, b) <= a
BY DEF FreeCacheSize

\* Products of sizes and numbers are sizes.
LEMMA TimesNat == \A a, b \in Nat : a * b \in Nat
OBVIOUS

\* Clearing keeps types, the agreement of processes, and the bound.
LEMMA ClearingIsSafe ==
  ASSUME NEW s, Typed(s), NEW rs \in SUBSET Repr
  PROVE /\ Typed(RemoveAllCaches(s, rs))
        /\ Cleared(s, RemoveAllCaches(s, rs), rs)
        /\ Agree(s) => Agree(RemoveAllCaches(s, rs))
        /\ Within(s) => Within(RemoveAllCaches(s, rs))
        /\ \A p \in Process : RemoveAllCaches(s, rs).size[p] <= s.size[p]
<1> DEFINE u == RemoveAllCaches(s, rs)
           freed(p) == Size[p] * Cardinality(Frames(s, p, rs))
<1>0. /\ s.full \in [Process -> BOOLEAN]
      /\ s.size \in [Process -> Nat]
      /\ s.cache \in [Process -> [Repr -> Cache]]
  BY DEF Typed
<1>1. /\ u.cache = [p \in Process |->
                     [r \in Repr |-> IF r \in rs THEN Nothing ELSE s.cache[p][r]]]
      /\ u.size = [p \in Process |-> FreeCacheSize(s.size[p], freed(p))]
      /\ u.sourceDirty = s.sourceDirty /\ u.viewDirty = s.viewDirty
      /\ u.marked = s.marked /\ u.updated = s.updated /\ u.need = s.need
      /\ u.applied = s.applied /\ u.viewTime = s.viewTime
      /\ u.updateTime = s.updateTime /\ u.full = s.full /\ u.shown = s.shown
  BY DEF Typed, RemoveAllCaches
<1>2. \A p \in Process : freed(p) \in Nat
  BY FramesFinite, TimesNat, SizeAssumption
<1> HIDE DEF freed
<1>3. \A p \in Process : u.size[p] \in Nat /\ u.size[p] <= s.size[p]
  BY <1>0, <1>1, <1>2, FreedIsLess
<1>4. u.cache \in [Process -> [Repr -> Cache]]
  BY <1>0, <1>1, NothingIsCache
<1>5. u.size \in [Process -> Nat]
  BY <1>1, <1>3
<1>6. Typed(u)
  BY <1>4, <1>5 DEF Typed, RemoveAllCaches
<1>7. Cleared(s, u, rs)
  BY <1>1 DEF Cleared
<1>8. Agree(s) => Agree(u)
  BY <1>7 DEF Agree, Cleared
<1>9. Within(s) => Within(u)
  <2> SUFFICES ASSUME Within(s), NEW p \in Process
               PROVE u.size[p] <= Limit + Size[p] * Cardinality(Repr)
    BY DEF Within
  <2> DEFINE bound == Limit + Size[p] * Cardinality(Repr)
  <2>1. s.size[p] <= bound /\ u.size[p] <= s.size[p]
    BY <1>3 DEF Within
  <2>2. bound \in Nat /\ s.size[p] \in Nat /\ u.size[p] \in Nat
    <3>1. Cardinality(Repr) \in Nat
      BY FiniteAssumption, FS_CardinalityType
    <3>2. Size[p] \in Nat
      BY SizeAssumption
    <3>3. Size[p] * Cardinality(Repr) \in Nat
      BY <3>1, <3>2, TimesNat
    <3>4. bound \in Nat
      BY <3>3, LimitAssumption
    <3>5. s.size[p] \in Nat /\ u.size[p] \in Nat
      BY <1>0, <1>3
    <3>6. QED
      BY <3>4, <3>5
  <2> HIDE DEF bound
  <2>3. u.size[p] <= bound
    BY <2>1, <2>2
  <2> QED
    BY <2>3 DEF bound
<1> QED
  BY <1>3, <1>6, <1>7, <1>8, <1>9
-----------------------------------------------------------------------------
(* Marking, and passing the time                                           *)

\* Afterwards all are marked and need an update.  A cache is cleared, if
\* UseCache is off, unless its representation was marked already.
Marked(s, u, b) ==
  /\ u.need = Repr /\ u.marked = Repr
  /\ u = s \/ u.viewDirty
  /\ u.applied = s.applied /\ u.viewTime = s.viewTime
  /\ \A r \in Repr : \/ \A p \in Process : u.cache[p][r] = s.cache[p][r]
                     \/ Empty(u, r)
  /\ ~b => \A r \in Repr \ s.marked : Empty(u, r)

\* Marking keeps what holds of every record; what it does besides is Marked.
LEMMA MarkingIsSafe ==
  ASSUME NEW s, Typed(s), Agree(s), Within(s), Flags(s), NEW b \in BOOLEAN
  PROVE LET u == MarkModified(s, b)
        IN Typed(u) /\ Agree(u) /\ Within(u) /\ Flags(u) /\ Marked(s, u, b)
<1> DEFINE u == MarkModified(s, b)
<1>0. s.marked \subseteq Repr /\ s.need \subseteq Repr
  BY DEF Typed
<1>1. CASE s.sourceDirty
  <2>1. u = s
    BY <1>1 DEF MarkModified
  <2>2. s.marked = Repr /\ s.need = Repr
    BY <1>0, <1>1 DEF Flags
  <2>3. Marked(s, u, b)
    BY <2>1, <2>2 DEF Marked
  <2> QED
    BY <2>1, <2>3
<1>2. CASE ~s.sourceDirty
  <2> DEFINE news == Repr \ s.marked
             rs == IF b THEN {} ELSE news
             w == RemoveAllCaches(s, rs)
  <2>1. rs \in SUBSET Repr
    OBVIOUS
  <2> HIDE DEF rs
  <2>2. Typed(w) /\ Cleared(s, w, rs) /\ Agree(w) /\ Within(w)
    BY <2>1, ClearingIsSafe
  <2>3. u = [w EXCEPT !.sourceDirty = TRUE, !.viewDirty = TRUE,
              !.marked = Repr, !.updated = @ \ news, !.need = @ \cup news]
    BY <1>2 DEF MarkModified, rs
  <2> HIDE DEF w, u
  <2>4. /\ u.cache = w.cache /\ u.size = w.size /\ u.full = w.full
        /\ u.shown = w.shown /\ u.applied = w.applied
        /\ u.viewTime = w.viewTime /\ u.updateTime = w.updateTime
        /\ u.sourceDirty = TRUE /\ u.viewDirty = TRUE /\ u.marked = Repr
        /\ u.need = w.need \cup news
    BY <2>2, <2>3 DEF Typed
  <2>5. Typed(u)
    BY <2>2, <2>3 DEF Typed
  <2>6. Agree(u) /\ Within(u)
    BY <2>2, <2>4 DEF Agree, Within
  <2>7. u.need = Repr
    BY <1>0, <2>2, <2>4 DEF Cleared, Flags
  <2>8. Flags(u)
    BY <2>4, <2>7 DEF Flags
  <2>9. \A r \in Repr : \A p \in Process :
          u.cache[p][r] = IF r \in rs THEN Nothing ELSE s.cache[p][r]
    BY <2>2, <2>4 DEF Cleared
  <2>10. \A r \in rs : Empty(u, r)
    BY <2>1, <2>9, NothingIsCache DEF Empty
  <2>11. ~b => rs = Repr \ s.marked
    BY DEF rs
  <2>12. Marked(s, u, b)
    BY <2>2, <2>4, <2>7, <2>9, <2>10, <2>11 DEF Marked, Cleared
  <2> QED
    BY <2>5, <2>6, <2>8, <2>12 DEF u
<1> QED
  BY <1>1, <1>2

\* Passing the time on makes all need an update, and clears without UseCache,
\* or does nothing at all.
TimePassed(s, u, b) ==
  /\ u.marked = s.marked /\ u.sourceDirty = s.sourceDirty
  /\ u.viewDirty = s.viewDirty /\ u.updated = s.updated
  /\ u.applied = s.applied /\ u.viewTime = s.viewTime
  /\ u.full = s.full /\ u.shown = s.shown
  /\ \/ u.need = s.need /\ u.cache = s.cache
     \/ u.need = Repr
  /\ \A r \in Repr : \/ \A p \in Process : u.cache[p][r] = s.cache[p][r]
                     \/ ~b /\ Empty(u, r)
  /\ \A p \in Process : u.size[p] <= s.size[p]

\* So does passing the time of the view on, which does TimePassed.
LEMMA PassingTimeIsSafe ==
  ASSUME NEW s, Typed(s), Agree(s), Within(s), Flags(s), NEW b \in BOOLEAN
  PROVE LET u == SetUpdateTime(s, b)
        IN Typed(u) /\ Agree(u) /\ Within(u) /\ Flags(u) /\ TimePassed(s, u, b)
<1> DEFINE u == SetUpdateTime(s, b)
<1>0. s.marked \subseteq Repr /\ s.size \in [Process -> Nat]
  BY DEF Typed
<1>1. CASE s.updateTime = s.viewTime
  <2>1. u = s
    BY <1>1 DEF SetUpdateTime
  <2>2. \A p \in Process : s.size[p] <= s.size[p]
    BY <1>0
  <2>3. TimePassed(s, s, b)
    BY <2>2 DEF TimePassed
  <2> HIDE DEF u
  <2> QED
    BY <2>1, <2>3 DEF u
<1>2. CASE s.updateTime # s.viewTime
  <2> DEFINE rs == IF b THEN {} ELSE Repr
             w == RemoveAllCaches(s, rs)
  <2>1. rs \in SUBSET Repr
    OBVIOUS
  <2>a. b => rs = {}
    OBVIOUS
  <2> HIDE DEF rs
  <2>2. /\ Typed(w) /\ Cleared(s, w, rs) /\ Agree(w) /\ Within(w)
        /\ \A p \in Process : w.size[p] <= s.size[p]
    BY <2>1, ClearingIsSafe
  <2>3. u = [w EXCEPT !.updateTime = s.viewTime, !.need = Repr]
    BY <1>2 DEF SetUpdateTime, rs
  <2> HIDE DEF w, u
  <2>4. /\ u.cache = w.cache /\ u.size = w.size /\ u.full = w.full
        /\ u.shown = w.shown /\ u.applied = w.applied
        /\ u.viewTime = w.viewTime /\ u.need = Repr
        /\ u.sourceDirty = w.sourceDirty /\ u.viewDirty = w.viewDirty
        /\ u.marked = w.marked /\ u.updated = w.updated
    BY <2>2, <2>3 DEF Typed
  <2>5. s.viewTime \in Time
    BY DEF Typed
  <2>6. Typed(u)
    BY <2>2, <2>3, <2>5 DEF Typed
  <2>7. Agree(u) /\ Within(u)
    BY <2>2, <2>4 DEF Agree, Within
  <2>8. Flags(u)
    BY <1>0, <2>2, <2>4 DEF Flags, Cleared
  <2>9. \A r \in Repr : \A p \in Process :
          u.cache[p][r] = IF r \in rs THEN Nothing ELSE s.cache[p][r]
    BY <2>2, <2>4 DEF Cleared
  <2>10. \A r \in rs : Empty(u, r)
    BY <2>1, <2>9, NothingIsCache DEF Empty
  <2>11. TimePassed(s, u, b)
    BY <2>2, <2>4, <2>9, <2>10, <2>a DEF TimePassed, Cleared
  <2> QED
    BY <2>6, <2>7, <2>8, <2>11 DEF u
<1> QED
  BY <1>1, <1>2
-----------------------------------------------------------------------------
(* Executing representations                                               *)

\* Representations in rs are no longer marked.  Entries are those before, or
\* a new one under key of what the source produces; and a representation in
\* rs shows its entry if it uses one.
Requested(s, u, rs, b, key) ==
  /\ u.need = s.need \ rs /\ u.marked = s.marked \ rs
  /\ u.sourceDirty = s.sourceDirty /\ u.viewDirty = s.viewDirty
  /\ u.updated = s.updated \cup rs
  /\ u.applied = s.applied /\ u.viewTime = s.viewTime
  /\ \A p \in Process : \A r \in Repr :
       \/ u.cache[p][r] = s.cache[p][r]
       \/ /\ b /\ r \in rs
          /\ \A t \in DOMAIN u.cache[p][r] :
               IF t = key THEN u.cache[p][r][t] = Produced(s)
               ELSE t \in DOMAIN s.cache[p][r] /\ u.cache[p][r][t] = s.cache[p][r][t]
  /\ \A p \in Process : \A r \in Repr \ rs : u.shown[p][r] = s.shown[p][r]
  /\ \A p \in Process : \A r \in rs :
       \/ u.shown[p][r] = Produced(s)
       \/ /\ b /\ key \in DOMAIN s.cache[p][r]
          /\ u.shown[p][r] = s.cache[p][r][key]
          /\ key \in DOMAIN u.cache[p][r]

\* On every process that may save, there is room below the limit.
HasRoom(s) == \A p \in Process : ~s.full[p] => s.size[p] <= Limit

\* More frames take more room.
LEMMA TimesMonotone ==
  \A a, m, n \in Nat : m <= n => a * m <= a * n
OBVIOUS

\* So does a request for data, as long as there is room below the limit.
LEMMA RequestingIsSafe ==
  ASSUME NEW s, Typed(s), Agree(s), Within(s), NEW rs \in SUBSET Repr,
         NEW b \in BOOLEAN, NEW key, b => key \in Time /\ HasRoom(s),
         param \in Value
  PROVE LET u == RequestData(s, rs, b, key)
        IN Typed(u) /\ Agree(u) /\ Within(u) /\ Requested(s, u, rs, b, key)
<1> DEFINE saved(p) == IF b THEN Saved(s, rs, key, p) ELSE {}
           hit(p, r) == b /\ key \in DOMAIN s.cache[p][r]
           u == RequestData(s, rs, b, key)
           grown(p, r) == [t \in DOMAIN s.cache[p][r] \cup {key} |->
                            IF t = key THEN Produced(s) ELSE s.cache[p][r][t]]
<1>0. /\ s.size \in [Process -> Nat] /\ s.cache \in [Process -> [Repr -> Cache]]
      /\ s.shown \in [Process -> [Repr -> Data \cup {None}]]
      /\ s.full \in [Process -> BOOLEAN]
      /\ Produced(s) \in Data
  BY DEF Typed, Produced, Data
<1>1. u = [s EXCEPT
       !.cache = [p \in Process |-> [r \in Repr |->
                   IF r \in saved(p) THEN grown(p, r) ELSE s.cache[p][r]]],
       !.size = [p \in Process |-> @[p] + Size[p] * Cardinality(saved(p))],
       !.shown = [p \in Process |-> [r \in Repr |->
                   IF r \notin rs THEN s.shown[p][r]
                   ELSE IF hit(p, r) THEN s.cache[p][r][key] ELSE Produced(s)]],
       !.need = @ \ rs, !.marked = @ \ rs, !.updated = @ \cup rs]
  BY DEF RequestData
<1>2. \A p \in Process : saved(p) \subseteq rs /\ saved(p) \subseteq Repr
  BY DEF Saved
<1>3. \A p \in Process : saved(p) # {} => b /\ ~s.full[p]
  BY DEF Saved
<1>4. \A p \in Process : Cardinality(saved(p)) \in Nat
                         /\ Cardinality(saved(p)) <= Cardinality(Repr)
                         /\ Cardinality(Repr) \in Nat
  BY <1>2, FiniteAssumption, FS_Subset, FS_CardinalityType
<1>5. \A p, q \in Process : saved(p) = saved(q)
  BY DEF Agree, Saved
<1>h. \A p \in Process : \A r \in Repr : hit(p, r) => s.cache[p][r][key] \in Data
  BY <1>0 DEF Cache
<1>g. \A p \in Process : \A r \in saved(p) : grown(p, r) \in Cache
  <2> SUFFICES ASSUME NEW p \in Process, NEW r \in saved(p)
               PROVE grown(p, r) \in Cache
    OBVIOUS
  <2>1. s.cache[p][r] \in Cache /\ key \in Time
    BY <1>0, <1>2, <1>3
  <2>2. DOMAIN s.cache[p][r] \subseteq Time
        /\ \A t \in DOMAIN s.cache[p][r] : s.cache[p][r][t] \in Data
    BY <2>1 DEF Cache
  <2>3. DOMAIN s.cache[p][r] \cup {key} \in SUBSET Time
    BY <2>1, <2>2
  <2>4. grown(p, r) \in [DOMAIN s.cache[p][r] \cup {key} -> Data]
    BY <1>0, <2>2
  <2> QED
    BY <2>3, <2>4 DEF Cache
<1>z. \A p \in Process : Cardinality({}) = 0
  BY FS_EmptySet
<1> HIDE DEF saved
<1>6. /\ u.cache = [p \in Process |-> [r \in Repr |->
                     IF r \in saved(p) THEN grown(p, r) ELSE s.cache[p][r]]]
      /\ u.size = [p \in Process |-> s.size[p] + Size[p] * Cardinality(saved(p))]
      /\ u.shown = [p \in Process |-> [r \in Repr |->
                     IF r \notin rs THEN s.shown[p][r]
                     ELSE IF hit(p, r) THEN s.cache[p][r][key] ELSE Produced(s)]]
      /\ u.need = s.need \ rs /\ u.marked = s.marked \ rs
      /\ u.updated = s.updated \cup rs
      /\ u.sourceDirty = s.sourceDirty /\ u.viewDirty = s.viewDirty
      /\ u.applied = s.applied /\ u.viewTime = s.viewTime
      /\ u.full = s.full /\ u.updateTime = s.updateTime
  <2> HIDE DEF u, grown, hit
  <2> QED
    BY <1>1 DEF Typed
<1>7. \A p \in Process : Size[p] * Cardinality(saved(p)) \in Nat
  BY <1>4, TimesNat, SizeAssumption
<1>8. u.size \in [Process -> Nat]
  BY <1>0, <1>6, <1>7
<1>9. u.cache \in [Process -> [Repr -> Cache]]
  <2> HIDE DEF u, grown
  <2> QED
    BY <1>0, <1>2, <1>6, <1>g
<1>10. u.shown \in [Process -> [Repr -> Data \cup {None}]]
  <2> HIDE DEF u, hit
  <2> QED
    BY <1>0, <1>6, <1>h
<1>11. Typed(u)
  <2>1. /\ u.need \in SUBSET Repr /\ u.marked \in SUBSET Repr
        /\ u.updated \in SUBSET Repr
    BY <1>6 DEF Typed
  <2> HIDE DEF grown, hit
  <2> QED
    BY <1>1, <1>8, <1>9, <1>10, <2>1 DEF Typed
<1>12. Agree(u)
  <2> SUFFICES ASSUME NEW p \in Process, NEW q \in Process
               PROVE /\ u.full[p] = u.full[q]
                     /\ \A r \in Repr : DOMAIN u.cache[p][r] = DOMAIN u.cache[q][r]
    BY DEF Agree
  <2>1. u.full[p] = u.full[q]
    BY <1>6 DEF Agree
  <2>2. ASSUME NEW r \in Repr PROVE DOMAIN u.cache[p][r] = DOMAIN u.cache[q][r]
    <3>1. DOMAIN s.cache[p][r] = DOMAIN s.cache[q][r] /\ saved(p) = saved(q)
      BY <1>5 DEF Agree
    <3>2. CASE r \in saved(p)
      <4>1. u.cache[p][r] = grown(p, r) /\ u.cache[q][r] = grown(q, r)
        BY <1>6, <3>1, <3>2
      <4> QED
        BY <4>1, <3>1
    <3>3. CASE r \notin saved(p)
      BY <1>6, <3>1, <3>3
    <3> QED
      BY <3>2, <3>3
  <2> QED
    BY <2>1, <2>2
<1>13. Within(u)
  <2> SUFFICES ASSUME NEW p \in Process
               PROVE u.size[p] <= Limit + Size[p] * Cardinality(Repr)
    BY DEF Within
  <2> DEFINE more == Size[p] * Cardinality(saved(p))
             most == Size[p] * Cardinality(Repr)
  <2>1. more <= most /\ more \in Nat /\ most \in Nat
    BY <1>4, TimesMonotone, TimesNat, SizeAssumption
  <2>2. u.size[p] = s.size[p] + more
    BY <1>6
  <2>3. s.size[p] \in Nat /\ Limit \in Nat
    BY <1>0, LimitAssumption
  <2>4. CASE saved(p) = {}
    <3>1. Cardinality(saved(p)) = 0
      BY <2>4, <1>z
    <3>2. more = 0
      BY <3>1, SizeAssumption
    <3>3. s.size[p] <= Limit + most
      BY DEF Within
    <3> HIDE DEF more, most
    <3>4. u.size[p] <= Limit + most
      BY <2>2, <2>3, <3>2, <3>3
    <3> QED
      BY <3>4 DEF most
  <2>5. CASE saved(p) # {}
    <3>1. s.size[p] <= Limit
      BY <1>3, <2>5 DEF HasRoom
    <3> HIDE DEF more, most
    <3>2. u.size[p] <= Limit + most
      BY <2>1, <2>2, <2>3, <3>1
    <3> QED
      BY <3>2 DEF most
  <2> QED
    BY <2>4, <2>5
<1>14. Requested(s, u, rs, b, key)
  <2>1. ASSUME NEW p \in Process, NEW r \in Repr
        PROVE \/ u.cache[p][r] = s.cache[p][r]
              \/ /\ b /\ r \in rs
                 /\ \A t \in DOMAIN u.cache[p][r] :
                      IF t = key THEN u.cache[p][r][t] = Produced(s)
                      ELSE t \in DOMAIN s.cache[p][r]
                           /\ u.cache[p][r][t] = s.cache[p][r][t]
    <3>1. CASE r \in saved(p)
      <4>1. u.cache[p][r] = grown(p, r) /\ b /\ r \in rs
        BY <1>2, <1>3, <1>6, <3>1
      <4> QED
        BY <4>1
    <3>2. CASE r \notin saved(p)
      BY <1>6, <3>2
    <3> QED
      BY <3>1, <3>2
  <2>2. ASSUME NEW p \in Process, NEW r \in Repr \ rs
        PROVE u.shown[p][r] = s.shown[p][r]
    BY <1>6
  <2>3. ASSUME NEW p \in Process, NEW r \in rs
        PROVE \/ u.shown[p][r] = Produced(s)
              \/ /\ b /\ key \in DOMAIN s.cache[p][r]
                 /\ u.shown[p][r] = s.cache[p][r][key]
                 /\ key \in DOMAIN u.cache[p][r]
    <3>1. u.shown[p][r] = IF hit(p, r) THEN s.cache[p][r][key] ELSE Produced(s)
      BY <1>6
    <3>2. ASSUME hit(p, r) PROVE key \in DOMAIN u.cache[p][r]
      <4>1. u.cache[p][r] = IF r \in saved(p) THEN grown(p, r) ELSE s.cache[p][r]
        BY <1>6
      <4>2. key \in DOMAIN grown(p, r)
        OBVIOUS
      <4> QED
        BY <4>1, <4>2, <3>2
    <3> QED
      BY <3>1, <3>2
  <2> HIDE DEF u
  <2> QED
    BY <1>6, <2>1, <2>2, <2>3 DEF Requested
<1> QED
  BY <1>11, <1>12, <1>13, <1>14
-----------------------------------------------------------------------------
(* Updating the view                                                       *)

\* The test of the limit leaves room wherever caches are not full.
LEMMA FillingIsSafe ==
  ASSUME NEW s, Typed(s), Agree(s), Within(s), Flags(s), NEW b \in BOOLEAN
  PROVE LET u == IF b THEN SetCacheFull(s) ELSE s
        IN /\ Typed(u) /\ Agree(u) /\ Within(u) /\ Flags(u)
           /\ b => HasRoom(u)
           /\ u = [s EXCEPT !.full = u.full]
<1>1. CASE ~b
  <2>1. s = [s EXCEPT !.full = s.full]
    BY DEF Typed
  <2> QED
    BY <1>1, <2>1
<1>2. CASE b
  <2> DEFINE u == SetCacheFull(s)
             some == \E q \in Process : s.size[q] > CacheLimit
  <2>1. u = [s EXCEPT !.full = [p \in Process |-> some]] /\ some \in BOOLEAN
    BY DEF SetCacheFull
  <2>2. ~some => \A q \in Process : ~(s.size[q] > CacheLimit)
    OBVIOUS
  <2> HIDE DEF u, some
  <2>3. u.full = [p \in Process |-> some] /\ u = [s EXCEPT !.full = u.full]
    BY <2>1 DEF Typed
  <2>4. Typed(u)
    BY <2>1 DEF Typed
  <2>5. /\ u.size = s.size /\ u.cache = s.cache
        /\ u.sourceDirty = s.sourceDirty /\ u.marked = s.marked
        /\ u.need = s.need
    BY <2>1 DEF Typed
  <2>6. Agree(u) /\ Within(u) /\ Flags(u)
    BY <2>3, <2>5 DEF Agree, Within, Flags
  <2>7. HasRoom(u)
    <3>1. CacheLimit \in Nat /\ CacheLimit <= Limit
      BY LimitAssumption DEF CacheLimit
    <3>2. s.size \in [Process -> Nat]
      BY DEF Typed
    <3>3. ASSUME NEW p \in Process, ~u.full[p] PROVE u.size[p] <= Limit
      <4>1. ~(s.size[p] > CacheLimit)
        BY <2>2, <2>3, <3>3
      <4> QED
        BY <4>1, <2>5, <3>1, <3>2, LimitAssumption
    <3> QED
      BY <3>3 DEF HasRoom
  <2> QED
    BY <1>2, <2>3, <2>4, <2>6, <2>7 DEF u
<1> QED
  BY <1>1, <1>2

\* What an update establishes and keeps.
Updated(s, u, b) ==
  /\ visible \cap u.need = {}
  /\ u.marked \subseteq s.marked
  /\ u.applied = s.applied /\ u.viewTime = s.viewTime
  /\ ~b => \A r \in Repr : Empty(s, r) => Empty(u, r)

\* An update of the view shows current data and caches only such.
LEMMA UpdatingIsSafe ==
  ASSUME NEW s, Typed(s), Agree(s), Within(s), Flags(s), NEW b \in BOOLEAN,
         NEW key, NEW ds, NEW c \in Curve, b => key = s.viewTime,
         b => s.applied = c \/ ds = Repr,
         ~s.viewDirty => visible \cap s.need = {},
         Good(s, ds, param, c), ShownGood(s, ds, param),
         visible \subseteq Repr, param \in Value
  PROVE LET u == Update(s, b, key)
        IN /\ Typed(u) /\ Agree(u) /\ Within(u) /\ Flags(u)
           /\ Updated(s, u, b)
           /\ Good(u, ds, param, c) /\ ShownGood(u, ds, param)
<1> DEFINE u == Update(s, b, key)
<1>1. CASE ~s.viewDirty
  <2>1. u = s
    BY <1>1 DEF Update
  <2>2. Updated(s, s, b)
    BY <1>1 DEF Updated
  <2> HIDE DEF u
  <2> QED
    BY <2>1, <2>2 DEF u
<1>2. CASE s.viewDirty
  <2> DEFINE f == IF b THEN SetCacheFull(s) ELSE s
             w == SetUpdateTime(f, b)
             rs == visible \cap w.need
             d == RequestData(w, rs, b, key)
  <2>1. u = PostUpdateData(d)
    BY <1>2 DEF Update
  <2>2. /\ Typed(f) /\ Agree(f) /\ Within(f) /\ Flags(f)
        /\ b => HasRoom(f)
        /\ f = [s EXCEPT !.full = f.full]
    BY FillingIsSafe
  <2> HIDE DEF f
  <2>3. /\ Typed(w) /\ Agree(w) /\ Within(w) /\ Flags(w)
        /\ TimePassed(f, w, b)
    BY <2>2, PassingTimeIsSafe
  <2> HIDE DEF w
  <2>4. /\ f.cache = s.cache /\ f.need = s.need /\ f.marked = s.marked
        /\ f.sourceDirty = s.sourceDirty /\ f.viewTime = s.viewTime
        /\ f.applied = s.applied /\ f.shown = s.shown
    BY <2>2 DEF Typed
  <2>5. rs \subseteq Repr /\ s.viewTime \in Time /\ s.marked \subseteq s.need
        /\ s.need \subseteq w.need /\ s.need \subseteq Repr
    <3>1. s.need \subseteq Repr /\ s.viewTime \in Time
      BY DEF Typed
    <3>2. s.need \subseteq w.need
      BY <2>3, <2>4, <3>1 DEF TimePassed
    <3> QED
      BY <3>1, <3>2 DEF Flags
  <2>6. b => HasRoom(w)
    <3>1. \A p \in Process : f.size[p] \in Nat /\ w.size[p] \in Nat
      BY <2>2, <2>3 DEF Typed
    <3> QED
      BY <2>2, <2>3, <3>1, LimitAssumption DEF TimePassed, HasRoom
  <2>7. b => key \in Time
    BY <2>5
  <2> HIDE DEF rs
  <2>8. Typed(d) /\ Agree(d) /\ Within(d) /\ Requested(w, d, rs, b, key)
    BY <2>3, <2>5, <2>6, <2>7, RequestingIsSafe
  <2> HIDE DEF d, u
  <2>9. /\ u.cache = d.cache /\ u.size = d.size /\ u.full = d.full
        /\ u.shown = d.shown /\ u.need = d.need /\ u.marked = d.marked
        /\ u.applied = d.applied /\ u.viewTime = d.viewTime
        /\ u.updated = d.updated
        /\ u.sourceDirty = (d.sourceDirty /\ d.updated \subseteq d.marked)
    BY <2>1, <2>8 DEF PostUpdateData, Typed
  <2>10. Typed(u)
    <3>1. (d.sourceDirty /\ d.updated \subseteq d.marked) \in BOOLEAN
      OBVIOUS
    <3> QED
      BY <2>1, <2>8, <3>1 DEF PostUpdateData, Typed
  <2>11. Agree(u) /\ Within(u)
    BY <2>8, <2>9 DEF Agree, Within
  <2>12. /\ d.need = w.need \ rs /\ d.marked = w.marked \ rs
         /\ d.updated = w.updated \cup rs /\ d.sourceDirty = w.sourceDirty
         /\ d.applied = s.applied /\ d.viewTime = s.viewTime
         /\ w.applied = s.applied /\ w.viewTime = s.viewTime
         /\ w.marked = s.marked /\ w.sourceDirty = s.sourceDirty
    BY <2>3, <2>4, <2>8 DEF Requested, TimePassed
  <2>13. Flags(u)
    <3>1. u.marked \subseteq u.need
      BY <2>5, <2>9, <2>12
    <3>2. ASSUME u.sourceDirty PROVE u.marked = Repr
      <4>1. d.sourceDirty /\ d.updated \subseteq d.marked
        BY <2>9, <3>2
      <4>2. rs = {}
        BY <4>1, <2>12
      <4>3. s.marked = Repr
        BY <4>1, <2>12 DEF Flags
      <4> QED
        BY <4>2, <4>3, <2>9, <2>12
    <3> QED
      BY <3>1, <3>2 DEF Flags
  <2>14. visible \cap u.need = {}
    BY <2>9, <2>12 DEF rs
  <2>15. \A r \in Repr : \A p \in Process :
           \/ w.cache[p][r] = s.cache[p][r]
           \/ ~b /\ DOMAIN w.cache[p][r] = {}
    BY <2>3, <2>4 DEF TimePassed, Empty
  <2>16. \A p \in Process : \A r \in Repr :
           \/ u.cache[p][r] = w.cache[p][r]
           \/ /\ b /\ r \in rs
              /\ \A t \in DOMAIN u.cache[p][r] :
                   IF t = key THEN u.cache[p][r][t] = Produced(w)
                   ELSE t \in DOMAIN w.cache[p][r]
                        /\ u.cache[p][r][t] = w.cache[p][r][t]
    BY <2>8, <2>9 DEF Requested
  <2>17. ~b => \A r \in Repr : Empty(s, r) => Empty(u, r)
    BY <2>15, <2>16 DEF Empty
  <2>18. Updated(s, u, b)
    BY <2>9, <2>12, <2>14, <2>17 DEF Updated
  <2>19. Produced(w) = [param |-> param, curve |-> s.applied, time |-> s.viewTime]
    BY <2>12 DEF Produced
  <2>20. Good(w, ds, param, c)
    <3> SUFFICES ASSUME NEW p \in Process, NEW r \in Repr \ ds,
                        NEW t \in DOMAIN w.cache[p][r]
                 PROVE w.cache[p][r][t] = [param |-> param, curve |-> c, time |-> t]
      BY DEF Good
    <3>1. w.cache[p][r] = s.cache[p][r]
      BY <2>15
    <3> QED
      BY <3>1 DEF Good
  <2>21. Good(u, ds, param, c)
    <3> SUFFICES ASSUME NEW p \in Process, NEW r \in Repr \ ds,
                        NEW t \in DOMAIN u.cache[p][r]
                 PROVE u.cache[p][r][t] = [param |-> param, curve |-> c, time |-> t]
      BY DEF Good
    <3>1. CASE u.cache[p][r] = w.cache[p][r]
      BY <3>1, <2>20 DEF Good
    <3>2. CASE /\ b
               /\ IF t = key THEN u.cache[p][r][t] = Produced(w)
                  ELSE t \in DOMAIN w.cache[p][r]
                       /\ u.cache[p][r][t] = w.cache[p][r][t]
      <4>1. CASE t = key
        <5>1. s.applied = c /\ t = s.viewTime
          BY <3>2, <4>1
        <5> QED
          BY <3>2, <4>1, <5>1, <2>19
      <4>2. CASE t # key
        BY <3>2, <4>2, <2>20 DEF Good
      <4> QED
        BY <4>1, <4>2
    <3> QED
      BY <2>16, <3>1, <3>2
  <2>22. ShownGood(u, ds, param)
    <3> SUFFICES ASSUME NEW p \in Process, NEW r \in Repr, r \notin u.need,
                        r \notin ds \/ Empty(u, r)
                 PROVE u.shown[p][r] = Produced(w)
      BY <2>9, <2>12, <2>19 DEF ShownGood
    <3>1. CASE r \in rs
      <4>1. \/ u.shown[p][r] = Produced(w)
            \/ /\ b /\ key \in DOMAIN w.cache[p][r]
               /\ u.shown[p][r] = w.cache[p][r][key]
               /\ key \in DOMAIN u.cache[p][r]
        BY <2>8, <2>9, <3>1 DEF Requested
      <4>2. CASE /\ b /\ key \in DOMAIN w.cache[p][r]
                 /\ u.shown[p][r] = w.cache[p][r][key]
                 /\ key \in DOMAIN u.cache[p][r]
        <5>1. r \notin ds
          BY <4>2 DEF Empty
        <5>2. w.cache[p][r][key] = [param |-> param, curve |-> c, time |-> key]
          BY <4>2, <5>1, <2>20 DEF Good
        <5>3. s.applied = c /\ key = s.viewTime
          BY <4>2, <5>1
        <5> QED
          BY <4>2, <5>2, <5>3, <2>19
      <4> QED
        BY <4>1, <4>2
    <3>2. CASE r \notin rs
      <4>1. r \notin w.need
        BY <3>2, <2>9, <2>12
      <4>2. w.need = s.need /\ w.cache = s.cache
        BY <4>1, <2>3, <2>4 DEF TimePassed
      <4>3. \A q \in Process : u.cache[q][r] = s.cache[q][r]
        BY <2>16, <3>2, <4>2
      <4>4. r \notin s.need /\ (r \notin ds \/ Empty(s, r))
        BY <4>1, <4>2, <4>3 DEF Empty
      <4>5. s.shown[p][r] = Produced(w)
        BY <4>4, <2>19 DEF ShownGood
      <4>6. u.shown[p][r] = s.shown[p][r]
        BY <3>2, <2>3, <2>4, <2>8, <2>9 DEF Requested, TimePassed
      <4> QED
        BY <4>5, <4>6
    <3> QED
      BY <3>1, <3>2
  <2> QED
    BY <2>10, <2>11, <2>13, <2>18, <2>21, <2>22 DEF u
<1> QED
  BY <1>1, <1>2
-----------------------------------------------------------------------------
(* The invariant is inductive                                              *)

\* The invariant holds at the start.
LEMMA InitIInv == Init => IInv
<1> SUFFICES ASSUME Init PROVE IInv
  OBVIOUS
<1>1. PICK t \in Time :
       pipe = [sourceDirty |-> FALSE, viewDirty |-> TRUE,
               marked |-> {}, updated |-> {}, need |-> Repr,
               applied |-> curve, viewTime |-> t, updateTime |-> None,
               cache |-> [p \in Process |-> [r \in Repr |-> Nothing]],
               size |-> [p \in Process |-> 0],
               full |-> [p \in Process |-> FALSE],
               shown |-> [p \in Process |-> [r \in Repr |-> None]]]
  BY DEF Init
<1>2. param \in Value /\ curve \in Curve /\ visible = Repr /\ enabled = FALSE
      /\ tick = NoTick /\ disturbed = {} /\ passed = {}
  BY DEF Init
<1>3. Typed(pipe)
  BY <1>1, <1>2, NothingIsCache DEF Typed
<1>4. Agree(pipe)
  BY <1>1 DEF Agree
<1>5. Within(pipe)
  <2> SUFFICES ASSUME NEW p \in Process
               PROVE pipe.size[p] <= Limit + Size[p] * Cardinality(Repr)
    BY DEF Within
  <2>1. Size[p] * Cardinality(Repr) \in Nat
    BY TimesNat, SizeAssumption, FiniteAssumption, FS_CardinalityType
  <2> QED
    BY <1>1, <2>1, LimitAssumption
<1>6. Flags(pipe)
  BY <1>1 DEF Flags
<1>7. Good(pipe, disturbed, param, curve)
  BY <1>1, NothingIsCache DEF Good
<1>8. ShownGood(pipe, disturbed, param)
  BY <1>1 DEF ShownGood
<1>9. MarkedAreEmpty(pipe, passed)
  BY <1>1 DEF MarkedAreEmpty
<1>10. TickInv
  BY <1>2 DEF TickInv, UseCache, NoTick
<1> QED
  BY <1>1, <1>2, <1>3, <1>4, <1>5, <1>6, <1>7, <1>8, <1>9, <1>10 DEF IInv

\* Kept is the complement of Empty.
LEMMA KeptOrEmpty ==
  ASSUME NEW s, NEW r \in Repr
  PROVE r \in Kept(s) <=> ~Empty(s, r)
BY DEF Kept, Empty

\* UseCache is a truth value.
LEMMA CachingIsBoolean ==
  tick \in {NoTick} \cup [time : Time, caching : BOOLEAN] => UseCache \in BOOLEAN
<1>1. tick = NoTick => UseCache = FALSE
  BY DEF UseCache, NoTick
<1>2. tick \in [time : Time, caching : BOOLEAN] => UseCache \in BOOLEAN
  BY DEF UseCache
<1> QED
  BY <1>1, <1>2

\* Whatever leaves the set of the disturbed has no frames, so that frames
\* and views stay good.
LEMMA ShrinkingIsSafe ==
  ASSUME NEW s, NEW ds \in SUBSET Repr, NEW v, NEW c,
         Good(s, ds, v, c), ShownGood(s, ds, v)
  PROVE Good(s, ds \cap Kept(s), v, c) /\ ShownGood(s, ds \cap Kept(s), v)
BY KeptOrEmpty DEF Good, ShownGood, Empty

\* A user changes the property.
LEMMA ModifyParamInv ==
  ASSUME IInv, NEW v \in Value, ModifyParam(v) PROVE IInv'
<1> DEFINE u == MarkModified(pipe, UseCache)
<1>0. UseCache \in BOOLEAN
  BY CachingIsBoolean DEF IInv
<1>1. /\ Typed(pipe) /\ Agree(pipe) /\ Within(pipe) /\ Flags(pipe)
      /\ Good(pipe, disturbed, param, curve)
      /\ ~UseCache => MarkedAreEmpty(pipe, passed)
      /\ TickInv
      /\ ~pipe.viewDirty => visible \cap pipe.need = {}
      /\ disturbed \subseteq Repr /\ passed \subseteq Repr /\ visible \subseteq Repr
  BY DEF IInv
<1>2. Typed(u) /\ Agree(u) /\ Within(u) /\ Flags(u) /\ Marked(pipe, u, UseCache)
  BY <1>0, <1>1, MarkingIsSafe
<1> HIDE DEF u
<1>3. /\ pipe' = u /\ param' = v
      /\ disturbed' = IF UseCache THEN disturbed \cup Kept(u)
                      ELSE (disturbed \cup passed) \cap Kept(u)
      /\ curve' = curve /\ visible' = visible /\ enabled' = enabled
      /\ tick' = tick /\ passed' = passed
  BY DEF ModifyParam, u
<1>4. Typed(pipe') /\ Agree(pipe') /\ Within(pipe') /\ Flags(pipe')
  BY <1>2, <1>3
<1>5. disturbed' \subseteq Repr
  BY <1>1, <1>3 DEF Kept
<1>6. \A r \in Repr : r \in Kept(u) => UseCache \/ r \in passed
  <2> SUFFICES ASSUME NEW r \in Repr, r \in Kept(u), ~UseCache
               PROVE r \in passed
    OBVIOUS
  <2>1. ~Empty(u, r)
    BY KeptOrEmpty
  <2>2. r \in pipe.marked
    BY <2>1, <1>2 DEF Marked
  <2>3. ~Empty(pipe, r)
    BY <2>1, <1>2 DEF Marked, Empty
  <2> QED
    BY <2>2, <2>3, <1>1 DEF MarkedAreEmpty
<1>7. \A r \in Repr \ disturbed' : Empty(u, r)
  BY <1>3, <1>6, KeptOrEmpty
<1>8. Good(pipe', disturbed', param', curve')
  BY <1>3, <1>7 DEF Good, Empty
<1>9. ShownGood(pipe', disturbed', param')
  BY <1>2, <1>3 DEF ShownGood, Marked
<1>10. ~UseCache' => MarkedAreEmpty(pipe', passed')
  <2>1. UseCache' = UseCache
    BY <1>3 DEF UseCache
  <2>2. ~UseCache => MarkedAreEmpty(u, passed)
    <3>1. u.marked = Repr
      BY <1>2 DEF Marked
    <3> QED
      BY <1>6, <3>1, KeptOrEmpty DEF MarkedAreEmpty
  <2> QED
    BY <1>3, <2>1, <2>2
<1>11. TickInv'
  <2>1. u.viewTime = pipe.viewTime /\ u.applied = pipe.applied
    BY <1>2 DEF Marked
  <2>2. UseCache => disturbed \subseteq disturbed'
    BY <1>3
  <2> QED
    BY <1>1, <1>3, <1>5, <2>1, <2>2 DEF TickInv, UseCache
<1>12. ~pipe'.viewDirty => visible' \cap pipe'.need = {}
  BY <1>1, <1>2, <1>3 DEF Marked
<1> QED
  BY <1>3, <1>4, <1>5, <1>8, <1>9, <1>10, <1>11, <1>12 DEF IInv

\* A user edits the key frames.
LEMMA EditKeyFramesInv ==
  ASSUME IInv, NEW c \in Curve, EditKeyFrames(c) PROVE IInv'
<1>1. /\ curve' = c /\ pipe' = pipe /\ param' = param /\ tick' = tick
      /\ disturbed' = IF UseCache THEN Repr ELSE disturbed \cup Kept(pipe)
      /\ visible' = visible /\ enabled' = enabled /\ passed' = passed
  BY DEF EditKeyFrames
<1>2. Good(pipe, disturbed, param, curve) /\ ShownGood(pipe, disturbed, param)
      /\ disturbed \subseteq Repr
  BY DEF IInv
<1>3. disturbed \subseteq disturbed' /\ disturbed' \subseteq Repr
  BY <1>1, <1>2 DEF Kept
<1>4. \A r \in Repr \ disturbed' : Empty(pipe, r)
  BY <1>1, KeptOrEmpty
<1>5. Good(pipe', disturbed', param', curve')
  BY <1>1, <1>4 DEF Good, Empty
<1>6. ShownGood(pipe', disturbed', param')
  <2> SUFFICES ASSUME NEW r \in Repr, r \notin disturbed' \/ Empty(pipe, r)
               PROVE r \notin disturbed \/ Empty(pipe, r)
    BY <1>1, <1>2 DEF ShownGood
  <2> QED
    BY <1>3
<1>7. TickInv'
  BY <1>1 DEF IInv, TickInv, UseCache
<1> QED
  BY <1>1, <1>3, <1>5, <1>6, <1>7 DEF IInv, UseCache

\* A user shows or hides a representation.
LEMMA SetVisibilityInv ==
  ASSUME IInv, NEW r \in Repr, SetVisibility(r) PROVE IInv'
<1>1. /\ pipe' = [pipe EXCEPT !.viewDirty = TRUE]
      /\ visible' = IF r \in visible THEN visible \ {r} ELSE visible \cup {r}
      /\ param' = param /\ curve' = curve /\ enabled' = enabled
      /\ tick' = tick /\ disturbed' = disturbed /\ passed' = passed
  BY DEF SetVisibility
<1>2. /\ Typed(pipe) /\ Agree(pipe) /\ Within(pipe) /\ Flags(pipe)
      /\ Good(pipe, disturbed, param, curve) /\ ShownGood(pipe, disturbed, param)
      /\ ~UseCache => MarkedAreEmpty(pipe, passed)
      /\ TickInv
  BY DEF IInv
<1>3. /\ pipe'.viewDirty = TRUE
      /\ pipe'.sourceDirty = pipe.sourceDirty /\ pipe'.marked = pipe.marked
      /\ pipe'.need = pipe.need /\ pipe'.applied = pipe.applied
      /\ pipe'.viewTime = pipe.viewTime /\ pipe'.cache = pipe.cache
      /\ pipe'.size = pipe.size /\ pipe'.full = pipe.full
      /\ pipe'.shown = pipe.shown
  BY <1>1, <1>2 DEF Typed
<1>4. Typed(pipe')
  BY <1>1, <1>2 DEF Typed
<1>5. Agree(pipe') /\ Within(pipe') /\ Flags(pipe')
  BY <1>2, <1>3 DEF Agree, Within, Flags
<1>6. Good(pipe', disturbed', param', curve') /\ ShownGood(pipe', disturbed', param')
  BY <1>1, <1>2, <1>3 DEF Good, ShownGood, Empty
<1>7. ~UseCache' => MarkedAreEmpty(pipe', passed')
  BY <1>1, <1>2, <1>3 DEF MarkedAreEmpty, Empty, UseCache
<1>8. TickInv'
  BY <1>1, <1>2, <1>3 DEF TickInv, UseCache
<1>9. visible' \subseteq Repr
  BY <1>1 DEF IInv
<1>10. ~pipe'.viewDirty => visible' \cap pipe'.need = {}
  BY <1>3
<1> QED
  BY <1>1, <1>4, <1>5, <1>6, <1>7, <1>8, <1>9, <1>10 DEF IInv

\* The data information of the source is gathered.
LEMMA UpdatePipelineInv == ASSUME IInv, UpdatePipeline PROVE IInv'
<1>1. /\ pipe' = [pipe EXCEPT !.sourceDirty = FALSE] /\ visible' = visible
      /\ param' = param /\ curve' = curve /\ enabled' = enabled
      /\ tick' = tick /\ disturbed' = disturbed /\ passed' = passed
  BY DEF UpdatePipeline, inputs
<1>2. /\ Typed(pipe) /\ Agree(pipe) /\ Within(pipe) /\ Flags(pipe)
      /\ Good(pipe, disturbed, param, curve) /\ ShownGood(pipe, disturbed, param)
      /\ ~UseCache => MarkedAreEmpty(pipe, passed)
      /\ ~pipe.viewDirty => visible \cap pipe.need = {}
      /\ TickInv
  BY DEF IInv
<1>3. /\ pipe'.viewDirty = pipe.viewDirty
      /\ pipe'.sourceDirty = FALSE /\ pipe'.marked = pipe.marked
      /\ pipe'.need = pipe.need /\ pipe'.applied = pipe.applied
      /\ pipe'.viewTime = pipe.viewTime /\ pipe'.cache = pipe.cache
      /\ pipe'.size = pipe.size /\ pipe'.full = pipe.full
      /\ pipe'.shown = pipe.shown
  BY <1>1, <1>2 DEF Typed
<1>4. Typed(pipe')
  BY <1>1, <1>2 DEF Typed
<1>5. Agree(pipe') /\ Within(pipe') /\ Flags(pipe')
  BY <1>2, <1>3 DEF Agree, Within, Flags
<1>6. Good(pipe', disturbed', param', curve') /\ ShownGood(pipe', disturbed', param')
  BY <1>1, <1>2, <1>3 DEF Good, ShownGood, Empty
<1>7. ~UseCache' => MarkedAreEmpty(pipe', passed')
  BY <1>1, <1>2, <1>3 DEF MarkedAreEmpty, Empty, UseCache
<1>8. TickInv'
  BY <1>1, <1>2, <1>3 DEF TickInv, UseCache
<1>9. ~pipe'.viewDirty => visible' \cap pipe'.need = {}
  BY <1>1, <1>2, <1>3
<1> QED
  BY <1>1, <1>4, <1>5, <1>6, <1>7, <1>8, <1>9 DEF IInv
LEMMA SetCacheGeometryForAnimationInv ==
  ASSUME IInv, NEW val \in BOOLEAN, SetCacheGeometryForAnimation(val) PROVE IInv'
BY DEF IInv, SetCacheGeometryForAnimation, TickInv, UseCache

\* The cache is used in ticks only.
LEMMA TickInProgress == UseCache => tick # NoTick
BY DEF UseCache, NoTick

\* An update in the current tick, or between ticks.
LEMMA UpdatingNow ==
  ASSUME IInv
  PROVE LET u == Update(pipe, UseCache, tick.time)
        IN /\ Typed(u) /\ Agree(u) /\ Within(u) /\ Flags(u)
           /\ Updated(pipe, u, UseCache)
           /\ Good(u, disturbed, param, curve) /\ ShownGood(u, disturbed, param)
<1>1. /\ Typed(pipe) /\ Agree(pipe) /\ Within(pipe) /\ Flags(pipe)
      /\ Good(pipe, disturbed, param, curve) /\ ShownGood(pipe, disturbed, param)
      /\ ~pipe.viewDirty => visible \cap pipe.need = {}
      /\ visible \subseteq Repr /\ param \in Value /\ curve \in Curve
      /\ UseCache \in BOOLEAN
  BY CachingIsBoolean DEF IInv
<1>2. UseCache => tick.time = pipe.viewTime
  BY TickInProgress DEF IInv, TickInv
<1>3. UseCache => pipe.applied = curve \/ disturbed = Repr
  BY DEF IInv, TickInv
<1> HIDE DEF IInv
<1> QED
  BY <1>1, <1>2, <1>3, UpdatingIsSafe

\* Who is still marked after an update is hidden.
LEMMA MarkedAreHidden ==
  ASSUME NEW s, NEW u, NEW b, Typed(u), Flags(u), Updated(s, u, b)
  PROVE u.marked \subseteq Repr \ visible
<1>1. u.marked \subseteq Repr
  BY DEF Typed
<1> QED
  BY <1>1 DEF Flags, Updated

\* Between ticks, the marked that were empty stay so.
LEMMA UpdatingKeepsEmpty ==
  ASSUME NEW s, NEW u, NEW ps, Typed(u), Flags(u), Updated(s, u, FALSE),
         MarkedAreEmpty(s, ps)
  PROVE MarkedAreEmpty(u, ps \ visible)
<1>1. u.marked \subseteq Repr \ visible
  BY MarkedAreHidden
<1> QED
  BY <1>1 DEF Updated, MarkedAreEmpty

\* The view is rendered.
LEMMA StillRenderInv == ASSUME IInv, StillRender PROVE IInv'
<1> DEFINE u == Update(pipe, UseCache, tick.time)
<1>1. /\ Typed(u) /\ Agree(u) /\ Within(u) /\ Flags(u)
      /\ Updated(pipe, u, UseCache)
      /\ Good(u, disturbed, param, curve) /\ ShownGood(u, disturbed, param)
  BY UpdatingNow
<1> HIDE DEF u
<1>2. /\ pipe' = u /\ visible' = visible /\ param' = param /\ curve' = curve
      /\ enabled' = enabled /\ tick' = tick /\ passed' = passed \ visible
      /\ disturbed' = IF UseCache THEN disturbed ELSE disturbed \cap Kept(u)
  BY DEF StillRender, inputs, u
<1>3. /\ param \in Value /\ curve \in Curve
      /\ visible \subseteq Repr /\ enabled \in BOOLEAN
      /\ tick \in {NoTick} \cup [time : Time, caching : BOOLEAN]
      /\ disturbed \subseteq Repr /\ passed \subseteq Repr
      /\ ~UseCache => MarkedAreEmpty(pipe, passed)
      /\ TickInv
  BY DEF IInv
<1>4. Good(u, disturbed', param, curve) /\ ShownGood(u, disturbed', param)
  BY <1>1, <1>2, <1>3, ShrinkingIsSafe
<1>5. UseCache' = UseCache
  BY <1>2 DEF UseCache
<1>6. ~UseCache => MarkedAreEmpty(u, passed')
  <2> SUFFICES ASSUME ~UseCache PROVE MarkedAreEmpty(u, passed \ visible)
    BY <1>2
  <2>1. Updated(pipe, u, FALSE)
    BY <1>1 DEF Updated
  <2> QED
    BY <1>1, <1>3, <2>1, UpdatingKeepsEmpty
<1>7. TickInv'
  <2>1. u.viewTime = pipe.viewTime /\ u.applied = pipe.applied
    BY <1>1 DEF Updated
  <2> QED
    BY <1>2, <1>3, <1>5, <2>1 DEF TickInv
<1>8. visible \cap u.need = {}
  BY <1>1 DEF Updated
<1>9. disturbed' \subseteq Repr /\ passed' \subseteq Repr
  BY <1>2, <1>3
<1> QED
  BY <1>1, <1>2, <1>3, <1>4, <1>5, <1>6, <1>7, <1>8, <1>9 DEF IInv

\* A tick ends.
LEMMA EndTickInv == ASSUME IInv, EndTick PROVE IInv'
<1> DEFINE u == Update(pipe, UseCache, tick.time)
<1>1. /\ Typed(u) /\ Agree(u) /\ Within(u) /\ Flags(u)
      /\ Updated(pipe, u, UseCache)
      /\ Good(u, disturbed, param, curve) /\ ShownGood(u, disturbed, param)
  BY UpdatingNow
<1> HIDE DEF u
<1>2. /\ pipe' = u /\ visible' = visible /\ param' = param /\ curve' = curve
      /\ enabled' = enabled /\ tick' = NoTick
      /\ passed' = IF UseCache THEN Repr \ visible ELSE passed \ visible
      /\ disturbed' = disturbed \cap Kept(u)
  BY DEF EndTick, inputs, u
<1>3. /\ param \in Value /\ curve \in Curve
      /\ visible \subseteq Repr /\ enabled \in BOOLEAN
      /\ disturbed \subseteq Repr /\ passed \subseteq Repr
      /\ ~UseCache => MarkedAreEmpty(pipe, passed)
  BY DEF IInv
<1>4. Good(u, disturbed', param, curve) /\ ShownGood(u, disturbed', param)
  BY <1>1, <1>2, <1>3, ShrinkingIsSafe
<1>5. ~UseCache'
  BY <1>2 DEF UseCache, NoTick
<1>6. MarkedAreEmpty(u, passed')
  <2>1. CASE UseCache
    <3>1. u.marked \subseteq Repr \ visible
      BY <1>1, MarkedAreHidden
    <3> QED
      BY <1>2, <2>1, <3>1 DEF MarkedAreEmpty
  <2>2. CASE ~UseCache
    <3>1. Updated(pipe, u, FALSE)
      BY <1>1, <2>2 DEF Updated
    <3>2. MarkedAreEmpty(u, passed \ visible)
      BY <1>1, <1>3, <2>2, <3>1, UpdatingKeepsEmpty
    <3> QED
      BY <1>2, <2>2, <3>2
  <2> QED
    BY <2>1, <2>2
<1>7. TickInv'
  BY <1>2, <1>5 DEF TickInv
<1>8. visible \cap u.need = {}
  BY <1>1 DEF Updated
<1>9. disturbed' \subseteq Repr /\ passed' \subseteq Repr
  BY <1>2, <1>3
<1> QED
  BY <1>1, <1>2, <1>3, <1>4, <1>5, <1>6, <1>7, <1>8, <1>9 DEF IInv

\* A tick begins.
LEMMA BeginTickInv == ASSUME IInv, NEW t \in Time, BeginTick(t) PROVE IInv'
<1> DEFINE cued == Cue(pipe, t)
           m == IF cued = pipe THEN pipe ELSE MarkModified(cued, enabled)
           u == Update(m, enabled, t)
<1>0. /\ pipe' = u /\ visible' = visible /\ param' = param /\ curve' = curve
      /\ enabled' = enabled /\ tick' = [time |-> t, caching |-> enabled]
      /\ passed' = IF enabled THEN Repr \ visible ELSE passed \ visible
      /\ disturbed' = IF enabled THEN disturbed ELSE disturbed \cap Kept(u)
      /\ tick = NoTick
  BY DEF BeginTick, inputs
<1>1. /\ param \in Value /\ curve \in Curve
      /\ visible \subseteq Repr /\ enabled \in BOOLEAN
      /\ disturbed \subseteq Repr /\ passed \subseteq Repr
      /\ Typed(pipe) /\ Agree(pipe) /\ Within(pipe) /\ Flags(pipe)
      /\ Good(pipe, disturbed, param, curve) /\ ShownGood(pipe, disturbed, param)
      /\ ~UseCache => MarkedAreEmpty(pipe, passed)
      /\ ~pipe.viewDirty => visible \cap pipe.need = {}
  BY DEF IInv
<1>2. MarkedAreEmpty(pipe, passed)
  BY <1>0, <1>1 DEF UseCache, NoTick
<1>3. /\ cued = [pipe EXCEPT !.viewTime = t, !.applied = curve]
      /\ cued.viewTime = t /\ cued.applied = curve
      /\ cued.sourceDirty = pipe.sourceDirty /\ cued.marked = pipe.marked
      /\ cued.need = pipe.need /\ cued.cache = pipe.cache
      /\ cued.size = pipe.size /\ cued.full = pipe.full
      /\ cued.viewDirty = pipe.viewDirty
  BY <1>1 DEF Typed, Cue
<1> HIDE DEF cued
<1>4. Typed(cued)
  BY <1>1, <1>3 DEF Typed
<1>5. Agree(cued) /\ Within(cued) /\ Flags(cued)
  BY <1>1, <1>3 DEF Agree, Within, Flags
<1>6. /\ Typed(m) /\ Agree(m) /\ Within(m) /\ Flags(m)
      /\ m.viewTime = t /\ m.applied = curve
      /\ Good(m, disturbed, param, curve) /\ ShownGood(m, disturbed, param)
      /\ ~m.viewDirty => visible \cap m.need = {}
      /\ ~enabled => MarkedAreEmpty(m, passed)
  <2>1. CASE cued = pipe
    <3>1. m = pipe
      BY <2>1
    <3> HIDE DEF m
    <3> QED
      BY <1>1, <1>2, <1>3, <2>1, <3>1
  <2>2. CASE cued # pipe
    <3> DEFINE q == MarkModified(cued, enabled)
    <3>1. m = q
      BY <2>2
    <3>2. Typed(q) /\ Agree(q) /\ Within(q) /\ Flags(q) /\ Marked(cued, q, enabled)
      BY <1>1, <1>4, <1>5, MarkingIsSafe
    <3> HIDE DEF q, m
    <3>3. q.viewTime = t /\ q.applied = curve /\ q.need = Repr
      BY <1>3, <3>2 DEF Marked
    <3>4. Good(q, disturbed, param, curve)
      <4> SUFFICES ASSUME NEW p \in Process, NEW r \in Repr \ disturbed,
                          NEW d \in DOMAIN q.cache[p][r]
                   PROVE q.cache[p][r][d] = [param |-> param, curve |-> curve, time |-> d]
        BY DEF Good
      <4>1. q.cache[p][r] = pipe.cache[p][r]
        BY <1>3, <3>2 DEF Marked, Empty
      <4> QED
        BY <1>1, <4>1 DEF Good
    <3>5. ShownGood(q, disturbed, param)
      BY <3>3 DEF ShownGood
    <3>6. ~q.viewDirty => visible \cap q.need = {}
      BY <1>1, <1>3, <3>2 DEF Marked
    <3>7. ~enabled => MarkedAreEmpty(q, passed)
      <4> SUFFICES ASSUME ~enabled, NEW r \in Repr, r \notin passed
                   PROVE Empty(q, r)
        BY <3>2 DEF MarkedAreEmpty, Marked
      <4>1. CASE r \notin pipe.marked
        BY <1>3, <3>2, <4>1 DEF Marked
      <4>2. CASE r \in pipe.marked
        <5>1. Empty(pipe, r)
          BY <1>2, <4>2 DEF MarkedAreEmpty
        <5> QED
          BY <1>3, <3>2, <5>1 DEF Marked, Empty
      <4> QED
        BY <4>1, <4>2
    <3> QED
      BY <3>1, <3>2, <3>3, <3>4, <3>5, <3>6, <3>7
  <2> QED
    BY <2>1, <2>2
<1> HIDE DEF m
<1>7. /\ Typed(u) /\ Agree(u) /\ Within(u) /\ Flags(u)
      /\ Updated(m, u, enabled)
      /\ Good(u, disturbed, param, curve) /\ ShownGood(u, disturbed, param)
  BY <1>1, <1>6, UpdatingIsSafe
<1> HIDE DEF u
<1>8. Good(u, disturbed', param, curve) /\ ShownGood(u, disturbed', param)
  BY <1>0, <1>1, <1>7, ShrinkingIsSafe
<1>9. UseCache' = enabled
  BY <1>0 DEF UseCache
<1>10. ~enabled => MarkedAreEmpty(u, passed')
  <2> SUFFICES ASSUME ~enabled PROVE MarkedAreEmpty(u, passed \ visible)
    BY <1>0
  <2>1. Updated(m, u, FALSE)
    BY <1>7 DEF Updated
  <2> QED
    BY <1>6, <1>7, <2>1, UpdatingKeepsEmpty
<1>11. TickInv'
  <2>1. u.viewTime = t /\ u.applied = curve
    BY <1>6, <1>7 DEF Updated
  <2> QED
    BY <1>0, <2>1 DEF TickInv
<1>12. visible \cap u.need = {}
  BY <1>7 DEF Updated
<1>13. disturbed' \subseteq Repr /\ passed' \subseteq Repr
  BY <1>0, <1>1
<1>14. tick' \in {NoTick} \cup [time : Time, caching : BOOLEAN]
  BY <1>0, <1>1
<1> QED
  BY <1>0, <1>1, <1>7, <1>8, <1>9, <1>10, <1>11, <1>12, <1>13, <1>14 DEF IInv

\* The invariant of the caches: types, what the flags imply, and frames that
\* match the inputs, for any number of representations, frames and processes.
THEOREM Inductive == Spec => []IInv
<1>1. IInv /\ [Next]_vars => IInv'
  <2> SUFFICES ASSUME IInv, [Next]_vars PROVE IInv'
    OBVIOUS
  <2>1. ASSUME NEW v \in Value, ModifyParam(v) PROVE IInv'
    BY <2>1, ModifyParamInv
  <2>2. ASSUME NEW c \in Curve, EditKeyFrames(c) PROVE IInv'
    BY <2>2, EditKeyFramesInv
  <2>3. ASSUME NEW r \in Repr, SetVisibility(r) PROVE IInv'
    BY <2>3, SetVisibilityInv
  <2>4. ASSUME NEW val \in BOOLEAN, SetCacheGeometryForAnimation(val) PROVE IInv'
    BY <2>4, SetCacheGeometryForAnimationInv
  <2>5. CASE StillRender
    BY <2>5, StillRenderInv
  <2>6. CASE UpdatePipeline
    BY <2>6, UpdatePipelineInv
  <2>7. ASSUME NEW t \in Time, BeginTick(t) PROVE IInv'
    BY <2>7, BeginTickInv
  <2>8. CASE EndTick
    BY <2>8, EndTickInv
  <2>9. CASE UNCHANGED vars
    BY <2>9 DEF vars, inputs, IInv, TickInv, UseCache
  <2> QED
    BY <2>1, <2>2, <2>3, <2>4, <2>5, <2>6, <2>7, <2>8, <2>9 DEF Next
<1> QED
  BY InitIInv, <1>1, PTL DEF Spec

-----------------------------------------------------------------------------
(* What follows                                                            *)

\* Every variable has its type, and the view has the time of the tick.
THEOREM TypeCorrect == Spec => []TypeOK
<1>1. IInv => TypeOK
  BY DEF IInv, TypeOK, Typed, TickInv
<1> QED
  BY <1>1, Inductive, PTL

\* All processes decide alike what is cached, whatever the sizes.
THEOREM ProcessesDecideAlike == Spec => []ProcessesAgree
<1>1. IInv => ProcessesAgree
  BY DEF IInv, ProcessesAgree, Agree
<1> QED
  BY <1>1, Inductive, PTL

\* No process exceeds the limit by more than one update saves.
THEOREM CacheIsBounded == Spec => []OvershootIsBounded
<1>1. IInv => OvershootIsBounded
  BY DEF IInv, OvershootIsBounded, Within
<1> QED
  BY <1>1, Inductive, PTL

\* Frames of undisturbed representations are what would be produced now.
THEOREM CachedFramesAreCurrent == Spec => []FramesAreCurrent
<1>1. IInv => FramesAreCurrent
  BY DEF IInv, FramesAreCurrent, Good, Current
<1> QED
  BY <1>1, Inductive, PTL

\* An up-to-date view shows what would be produced now.
THEOREM ViewsAreCurrent == Spec => []ShownIsCurrent
<1>1. IInv => ShownIsCurrent
  BY DEF IInv, ShownIsCurrent, ShownGood, Produced
<1> QED
  BY <1>1, Inductive, PTL
-----------------------------------------------------------------------------
(* The account                                                             *)

\* The size of a cache is that of its frames.
Exact(s) ==
  \A p \in Process : s.size[p] = Size[p] * Cardinality(Frames(s, p, Repr))

\* The frames of some representations are a finite set.
LEMMA FramesAreFinite ==
  ASSUME NEW s, Typed(s), NEW p \in Process, NEW rs \in SUBSET Repr
  PROVE IsFiniteSet(Frames(s, p, rs))
<1>1. \A r \in rs : DOMAIN s.cache[p][r] \subseteq Time
  BY DEF Typed, Cache
<1>2. Frames(s, p, rs) \subseteq rs \X Time
  BY <1>1 DEF Frames
<1>3. IsFiniteSet(rs) /\ IsFiniteSet(Time)
  BY FiniteAssumption, FS_Subset
<1>4. IsFiniteSet(rs \X Time)
  BY <1>3, FS_Product
<1> QED
  BY <1>2, <1>4, FS_Subset

\* A frame is a pair of a representation and a time.
LEMMA FrameIn ==
  ASSUME NEW s, NEW p, NEW rs, NEW f
  PROVE f \in Frames(s, p, rs) <=>
          \E r \in rs : \E t \in DOMAIN s.cache[p][r] : f = <<r, t>>
BY DEF Frames

\* The account depends on the caches and the sizes only.
LEMMA SameAccount ==
  ASSUME NEW s, NEW u, Exact(s), u.cache = s.cache, u.size = s.size
  PROVE Exact(u)
BY DEF Exact, Frames

\* Products of natural numbers distribute over sums and differences.
LEMMA TimesDistributes ==
  \A a, m, n \in Nat : /\ a * (m + n) = a * m + a * n
                       /\ n <= m => a * (m - n) = a * m - a * n
OBVIOUS

\* What freeing gives back is what the frames it removes had cost.
LEMMA FreeingIsExact ==
  ASSUME NEW a \in Nat, NEW m \in Nat, NEW n \in Nat, n <= m
  PROVE FreeCacheSize(a * m, a * n) = a * (m - n)
<1> DEFINE x == a * m
           y == a * n
<1>1. x \in Nat /\ y \in Nat /\ y <= x
  BY TimesNat, TimesMonotone
<1>2. a * (m - n) = x - y
  BY TimesDistributes
<1> HIDE DEF x, y
<1>3. FreeCacheSize(x, y) = x - y
  BY <1>1 DEF FreeCacheSize
<1> QED
  BY <1>2, <1>3 DEF x, y

\* Clearing keeps the account exact.
LEMMA ClearingIsExact ==
  ASSUME NEW s, Typed(s), Exact(s), NEW rs \in SUBSET Repr
  PROVE Exact(RemoveAllCaches(s, rs))
<1> DEFINE u == RemoveAllCaches(s, rs)
<1> SUFFICES ASSUME NEW p \in Process
             PROVE u.size[p] = Size[p] * Cardinality(Frames(u, p, Repr))
  BY DEF Exact
<1> DEFINE all == Frames(s, p, Repr)
           freed == Frames(s, p, rs)
           kept == Frames(u, p, Repr)
<1>1. u.size[p] = FreeCacheSize(s.size[p], Size[p] * Cardinality(freed))
  BY DEF Typed, RemoveAllCaches
<1>2. \A r \in Repr : u.cache[p][r] = IF r \in rs THEN Nothing ELSE s.cache[p][r]
  BY ClearingIsSafe DEF Cleared
<1> HIDE DEF u
<1>3. kept = all \ freed
  <2>1. ASSUME NEW f \in kept PROVE f \in all \ freed
    <3>1. PICK r \in Repr : \E t \in DOMAIN u.cache[p][r] : f = <<r, t>>
      BY <2>1, FrameIn
    <3>2. PICK t \in DOMAIN u.cache[p][r] : f = <<r, t>>
      BY <3>1
    <3>3. r \notin rs
      BY <1>2, <3>2, NothingIsCache
    <3>4. t \in DOMAIN s.cache[p][r]
      BY <1>2, <3>2, <3>3
    <3>5. f \in all
      BY <3>2, <3>4, FrameIn
    <3>6. f \notin freed
      BY <3>2, <3>3, FrameIn
    <3> QED
      BY <3>5, <3>6
  <2>2. ASSUME NEW f \in all, f \notin freed PROVE f \in kept
    <3>1. PICK r \in Repr : \E t \in DOMAIN s.cache[p][r] : f = <<r, t>>
      BY <2>2, FrameIn
    <3>2. PICK t \in DOMAIN s.cache[p][r] : f = <<r, t>>
      BY <3>1
    <3>3. r \notin rs
      BY <2>2, <3>2, FrameIn
    <3>4. t \in DOMAIN u.cache[p][r]
      BY <1>2, <3>2, <3>3
    <3> QED
      BY <3>2, <3>4, FrameIn
  <2> QED
    BY <2>1, <2>2
<1>4. freed \subseteq all
  BY DEF Frames
<1>5. IsFiniteSet(all) /\ Cardinality(all) \in Nat /\ Cardinality(freed) \in Nat
  BY FramesAreFinite, FS_CardinalityType
<1>6. Cardinality(freed) <= Cardinality(all)
  BY <1>4, <1>5, FS_Subset
<1>7. Cardinality(kept) = Cardinality(all) - Cardinality(freed)
  <2>1. all \cap freed = freed
    BY <1>4
  <2> HIDE DEF all, freed, kept
  <2>2. Cardinality(all \ freed) = Cardinality(all) - Cardinality(all \cap freed)
    BY <1>5, FS_Difference
  <2> QED
    BY <1>3, <2>1, <2>2
<1>8. s.size[p] = Size[p] * Cardinality(all) /\ Size[p] \in Nat
  BY SizeAssumption DEF Exact
<1> HIDE DEF all, freed, kept
<1>9. u.size[p] = Size[p] * Cardinality(kept)
  BY <1>1, <1>5, <1>6, <1>7, <1>8, FreeingIsExact
<1> QED
  BY <1>9 DEF kept

\* Saving frames keeps the account exact: it charges those that are new.
LEMMA RequestingIsExact ==
  ASSUME NEW s, Typed(s), Exact(s), NEW rs \in SUBSET Repr, NEW b \in BOOLEAN,
         NEW key
  PROVE Exact(RequestData(s, rs, b, key))
<1> DEFINE u == RequestData(s, rs, b, key)
<1> SUFFICES ASSUME NEW p \in Process
             PROVE u.size[p] = Size[p] * Cardinality(Frames(u, p, Repr))
  BY DEF Exact
<1> DEFINE saved == IF b THEN Saved(s, rs, key, p) ELSE {}
           before == Frames(s, p, Repr)
           new == saved \X {key}
           after == Frames(u, p, Repr)
<1>1. u.size[p] = s.size[p] + Size[p] * Cardinality(saved)
  BY DEF Typed, RequestData
<1>2. \A r \in Repr : DOMAIN u.cache[p][r] =
        IF r \in saved THEN DOMAIN s.cache[p][r] \cup {key}
        ELSE DOMAIN s.cache[p][r]
  <2>1. u.cache[p] = [r \in Repr |->
          IF r \in saved
            THEN [t \in DOMAIN s.cache[p][r] \cup {key} |->
                   IF t = key THEN Produced(s) ELSE s.cache[p][r][t]]
            ELSE s.cache[p][r]]
    BY DEF Typed, RequestData
  <2> HIDE DEF u, saved
  <2> QED
    BY <2>1
<1>3. saved \subseteq Repr /\ \A r \in saved : key \notin DOMAIN s.cache[p][r]
  BY DEF Saved
<1> HIDE DEF u, saved
<1>4. after = before \cup new
  <2>1. ASSUME NEW f \in after PROVE f \in before \cup new
    <3>1. PICK r \in Repr : \E t \in DOMAIN u.cache[p][r] : f = <<r, t>>
      BY <2>1, FrameIn
    <3>2. PICK t \in DOMAIN u.cache[p][r] : f = <<r, t>>
      BY <3>1
    <3>3. CASE t \in DOMAIN s.cache[p][r]
      BY <3>2, <3>3, FrameIn
    <3>4. CASE t \notin DOMAIN s.cache[p][r]
      <4>1. r \in saved /\ t = key
        BY <1>2, <3>2, <3>4
      <4> QED
        BY <3>2, <4>1
    <3> QED
      BY <3>3, <3>4
  <2>2. ASSUME NEW f \in before PROVE f \in after
    <3>1. PICK r \in Repr : \E t \in DOMAIN s.cache[p][r] : f = <<r, t>>
      BY <2>2, FrameIn
    <3>2. PICK t \in DOMAIN s.cache[p][r] : f = <<r, t>>
      BY <3>1
    <3>3. t \in DOMAIN u.cache[p][r]
      BY <1>2, <3>2
    <3> QED
      BY <3>2, <3>3, FrameIn
  <2>3. ASSUME NEW f \in new PROVE f \in after
    <3>1. PICK r \in saved : f = <<r, key>>
      BY <2>3
    <3>2. key \in DOMAIN u.cache[p][r] /\ r \in Repr
      BY <1>2, <1>3, <3>1
    <3> QED
      BY <3>1, <3>2, FrameIn
  <2> QED
    BY <2>1, <2>2, <2>3
<1>5. before \cap new = {}
  <2> SUFFICES ASSUME NEW f \in before, f \in new PROVE FALSE
    OBVIOUS
  <2>1. PICK r \in Repr : \E t \in DOMAIN s.cache[p][r] : f = <<r, t>>
    BY FrameIn
  <2>2. r \in saved /\ key \in DOMAIN s.cache[p][r]
    BY <2>1
  <2> QED
    BY <1>3, <2>2
<1>6. IsFiniteSet(before) /\ Cardinality(before) \in Nat
  BY FramesAreFinite, FS_CardinalityType
<1>7. IsFiniteSet(saved) /\ Cardinality(saved) \in Nat
  BY <1>3, FiniteAssumption, FS_Subset, FS_CardinalityType
<1>8. IsFiniteSet(new) /\ Cardinality(new) = Cardinality(saved)
  <2>1. IsFiniteSet({key}) /\ Cardinality({key}) = 1
    BY FS_Singleton
  <2>2. IsFiniteSet(new) /\ Cardinality(new) = Cardinality(saved) * 1
    BY <1>7, <2>1, FS_Product
  <2> QED
    BY <1>7, <2>2
<1>9. Cardinality(after) = Cardinality(before) + Cardinality(saved)
  <2> HIDE DEF before, new, after
  <2>1. Cardinality({}) = 0
    BY FS_EmptySet
  <2>2. Cardinality(after) =
          Cardinality(before) + Cardinality(new) - Cardinality(before \cap new)
    BY <1>4, <1>6, <1>8, FS_Union
  <2> QED
    BY <1>5, <1>6, <1>7, <1>8, <2>1, <2>2
<1>10. s.size[p] = Size[p] * Cardinality(before) /\ Size[p] \in Nat
  BY SizeAssumption DEF Exact
<1> HIDE DEF before, new, after
<1>11. u.size[p] = Size[p] * Cardinality(after)
  BY <1>1, <1>6, <1>7, <1>9, <1>10, TimesDistributes
<1> QED
  BY <1>11 DEF after

\* So does marking.
LEMMA MarkingIsExact ==
  ASSUME NEW s, Typed(s), Exact(s), NEW b \in BOOLEAN
  PROVE Exact(MarkModified(s, b))
<1>1. CASE s.sourceDirty
  BY <1>1 DEF MarkModified
<1>2. CASE ~s.sourceDirty
  <2> DEFINE rs == IF b THEN {} ELSE Repr \ s.marked
             w == RemoveAllCaches(s, rs)
             u == MarkModified(s, b)
  <2>1. rs \in SUBSET Repr
    OBVIOUS
  <2>2. u = [w EXCEPT !.sourceDirty = TRUE, !.viewDirty = TRUE,
              !.marked = Repr, !.updated = @ \ (Repr \ s.marked),
              !.need = @ \cup (Repr \ s.marked)]
    BY <1>2 DEF MarkModified
  <2> HIDE DEF rs
  <2>3. Exact(w) /\ Typed(w)
    BY <2>1, ClearingIsExact, ClearingIsSafe
  <2> HIDE DEF w, u
  <2>4. u.cache = w.cache /\ u.size = w.size
    BY <2>2, <2>3 DEF Typed
  <2>5. Exact(u)
    BY <2>3, <2>4, SameAccount
  <2> QED
    BY <2>5 DEF u
<1> QED
  BY <1>1, <1>2

\* And an update of the view.
LEMMA UpdatingIsExact ==
  ASSUME NEW s, Typed(s), Agree(s), Within(s), Flags(s), Exact(s),
         NEW b \in BOOLEAN, NEW key, visible \subseteq Repr
  PROVE Exact(Update(s, b, key))
<1>1. CASE ~s.viewDirty
  BY <1>1 DEF Update
<1>2. CASE s.viewDirty
  <2> DEFINE f == IF b THEN SetCacheFull(s) ELSE s
             v == IF b THEN {} ELSE Repr
             c == RemoveAllCaches(f, v)
             w == SetUpdateTime(f, b)
             rs == visible \cap w.need
             d == RequestData(w, rs, b, key)
             u == Update(s, b, key)
  <2>1. u = PostUpdateData(d) /\ rs \in SUBSET Repr /\ v \in SUBSET Repr
    BY <1>2 DEF Update
  <2>2. /\ Typed(f) /\ Agree(f) /\ Within(f) /\ Flags(f)
        /\ f = [s EXCEPT !.full = f.full]
    BY FillingIsSafe
  <2>3. Exact(f)
    <3> HIDE DEF f
    <3>1. f.cache = s.cache /\ f.size = s.size
      BY <2>2 DEF Typed
    <3> QED
      BY <3>1, SameAccount
  <2>4. w = f \/ w = [c EXCEPT !.updateTime = f.viewTime, !.need = Repr]
    BY DEF SetUpdateTime
  <2> HIDE DEF f, v
  <2>5. Typed(w)
    BY <2>2, PassingTimeIsSafe
  <2>6. Exact(c) /\ Typed(c)
    BY <2>1, <2>2, <2>3, ClearingIsExact, ClearingIsSafe
  <2> HIDE DEF c, w
  <2>7. Exact(w)
    <3>1. CASE w = f
      BY <3>1, <2>3
    <3>2. CASE w = [c EXCEPT !.updateTime = f.viewTime, !.need = Repr]
      <4>1. w.cache = c.cache /\ w.size = c.size
        BY <2>6, <3>2 DEF Typed
      <4> QED
        BY <2>6, <4>1, SameAccount
    <3> QED
      BY <2>4, <3>1, <3>2
  <2> HIDE DEF rs
  <2>8. Exact(d)
    BY <2>1, <2>5, <2>7, RequestingIsExact
  <2>9. u.cache = d.cache /\ u.size = d.size
    <3>1. d.cache = d.cache /\ DOMAIN d = DOMAIN w
      BY <2>5 DEF RequestData
    <3>2. DOMAIN w = DOMAIN [sourceDirty |-> 0, viewDirty |-> 0, marked |-> 0,
             updated |-> 0, need |-> 0, applied |-> 0, viewTime |-> 0,
             updateTime |-> 0, cache |-> 0, size |-> 0, full |-> 0, shown |-> 0]
      BY <2>5 DEF Typed
    <3> HIDE DEF d, u
    <3> QED
      BY <2>1, <3>1, <3>2 DEF PostUpdateData
  <2> HIDE DEF d, u
  <2>10. Exact(u)
    BY <2>8, <2>9, SameAccount
  <2> QED
    BY <2>10 DEF u
<1> QED
  BY <1>1, <1>2

\* Cues change neither caches nor sizes; what they mark does so exactly.
LEMMA BeginningIsExact ==
  ASSUME IInv, Exact(pipe), NEW t \in Time, BeginTick(t) PROVE Exact(pipe')
<1> DEFINE cued == Cue(pipe, t)
           m == IF cued = pipe THEN pipe ELSE MarkModified(cued, enabled)
<1>0. /\ Typed(pipe) /\ Agree(pipe) /\ Within(pipe) /\ Flags(pipe)
      /\ curve \in Curve /\ enabled \in BOOLEAN /\ visible \subseteq Repr
  BY DEF IInv
<1>1. pipe' = Update(m, enabled, t)
  BY DEF BeginTick
<1>2. /\ cued = [pipe EXCEPT !.viewTime = t, !.applied = curve]
      /\ cued.sourceDirty = pipe.sourceDirty /\ cued.marked = pipe.marked
      /\ cued.need = pipe.need /\ cued.cache = pipe.cache
      /\ cued.size = pipe.size /\ cued.full = pipe.full
  BY <1>0 DEF Typed, Cue
<1> HIDE DEF cued
<1>3. Typed(cued)
  BY <1>0, <1>2 DEF Typed
<1>4. Agree(cued) /\ Within(cued) /\ Flags(cued)
  BY <1>0, <1>2 DEF Agree, Within, Flags
<1>5. Exact(cued)
  BY <1>2, SameAccount
<1>6. Typed(m) /\ Agree(m) /\ Within(m) /\ Flags(m) /\ Exact(m)
  <2>1. CASE cued = pipe
    BY <1>0, <2>1
  <2>2. CASE cued # pipe
    BY <1>0, <1>3, <1>4, <1>5, <2>2, MarkingIsSafe, MarkingIsExact
  <2> QED
    BY <2>1, <2>2
<1> HIDE DEF m
<1> QED
  BY <1>0, <1>1, <1>6, UpdatingIsExact

\* The account is the size of what is in the caches, after any number of
\* savings and clearings: freeing never takes back more than was charged, so
\* the truncation of FreeCacheSize never happens.
THEOREM AccountHolds == Spec => []AccountIsExact
<1>1. Init => Exact(pipe)
  <2> SUFFICES ASSUME Init, NEW p \in Process
               PROVE pipe.size[p] = Size[p] * Cardinality(Frames(pipe, p, Repr))
    BY DEF Exact
  <2>1. pipe.size[p] = 0 /\ \A r \in Repr : pipe.cache[p][r] = Nothing
    BY DEF Init
  <2>2. Frames(pipe, p, Repr) = {}
    BY <2>1, FrameIn, NothingIsCache
  <2>3. Cardinality(Frames(pipe, p, Repr)) = 0
    BY <2>2, FS_EmptySet
  <2> QED
    BY <2>1, <2>3, SizeAssumption
<1>2. IInv /\ Exact(pipe) /\ [Next]_vars => Exact(pipe')
  <2> SUFFICES ASSUME IInv, Exact(pipe), [Next]_vars PROVE Exact(pipe')
    OBVIOUS
  <2>0. /\ Typed(pipe) /\ Agree(pipe) /\ Within(pipe) /\ Flags(pipe)
        /\ UseCache \in BOOLEAN /\ visible \subseteq Repr
    BY CachingIsBoolean DEF IInv
  <2>1. ASSUME NEW v \in Value, ModifyParam(v) PROVE Exact(pipe')
    BY <2>0, <2>1, MarkingIsExact DEF ModifyParam
  <2>2. ASSUME NEW r \in Repr, SetVisibility(r) PROVE Exact(pipe')
    <3>1. pipe'.cache = pipe.cache /\ pipe'.size = pipe.size
      BY <2>0, <2>2 DEF SetVisibility, Typed
    <3> QED
      BY <3>1, SameAccount
  <2>3. CASE UpdatePipeline
    <3>1. pipe'.cache = pipe.cache /\ pipe'.size = pipe.size
      BY <2>0, <2>3 DEF UpdatePipeline, Typed
    <3> QED
      BY <3>1, SameAccount
  <2>4. CASE StillRender \/ EndTick
    BY <2>0, <2>4, UpdatingIsExact DEF StillRender, EndTick
  <2>5. ASSUME NEW t \in Time, BeginTick(t) PROVE Exact(pipe')
    BY <2>5, BeginningIsExact
  <2>6. ASSUME UNCHANGED pipe PROVE Exact(pipe')
    BY <2>6
  <2> QED
    BY <2>1, <2>2, <2>3, <2>4, <2>5, <2>6
       DEF Next, vars, EditKeyFrames, SetCacheGeometryForAnimation
<1>3. Exact(pipe) => AccountIsExact
  BY DEF Exact, AccountIsExact
<1>4. Exact(pipe)' <=> Exact(pipe')
  BY DEF Exact
<1> QED
  BY Inductive, <1>1, <1>2, <1>3, <1>4, PTL DEF Spec
=============================================================================
