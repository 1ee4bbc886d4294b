----------------------------- MODULE AnimationPlayer -----------------------------
(***************************************************************************)
(* The play loop of the animation scene, and what users do meanwhile.      *)
(*                                                                         *)
(* Play is one blocking call: it ticks the scene, asks the player of the   *)
(* mode for the next time, and ends when that lies beyond the end or Stop  *)
(* was called.  Each tick fires an event on which the client processes Qt  *)
(* events, so that users act in the middle of a tick, of a play or of a    *)
(* change of time by hand.                                                 *)
(*                                                                         *)
(* Times are integers, fine enough that a frame of the sequence, which the *)
(* code computes in doubles, may miss its place by one of them: the last   *)
(* one may come before the end or beyond.  The mode is chosen before, and  *)
(* no playback window is set.                                              *)
(***************************************************************************)
EXTENDS Integers, FiniteSets

CONSTANTS
  Start, End,        \* StartTime and EndTime of the scene
  NumberOfFrames,    \* of a sequence
  Steps,             \* the time steps of the data
  FramesPerTimestep,
  FrameTimes,        \* the ways in which the times of frames may be rounded
  Instants,          \* times users ask for, in the range or not, and clocks show
  Never,             \* VTK_DOUBLE_MAX
  None

ASSUME RangeAssumption == Start \in Int /\ End \in Int /\ Start < End
ASSUME FramesAssumption ==
  NumberOfFrames \in Nat \ {0, 1} /\ FramesPerTimestep \in Nat \ {0}
ASSUME InstantsAssumption ==
  /\ IsFiniteSet(Steps) /\ Steps \subseteq Int
  /\ {Start, End} \subseteq Instants /\ Instants \subseteq Int
ASSUME NeverAssumption == Never \in Int /\ Never > End /\ None \notin Int

\* Frames play can come to: up to two beyond the nearest to the end.
FrameNumber == 0 .. NumberOfFrames + 1

\* The frame nearest to a time.
FrameOf(t) ==
  (2 * (t - Start) * (NumberOfFrames - 1) + (End - Start))
    \div (2 * (End - Start))

\* Rounding keeps the frames in order and near their places; only that of
\* the last one decides whether it lies beyond the end.
ASSUME FrameTimesAssumption ==
  \A times \in FrameTimes :
    /\ times \in [FrameNumber -> Int] /\ times[0] = Start
    /\ \A m, n \in FrameNumber : m < n => times[m] < times[n]
    /\ \A n \in 0 .. NumberOfFrames - 1 : FrameOf(times[n]) = n
    /\ \A n \in FrameNumber : n < NumberOfFrames - 1 => times[n] < End
    /\ \A n \in FrameNumber : n > NumberOfFrames - 1 => times[n] > End

VARIABLES
  mode,          \* PlayMode
  frameTime,     \* the times of the frames, as computed
  loop,          \* Loop
  inPlay,        \* InPlay
  stopPlay,      \* StopPlay
  current,       \* CurrentTime of the player
  frame,         \* FrameNo, or Count, of the player of the mode
  cue,           \* CueState of the scene
  inTick,        \* InTick
  tick,          \* the time of the tick that processes events, if any
  outer,         \* the time of a tick during which Play was called
  sceneTime,     \* SceneTime
  animationTime, \* the property of the scene's proxy
  ignored,       \* history: a time was asked for and ignored since the last tick
  resumed,       \* history: this loop did not begin at the start
  last,          \* history: the last time ticked in this loop
  ticks          \* history: ticks in this loop, up to two

player == <<inPlay, stopPlay, current, frame>>
scene == <<cue, inTick, tick, outer, sceneTime, animationTime>>
history == <<ignored, resumed, last, ticks>>
vars == <<mode, frameTime, loop, player, scene, history>>

Idle == ~inPlay /\ tick = None /\ outer = None

-----------------------------------------------------------------------------
(* The players                                                             *)

LeastAbove(S, t) == CHOOSE s \in S : s > t /\ \A u \in S : u > t => s <= u

\* Mutant: the last frame is left out.
SequenceNextShort ==
  LET no == IF frame = 0 /\ current > Start THEN FrameOf(current) + 1 ELSE frame
  IN {<<IF no + 2 < NumberOfFrames THEN frameTime[no + 1] ELSE Never, no + 1>>}

\* What GetNextTime may return, with the FrameNo or Count it leaves behind.
SequenceNext ==
  LET no == IF frame = 0 /\ current > Start THEN FrameOf(current) + 1 ELSE frame
  IN {<<frameTime[no + 1], no + 1>>}

\* Mutant: lower_bound instead of upper_bound.
TimestepsNextStuck ==
  IF frame + 1 < FramesPerTimestep THEN {<<current, frame + 1>>}
  ELSE IF current >= End \/ \A s \in Steps : s < current THEN {<<Never, 0>>}
  ELSE {<<LeastAbove(Steps, current - 1), 0>>}

TimestepsNext ==
  IF frame + 1 < FramesPerTimestep THEN {<<current, frame + 1>>}
  ELSE IF current >= End \/ \A s \in Steps : s <= current THEN {<<Never, 0>>}
  ELSE {<<LeastAbove(Steps, current), 0>>}

\* The clock has advanced, by how much nobody knows.  What should lie beyond
\* the end is 1.1 times the end, here rounded away from it.
RealtimeNext ==
  IF current = End
    THEN {<<IF End > 0 THEN (End * 11 + 9) \div 10 ELSE (End * 11) \div 10, frame>>}
    ELSE {<<t, frame>> : t \in {u \in Instants \cap Start .. End : u > current} \cup {End}}

GetNextTime ==
  CASE mode = "sequence" -> SequenceNext
    [] mode = "timesteps" -> TimestepsNext
    [] mode = "realtime" -> RealtimeNext

Clipped(t, otherwise) == IF t >= Start /\ t < End THEN t ELSE otherwise

\* Where the buttons lead (in a sequence by the length of a frame, rounded).
GoTo ==
  LET length == (End - Start) \div (NumberOfFrames - 1)
      before(t) == {s \in Steps : s < t}
      next == CASE mode = "sequence" -> sceneTime + length
                [] mode = "realtime" -> sceneTime + 1
                [] OTHER -> IF \A s \in Steps : s <= sceneTime THEN sceneTime
                            ELSE LeastAbove(Steps, sceneTime)
      previous == CASE mode = "sequence" -> sceneTime - length
                    [] mode = "realtime" -> sceneTime - 1
                    [] OTHER -> IF before(sceneTime) = {} THEN sceneTime
                                ELSE CHOOSE s \in before(sceneTime) :
                                       \A u \in before(sceneTime) : u <= s
  IN {Start, End, Clipped(next, End), Clipped(previous, Start)}

-----------------------------------------------------------------------------
Init ==
  /\ mode \in {"sequence", "timesteps", "realtime"}
  /\ frameTime \in FrameTimes
  /\ loop = FALSE
  /\ inPlay = FALSE /\ stopPlay = FALSE /\ current = Start /\ frame = 0
  /\ cue = "uninitialized" /\ inTick = FALSE /\ tick = None /\ outer = None
  /\ sceneTime = Start /\ animationTime = Start
  /\ ignored = FALSE /\ resumed = FALSE /\ last = None /\ ticks = 0

\* StartLoop of the player, and Initialize of the scene.
StartLoop(t) ==
  /\ current' = t /\ frame' = 0
  /\ cue' = "uninitialized"
  /\ resumed' = (t > Start) /\ last' = None /\ ticks' = 0

\* Play, called when nothing happens or in a tick that is not of a play.
\* Bound: not twice within one tick, of which it is then the last event.
Play ==
  /\ ~inPlay /\ outer = None
  /\ inPlay' = TRUE /\ stopPlay' = FALSE
  /\ StartLoop(IF sceneTime < Start \/ sceneTime >= End THEN Start ELSE sceneTime)
  /\ outer' = tick /\ tick' = None
  /\ UNCHANGED <<mode, frameTime, loop, inTick, sceneTime, animationTime, ignored>>

Advance == \E next \in GetNextTime : current' = next[1] /\ frame' = next[2]

\* Mutant: the property is left alone.
TickInternalSilent(t) ==
  /\ cue' = "active"
  /\ inTick' = TRUE /\ tick' = t /\ sceneTime' = t
  /\ animationTime' = animationTime /\ ignored' = FALSE

\* TickInternal up to the tick event: pqAnimationScene::onTick passes the
\* time to the property, then events are processed.
TickInternal(t) ==
  /\ cue' = "active"
  /\ inTick' = TRUE /\ tick' = t /\ sceneTime' = t
  /\ animationTime' = t /\ ignored' = FALSE

\* Play, the inner loop: tick the scene, whose cue may have ended.
Ticks(t) == cue = "active" \/ (cue = "uninitialized" /\ t >= Start)
Continues == inPlay /\ tick = None /\ ~stopPlay /\ current <= End

PlayTick ==
  /\ Continues /\ Ticks(current)
  /\ TickInternal(current)
  /\ last' = current /\ ticks' = (IF ticks = 0 THEN 1 ELSE 2)
  /\ UNCHANGED <<mode, frameTime, loop, player, outer, resumed>>

PlayPast ==
  /\ Continues /\ ~Ticks(current)
  /\ Advance
  /\ UNCHANGED <<mode, frameTime, loop, inPlay, stopPlay, scene, history>>

\* Play, the outer loop.
EndLoop ==
  /\ inPlay /\ tick = None /\ (stopPlay \/ current > End)
  /\ IF loop /\ ~stopPlay
       THEN StartLoop(Start) /\ UNCHANGED <<inPlay, stopPlay>>
       ELSE /\ inPlay' = FALSE /\ stopPlay' = FALSE /\ current' = Start
            /\ UNCHANGED <<frame, cue, resumed, last, ticks>>
  /\ UNCHANGED <<mode, frameTime, loop, inTick, tick, outer, sceneTime, animationTime, ignored>>

\* The end of a tick, after events are processed.
EndTick ==
  /\ tick # None
  /\ inTick' = FALSE /\ tick' = None
  /\ cue' = IF tick >= End THEN "inactive" ELSE cue
  /\ IF inPlay THEN Advance ELSE UNCHANGED <<current, frame>>
  /\ UNCHANGED <<mode, frameTime, loop, inPlay, stopPlay, outer, sceneTime, animationTime, history>>

\* The end of a tick in which a whole play took place.
EndOuterTick ==
  /\ outer # None /\ ~inPlay
  /\ inTick' = FALSE /\ outer' = None
  /\ cue' = IF cue = "active" /\ outer >= End THEN "inactive" ELSE cue
  /\ UNCHANGED <<mode, frameTime, loop, player, tick, sceneTime, animationTime, history>>

\* Mutant: the cue ticks at any time.
SetSceneTimeAnywhere(t) ==
  IF inTick THEN UNCHANGED <<cue, inTick, tick, sceneTime>> ELSE TickInternal(t)

\* SetSceneTime is ignored in a tick.  Otherwise the cue starts afresh; it does
\* not tick before its start, nor beyond its end, where it becomes inactive.
SceneTicks(t) == ~inTick /\ t >= Start /\ t <= End

SetSceneTime(t) ==
  IF SceneTicks(t) THEN TickInternal(t)
  ELSE /\ cue' = IF inTick THEN cue
                 ELSE IF t < Start THEN "uninitialized" ELSE "inactive"
       /\ UNCHANGED <<inTick, tick, sceneTime>>

CanAct == Idle \/ tick # None

\* A button other than Play: in a play it only stops it.
GoToTime(t) ==
  /\ CanAct
  /\ stopPlay' = inPlay
  /\ SetSceneTime(t)
  /\ IF SceneTicks(t) THEN TRUE ELSE UNCHANGED <<animationTime, ignored>>
  /\ UNCHANGED <<mode, frameTime, loop, inPlay, current, frame, outer, resumed, last, ticks>>

Stop ==
  /\ tick # None /\ inPlay
  /\ stopPlay' = TRUE
  /\ UNCHANGED <<mode, frameTime, loop, inPlay, current, frame, scene, history>>

\* pqAnimationScene::setAnimationTime, with any number: a property that has
\* the value already is not sent.
SetAnimationTime(t) ==
  /\ CanAct /\ t # animationTime
  /\ animationTime' = t
  /\ SetSceneTime(t)
  /\ IF SceneTicks(t) THEN TRUE ELSE ignored' = (ignored \/ inTick)
  /\ UNCHANGED <<mode, frameTime, loop, player, outer, resumed, last, ticks>>

SetLoop(val) ==
  /\ CanAct /\ loop # val
  /\ loop' = val
  /\ UNCHANGED <<mode, frameTime, player, scene, history>>

Next ==
  \/ Play \/ Stop
  \/ PlayTick \/ PlayPast \/ EndLoop
  \/ EndTick \/ EndOuterTick
  \/ \E t \in GoTo : GoToTime(t)
  \/ \E t \in Instants : SetAnimationTime(t)
  \/ \E val \in BOOLEAN : SetLoop(val)

\* The loop runs by itself, and processing events comes to an end.
Fairness == WF_vars(PlayTick \/ PlayPast \/ EndLoop) /\ WF_vars(EndTick \/ EndOuterTick)

Spec == Init /\ [][Next]_vars /\ Fairness

-----------------------------------------------------------------------------
(* Properties                                                              *)

\* The variables have their types; a tick that processes events is that of
\* the scene's time, and knows to be one.
TypeOK ==
  /\ mode \in {"sequence", "timesteps", "realtime"} /\ frameTime \in FrameTimes
  /\ {loop, inPlay, stopPlay, inTick, ignored, resumed} \subseteq BOOLEAN
  /\ current \in Int /\ frame \in Nat
  /\ cue \in {"uninitialized", "active", "inactive"}
  /\ tick \in Start .. End \cup {None}
  /\ outer \in Start .. End \cup {None}
  /\ tick # None => inTick /\ cue = "active" /\ tick = sceneTime
  /\ sceneTime \in Start .. End /\ animationTime \in Int
  /\ last \in Start .. End \cup {None} /\ ticks \in 0 .. 2

\* What a loop has to show: the frames that were not computed to lie beyond
\* the end, the time steps, or the end.
Frames ==
  CASE mode = "sequence" ->
         {t \in {frameTime[n] : n \in 0 .. NumberOfFrames - 1} : t <= End}
    [] mode = "timesteps" -> {s \in Steps : s <= End}
    [] mode = "realtime" -> {End}

\* What a sequence passes over after the first tick when it is resumed: the
\* frame nearest to that time, should it come later, and the one after that.
Forgone ==
  IF mode = "sequence" /\ resumed /\ ticks = 1
    THEN {frameTime[FrameOf(last)], frameTime[FrameOf(last) + 1]} ELSE {}

\* After the last tick and before t.
Skips(t) == \E f \in Frames \ Forgone : last < f /\ f < t

PlaysTick == inPlay /\ tick = None /\ tick' # None
LoopEnds == inPlay /\ ~stopPlay /\ current > End /\ (~inPlay' \/ last' = None)

\* Whatever users do while a loop ticks: times come in order; no frame of a
\* sequence and no time step of the data is skipped, neither between two
\* ticks nor at the end; and in real time, too, a loop that is not stopped
\* reaches the end of the scene.  The exceptions are the last frame of a
\* sequence when it is computed to lie beyond the end, and the two frames
\* that a resumed sequence may forgo.
NoFrameSkipped ==
  [][last # None =>
       /\ PlaysTick => tick' >= last /\ ~Skips(tick')
       /\ LoopEnds => ~Skips(End + 1)]_vars

\* Between ticks, users see the time of the scene, unless one they asked for
\* was ignored in a tick, or lies outside the range, where the cue does not
\* tick but the property keeps it.
TimeIsShown ==
  tick = None /\ ~ignored /\ animationTime \in Start .. End =>
    animationTime = sceneTime

\* No play goes on for ever unless it is to loop and nobody stops it: every
\* mode makes up a time beyond the end, and a request to stop is not lost
\* when it comes while a tick ends, or a loop does.  The exception is real
\* time when the scene ends at zero or before, of which 1.1 times is no later.
PlayEnds ==
  (End > 0 \/ mode # "realtime") => []<>(~inPlay \/ (loop /\ ~stopPlay))

=============================================================================
