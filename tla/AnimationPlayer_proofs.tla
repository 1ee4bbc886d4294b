------------------------ MODULE AnimationPlayer_proofs ------------------------
(***************************************************************************)
(* For every range, number of frames, rounding of their times, and set of  *)
(* time steps, and whatever users do: a play skips nothing but what        *)
(* NoFrameSkipped names, and the time shown is that of the scene.          *)
(*                                                                         *)
(* The argument follows the loop: while a tick of a play processes events, *)
(* the current time is the one ticked last; between two ticks it is the    *)
(* next time of the player, behind which nothing is left out.  Only the    *)
(* loop itself changes these, since a scene that is in a tick ignores      *)
(* every other time.                                                       *)
(***************************************************************************)
EXTENDS AnimationPlayer, FiniteSetTheorems, TLAPS

-----------------------------------------------------------------------------
(* The players                                                             *)

\* Products and quotients keep the order.
LEMMA TimesKeepsOrder ==
  \A m \in Nat : \A x, y \in Int : x <= y => x * m <= y * m
OBVIOUS

LEMMA DivKeepsOrder ==
  \A d \in Nat \ {0} : \A x, y \in Int : x <= y => x \div d <= y \div d
OBVIOUS

\* The range, and the frames it is divided into.
LEMMA Ranges ==
  /\ Start \in Int /\ End \in Int /\ Start < End
  /\ End - Start \in Nat \ {0} /\ 2 * (End - Start) \in Nat \ {0}
  /\ NumberOfFrames \in Nat /\ NumberOfFrames - 1 \in Nat \ {0}
BY RangeAssumption, FramesAssumption

\* The frame nearest to a time has a number.
LEMMA FrameOfInt == ASSUME NEW t \in Int PROVE FrameOf(t) \in Int
<1>1. \A x, y \in Int : x * y \in Int
  OBVIOUS
<1>2. (2 * (t - Start)) * (NumberOfFrames - 1) \in Int
  BY <1>1, Ranges
<1> DEFINE a == 2 * (t - Start) * (NumberOfFrames - 1) + (End - Start)
           d == 2 * (End - Start)
<1>3. a \in Int /\ d \in Nat \ {0}
  BY <1>2, Ranges
<1> HIDE DEF a, d
<1>4. a \div d \in Int
  BY <1>3
<1>5. QED
  BY <1>4 DEF FrameOf, a, d

\* Later times do not have earlier frames.
LEMMA FrameOfKeepsOrder ==
  ASSUME NEW t \in Int, NEW u \in Int, t <= u
  PROVE  FrameOf(t) <= FrameOf(u)
<1> DEFINE a(x) == 2 * (x - Start) * (NumberOfFrames - 1)
           d == 2 * (End - Start)
<1>1. 2 * (t - Start) <= 2 * (u - Start) /\ NumberOfFrames - 1 \in Nat
  BY Ranges
<1>2. 2 * (t - Start) \in Int /\ 2 * (u - Start) \in Int
  BY Ranges
<1>3. a(t) <= a(u)
  BY <1>1, <1>2, TimesKeepsOrder
<1>4. a(t) \in Int /\ a(u) \in Int
  <2>1. \A x, y \in Int : x * y \in Int
    OBVIOUS
  <2>2. QED
    BY <1>1, <1>2, <2>1
<1> HIDE DEF a
<1>5. a(t) + (End - Start) \in Int /\ a(u) + (End - Start) \in Int
      /\ a(t) + (End - Start) <= a(u) + (End - Start) /\ d \in Nat \ {0}
  BY <1>3, <1>4, Ranges
<1>6. (a(t) + (End - Start)) \div d <= (a(u) + (End - Start)) \div d
  <2> HIDE DEF d
  <2>1. QED
    BY <1>5, DivKeepsOrder
<1>7. QED
  BY <1>6 DEF FrameOf, a, d

\* Times in the range have frames of the sequence.
LEMMA FrameOfRange == ASSUME NEW t \in Start .. End PROVE FrameOf(t) \in 0 .. NumberOfFrames - 1
<1> DEFINE r == End - Start
           m == NumberOfFrames - 1
<1>1. r \in Nat \ {0} /\ m \in Nat
  BY Ranges
<1>2. /\ FrameOf(Start) = (2 * (Start - Start) * m + r) \div (2 * r)
      /\ FrameOf(End) = (2 * r * m + r) \div (2 * r)
  BY DEF FrameOf
<1>3. Start - Start = 0
  BY Ranges
<1>4. \A x, k \in Nat : x # 0 => (2 * 0 * k + x) \div (2 * x) = 0
  OBVIOUS
<1>5. \A x \in Nat \ {0} : \A k \in Nat : (2 * x * k + x) \div (2 * x) = k
  <2> TAKE x \in Nat \ {0}
  <2> TAKE k \in Nat
  <2> DEFINE d == 2 * x
             z == d * k + x
             q == z \div d
  <2>1. d \in Nat \ {0} /\ x < d /\ x >= 0
    OBVIOUS
  <2>2. d * k \in Nat
    <3>1. \A y, w \in Nat : y * w \in Nat
      OBVIOUS
    <3>2. QED
      BY <2>1, <3>1
  <2>3. \A y \in Nat \ {0} : \A n \in Nat :
          (n \div y) \in Nat /\ y * (n \div y) <= n /\ n < y * (n \div y) + y
    OBVIOUS
  <2> HIDE DEF d
  <2>9. z \in Nat
    BY <2>2
  <2> HIDE DEF z
  <2>10. q \in Nat /\ d * q <= z /\ z < d * q + d
    BY <2>1, <2>3, <2>9
  <2> HIDE DEF q
  <2>4. q \in Nat /\ d * q <= d * k + x /\ d * k + x < d * q + d
    BY <2>10 DEF z
  <2>5. \A y \in Nat \ {0} : \A u, v \in Nat : u < v => y * u + y <= y * v
    OBVIOUS
  <2>6. ~(q < k) /\ ~(k < q)
    <3>1. d * q \in Nat
      BY <2>1, <2>4
    <3>2. q < k => d * q + d <= d * k
      BY <2>1, <2>4, <2>5
    <3>3. k < q => d * k + d <= d * q
      BY <2>1, <2>4, <2>5
    <3>4. x \in Nat
      OBVIOUS
    <3>5. QED
      BY <2>1, <2>2, <2>4, <3>1, <3>2, <3>3, <3>4
  <2>7. q = k
    BY <2>4, <2>6
  <2>8. QED
    BY <2>7 DEF q, z, d
<1>6. FrameOf(Start) = 0
  <2> HIDE DEF r, m
  <2>1. QED
    BY <1>1, <1>2, <1>3, <1>4
<1>7. FrameOf(End) = m
  <2> HIDE DEF r, m
  <2>1. QED
    BY <1>1, <1>2, <1>5
<1>8. t \in Int /\ Start <= t /\ t <= End
  BY Ranges
<1>9. FrameOf(Start) <= FrameOf(t) /\ FrameOf(t) <= FrameOf(End)
  BY <1>8, FrameOfKeepsOrder, Ranges
<1>10. QED
  BY <1>1, <1>6, <1>7, <1>8, <1>9, FrameOfInt

\* The computed times of frames.
LEMMA Rounded ==
  ASSUME NEW f \in FrameTimes
  PROVE  /\ \A n \in FrameNumber : f[n] \in Int /\ n \in Int
         /\ f[0] = Start
         /\ \A m, n \in FrameNumber : m < n => f[m] < f[n]
         /\ \A n \in 0 .. NumberOfFrames - 1 : FrameOf(f[n]) = n
         /\ \A n \in FrameNumber : n > NumberOfFrames - 1 => f[n] > End
         /\ FrameNumber = 0 .. NumberOfFrames + 1
<1>1. f \in [FrameNumber -> Int]
  BY FrameTimesAssumption
<1>2. \A n \in FrameNumber : n \in Int
  BY Ranges DEF FrameNumber
<1>3. QED
  BY <1>1, <1>2, FrameTimesAssumption DEF FrameNumber

\* Among finitely many, one has the least number: by the well-founded ordering
\* of finite sets, one that the fewest precede.
LEMMA LeastOf ==
  ASSUME NEW S, IsFiniteSet(S), S # {}, NEW f \in [S -> Int]
  PROVE  \E x \in S : \A y \in S : f[x] <= f[y]
<1> DEFINE Upto(x) == {y \in S : f[y] <= f[x]}
           T == {Upto(x) : x \in S}
           Less == StrictSubsetOrdering(S)
<1>1. T \subseteq FiniteSubsetsOf(S) /\ T # {}
  <2>1. \A x \in S : Upto(x) \in SUBSET S
    OBVIOUS
  <2>2. FiniteSubsetsOf(S) = SUBSET S
    BY FS_FiniteSubsetsOfFinite
  <2>3. T \subseteq SUBSET S
    BY <2>1
  <2>4. T # {}
    <3>1. PICK x \in S : TRUE
      OBVIOUS
    <3>2. Upto(x) \in T
      OBVIOUS
    <3>3. QED
      BY <3>2
  <2>5. QED
    BY <2>2, <2>3, <2>4
<1>2. IsWellFoundedOn(Less, FiniteSubsetsOf(S))
  BY FS_StrictSubsetOrderingWellFounded
<1> HIDE DEF T, Less
<1>3. PICK X \in T : \A Y \in T : ~(<<Y, X>> \in Less)
  BY <1>1, <1>2, WFMin
<1> USE DEF T, Less
<1>4. PICK x \in S : X = Upto(x)
  OBVIOUS
<1>5. ASSUME NEW y \in S, f[y] < f[x] PROVE FALSE
  <2>1. f[y] \in Int /\ f[x] \in Int /\ \A z \in S : f[z] \in Int
    OBVIOUS
  <2>2. /\ \A z \in S : f[z] <= f[y] => f[z] <= f[x]
        /\ f[x] <= f[x] /\ ~(f[x] <= f[y])
    BY <1>5, <2>1
  <2>3. Upto(y) \subseteq Upto(x) /\ x \in Upto(x) /\ x \notin Upto(y)
    BY <2>2
  <2>4. <<Upto(y), X>> \in Less
    BY <1>4, <2>3 DEF StrictSubsetOrdering
  <2>5. QED
    BY <1>3, <2>4
<1>6. QED
  BY <1>5

\* A finite set of numbers has a least one.
LEMMA Least ==
  ASSUME NEW S, IsFiniteSet(S), S \subseteq Int, S # {}
  PROVE  \E x \in S : \A y \in S : x <= y
<1> DEFINE f == [x \in S |-> x]
<1>1. f \in [S -> Int]
  OBVIOUS
<1> HIDE DEF f
<1>2. PICK x \in S : \A y \in S : f[x] <= f[y]
  BY <1>1, LeastOf
<1>3. QED
  BY <1>2 DEF f

\* And a greatest one.
LEMMA Greatest ==
  ASSUME NEW S, IsFiniteSet(S), S \subseteq Int, S # {}
  PROVE  \E x \in S : \A y \in S : y <= x
<1> DEFINE f == [x \in S |-> -x]
<1>1. f \in [S -> Int]
  OBVIOUS
<1> HIDE DEF f
<1>2. PICK x \in S : \A y \in S : f[x] <= f[y]
  BY <1>1, LeastOf
<1>3. \A y \in S : -x <= -y
  BY <1>2 DEF f
<1>4. QED
  BY <1>3

\* The next time step of the data, if there is one.
LEMMA NextStep ==
  ASSUME NEW t \in Int, \E s \in Steps : ~(s <= t)
  PROVE  /\ LeastAbove(Steps, t) \in Steps
         /\ LeastAbove(Steps, t) > t
         /\ \A s \in Steps : s > t => LeastAbove(Steps, t) <= s
<1> DEFINE S == {s \in Steps : s > t}
<1>1. IsFiniteSet(S) /\ S \subseteq Int /\ S # {}
  <2>1. S \subseteq Steps
    OBVIOUS
  <2>2. IsFiniteSet(S)
    BY <2>1, FS_Subset, InstantsAssumption
  <2>3. PICK s \in Steps : ~(s <= t)
    OBVIOUS
  <2>4. s \in S
    BY <2>3, InstantsAssumption
  <2>5. QED
    BY <2>2, <2>4, InstantsAssumption
<1>2. \E s \in S : \A u \in S : s <= u
  BY <1>1, Least
<1>3. \E s \in Steps : s > t /\ \A u \in Steps : u > t => s <= u
  BY <1>2
<1>4. QED
  BY <1>3 DEF LeastAbove

\* Buttons lead into the range of the scene.
LEMMA GoToInRange ==
  ASSUME sceneTime \in Start .. End, mode \in {"sequence", "timesteps", "realtime"}
  PROVE  GoTo \subseteq Start .. End
<1>1. \A t, u \in Int : u \in Start .. End => Clipped(t, u) \in Start .. End
  BY RangeAssumption DEF Clipped
<1>2. Start \in Start .. End /\ End \in Start .. End
  BY RangeAssumption
<1> DEFINE length == (End - Start) \div (NumberOfFrames - 1)
           before == {s \in Steps : s < sceneTime}
           latest == CHOOSE s \in before : \A u \in before : u <= s
<1>3. sceneTime \in Int
  BY RangeAssumption
<1>4. before # {} => latest \in Int
  <2>1. IsFiniteSet(before) /\ before \subseteq Int
    BY FS_Subset, InstantsAssumption
  <2>2. before # {} => \E s \in before : \A u \in before : u <= s
    BY <2>1, Greatest
  <2>3. QED
    BY <2>1, <2>2
<1>5. (\E s \in Steps : ~(s <= sceneTime)) => LeastAbove(Steps, sceneTime) \in Int
  BY <1>3, NextStep, InstantsAssumption
<1>0. length \in Int
  <2>1. \A x \in Int : \A y \in Nat \ {0} : x \div y \in Int
    OBVIOUS
  <2>2. QED
    BY <2>1, Ranges
<1> DEFINE next == CASE mode = "sequence" -> sceneTime + length
                     [] mode = "realtime" -> sceneTime + 1
                     [] OTHER -> IF \A s \in Steps : s <= sceneTime THEN sceneTime
                                 ELSE LeastAbove(Steps, sceneTime)
           previous == CASE mode = "sequence" -> sceneTime - length
                         [] mode = "realtime" -> sceneTime - 1
                         [] OTHER -> IF before = {} THEN sceneTime ELSE latest
<1> HIDE DEF length
<1>6. next \in Int
  BY <1>0, <1>3, <1>5
<1> HIDE DEF latest
<1>7. previous \in Int
  BY <1>0, <1>3, <1>4
<1>8. GoTo = {Start, End, Clipped(next, End), Clipped(previous, Start)}
  BY DEF GoTo, latest, length
<1> HIDE DEF next, previous
<1>9. QED
  BY <1>1, <1>2, <1>6, <1>7, <1>8, RangeAssumption

-----------------------------------------------------------------------------
(* The inductive invariant                                                 *)

Modes == {"sequence", "timesteps", "realtime"}

\* The loop has started and not ticked.
Started ==
  /\ tick = None /\ cue = "uninitialized" /\ ticks = 0 /\ frame = 0
  /\ current < End /\ (resumed <=> current > Start)

\* A tick of the loop processes events.  The first one of a sequence may be
\* at any time, the others are at frames.
Ticked ==
  /\ tick = current /\ last = current /\ current <= End
  /\ ticks \in {1, 2}
  /\ mode = "sequence" /\ ticks = 1 =>
       frame = 0 /\ last < End /\ (resumed <=> last > Start)
  /\ mode = "sequence" /\ ticks = 2 =>
       frame > 0 /\ frame \in FrameNumber /\ current = frameTime[frame]

\* The loop has ticked, and knows the next time.
Resumes == resumed /\ ticks = 1

Between ==
  /\ tick = None /\ ticks \in {1, 2}
  /\ cue = "inactive" => last = End
  /\ mode = "sequence" =>
       /\ frame > 0 /\ frame \in FrameNumber /\ current = frameTime[frame]
       /\ IF Resumes THEN last < End /\ frame = FrameOf(last) + 2
          ELSE last = frameTime[frame - 1]
  /\ mode = "timesteps" =>
       current >= last /\ \A s \in Steps : last < s /\ s <= End => current <= s
  /\ mode = "realtime" =>
       (current >= last \/ cue = "inactive") /\ (current <= End \/ last = End)

LoopInv ==
  inPlay => \/ last = None /\ Started
            \/ last # None /\ (Ticked \/ Between)

IInv ==
  /\ TypeOK /\ LoopInv
  /\ current >= Start \/ (inPlay /\ mode = "realtime" /\ cue = "inactive")
  /\ outer # None /\ ~inPlay => tick = None
  /\ ~ignored /\ animationTime \in Start .. End => animationTime = sceneTime

\* What is used of the constants everywhere.
LEMMA Bounds == Start \in Int /\ End \in Int /\ Start < End /\ None \notin Int
BY RangeAssumption, NeverAssumption

\* The invariant holds at the start.
LEMMA InitIInv == Init => IInv
<1> SUFFICES ASSUME Init PROVE IInv
  OBVIOUS
<1> USE Bounds DEF Init
<1>1. {loop, inPlay, stopPlay, inTick, ignored, resumed} \subseteq BOOLEAN
  OBVIOUS
<1>2. /\ mode \in {"sequence", "timesteps", "realtime"}
      /\ current \in Int /\ frame \in Nat
      /\ cue \in {"uninitialized", "active", "inactive"}
      /\ sceneTime \in Start .. End /\ animationTime \in Int
      /\ ticks \in 0 .. 2 /\ frameTime \in FrameTimes
  OBVIOUS
<1>3. TypeOK
  BY <1>1, <1>2 DEF TypeOK
<1>4. LoopInv
  BY DEF LoopInv
<1>5. QED
  BY <1>3, <1>4 DEF IInv

\* What the next time is.
LEMMA NextTime ==
  ASSUME current \in Int, current <= End, frame \in Nat,
         NEW next \in GetNextTime, mode \in Modes, frameTime \in FrameTimes,
         mode # "realtime" => current >= Start,
         mode = "sequence" =>
           frame = 0 \/ (frame \in FrameNumber /\ current = frameTime[frame])
  PROVE  /\ next[1] \in Int /\ next[2] \in Nat
         /\ next[1] >= Start \/ (mode = "realtime" /\ current = End)
         /\ mode = "sequence" =>
              /\ next[2] > 0 /\ next[2] \in FrameNumber
              /\ next[1] = frameTime[next[2]]
              /\ next[2] = IF frame = 0 /\ current > Start
                             THEN FrameOf(current) + 2 ELSE frame + 1
         /\ mode = "timesteps" =>
              /\ next[1] >= current
              /\ \A s \in Steps : current < s /\ s <= End => next[1] <= s
         /\ mode = "realtime" =>
              current = End \/ (next[1] >= current /\ next[1] <= End)
<1> USE Bounds
<1>1. CASE mode = "sequence"
  <2> DEFINE no == IF frame = 0 /\ current > Start THEN FrameOf(current) + 1 ELSE frame
  <2>1. next = <<frameTime[no + 1], no + 1>>
    BY <1>1 DEF GetNextTime, SequenceNext
  <2>2. current \in Start .. End
    BY <1>1
  <2>3. FrameOf(current) \in 0 .. NumberOfFrames - 1
    BY <2>2, FrameOfRange
  <2>4. /\ no \in Nat /\ no <= NumberOfFrames
        /\ no + 1 = IF frame = 0 /\ current > Start
                      THEN FrameOf(current) + 2 ELSE frame + 1
    <3>1. frame > 0 => frame <= NumberOfFrames - 1
      BY <1>1, <2>2, Rounded, Ranges
    <3>2. QED
      BY <2>3, <3>1, Ranges
  <2> HIDE DEF no
  <2>5. no + 1 \in FrameNumber /\ 0 \in FrameNumber /\ 0 < no + 1
    BY <2>4, Ranges DEF FrameNumber
  <2>6. frameTime[no + 1] \in Int /\ frameTime[no + 1] >= Start
    BY <2>5, Rounded
  <2>7. next[1] = frameTime[no + 1] /\ next[2] = no + 1
    BY <2>1
  <2>8. QED
    BY <1>1, <2>4, <2>5, <2>6, <2>7
<1>2. CASE mode = "timesteps"
  <2>1. next \in TimestepsNext
    BY <1>2 DEF GetNextTime
  <2>2. CASE frame + 1 < FramesPerTimestep
    <3>1. next = <<current, frame + 1>>
      BY <2>1, <2>2 DEF TimestepsNext
    <3>2. QED
      BY <1>2, <3>1, InstantsAssumption
  <2>3. CASE ~(frame + 1 < FramesPerTimestep) /\ (current >= End \/ \A s \in Steps : s <= current)
    <3>1. next = <<Never, 0>>
      BY <2>1, <2>3 DEF TimestepsNext
    <3>2. \A s \in Steps : ~(current < s /\ s <= End)
      BY <2>3, InstantsAssumption
    <3>3. QED
      BY <1>2, <3>1, <3>2, NeverAssumption
  <2>4. CASE ~(frame + 1 < FramesPerTimestep) /\ ~(current >= End \/ \A s \in Steps : s <= current)
    <3> DEFINE least == LeastAbove(Steps, current)
    <3>1. next = <<least, 0>>
      BY <2>1, <2>4 DEF TimestepsNext
    <3>2. /\ least \in Steps /\ least > current
          /\ \A s \in Steps : s > current => least <= s
      BY <2>4, NextStep
    <3> HIDE DEF least
    <3>3. Steps \subseteq Int
      BY InstantsAssumption
    <3>4. least \in Int
      BY <3>2, <3>3
    <3>5. least >= Start /\ least >= current
      BY <1>2, <3>2, <3>4
    <3>6. \A s \in Steps : current < s /\ s <= End => least <= s
      BY <3>2, <3>3
    <3>7. next[1] = least /\ next[2] = 0
      BY <3>1
    <3>8. QED
      BY <1>2, <3>4, <3>5, <3>6, <3>7
  <2>5. QED
    BY <2>2, <2>3, <2>4
<1>3. CASE mode = "realtime"
  <2>1. next \in RealtimeNext
    BY <1>3 DEF GetNextTime
  <2>2. CASE current = End
    <3> DEFINE past == IF End > 0 THEN (End * 11 + 9) \div 10 ELSE (End * 11) \div 10
    <3>1. next = <<past, frame>>
      BY <2>1, <2>2 DEF RealtimeNext
    <3>2. past \in Int
      OBVIOUS
    <3> HIDE DEF past
    <3>3. QED
      BY <1>3, <2>2, <3>1, <3>2
  <2>3. CASE current # End
    <3>1. PICK t \in {u \in Instants \cap Start .. End : u > current} \cup {End} :
                   next = <<t, frame>>
      BY <2>1, <2>3 DEF RealtimeNext
    <3>2. t \in Int /\ t >= current /\ t <= End /\ t >= Start
      OBVIOUS
    <3>3. QED
      BY <1>3, <3>1, <3>2
  <2>4. QED
    BY <2>2, <2>3
<1>4. QED
  BY <1>1, <1>2, <1>3 DEF Modes

-----------------------------------------------------------------------------
(* What users do                                                           *)

Flags == loop \in BOOLEAN /\ inPlay \in BOOLEAN /\ stopPlay \in BOOLEAN
           /\ inTick \in BOOLEAN /\ ignored \in BOOLEAN /\ resumed \in BOOLEAN

\* The parts of the type invariant, apart.
Types ==
  /\ mode \in Modes /\ frameTime \in FrameTimes
  /\ current \in Int /\ frame \in Nat
  /\ cue \in {"uninitialized", "active", "inactive"}
  /\ tick \in Start .. End \cup {None} /\ outer \in Start .. End \cup {None}
  /\ tick # None => inTick /\ cue = "active" /\ tick = sceneTime
  /\ sceneTime \in Start .. End /\ animationTime \in Int
  /\ last \in Start .. End \cup {None} /\ ticks \in 0 .. 2

\* The type invariant is its parts.
LEMMA TypeParts == TypeOK <=> Flags /\ Types
<1>1. TypeOK => Flags
  BY DEF TypeOK, Flags
<1>2. TypeOK => Types
  BY DEF TypeOK, Types, Modes
<1>3. Flags => {loop, inPlay, stopPlay, inTick, ignored, resumed} \subseteq BOOLEAN
  BY DEF Flags
<1>4. Flags /\ Types => TypeOK
  BY <1>3 DEF TypeOK, Types, Modes
<1>5. QED
  BY <1>1, <1>2, <1>4

\* What the loop is made of.
loopVars == <<mode, frameTime, inPlay, current, frame, cue, tick, resumed, last, ticks>>

\* Nothing that leaves the loop alone changes what is known of it.
LEMMA LoopStays == LoopInv /\ UNCHANGED loopVars => LoopInv'
<1> SUFFICES ASSUME LoopInv, UNCHANGED loopVars PROVE LoopInv'
  OBVIOUS
<1> USE DEF loopVars
<1>1. Started => Started'
  BY DEF Started
<1>2. Ticked => Ticked'
  BY DEF Ticked
<1>3. Between => Between'
  BY DEF Between, Resumes
<1>4. QED
  BY <1>1, <1>2, <1>3 DEF LoopInv

\* A tick by hand, when no play goes on.
LEMMA TickByHand ==
  ASSUME IInv, NEW t \in Start .. End, ~inPlay, outer = None, TickInternal(t),
         UNCHANGED <<mode, frameTime, loop, inPlay, current, frame, outer, resumed, last, ticks>>,
         stopPlay' \in BOOLEAN
  PROVE  IInv'
<1> USE Bounds
<1>1. Flags /\ Types
  BY TypeParts DEF IInv
<1>2. Flags'
  BY <1>1 DEF Flags, TickInternal
<1>3. Types'
  BY <1>1 DEF Types, TickInternal
<1>4. TypeOK'
  BY <1>2, <1>3, TypeParts, PTL
<1>5. LoopInv'
  BY DEF LoopInv
<1>6. QED
  BY <1>4, <1>5 DEF IInv, TickInternal

\* Within a tick, the scene ignores times, whatever the property does.
LEMMA IgnoredTime ==
  ASSUME IInv, inTick,
         UNCHANGED <<mode, frameTime, loop, inPlay, current, frame, outer, resumed, last, ticks,
                     cue, inTick, tick, sceneTime>>,
         stopPlay' \in BOOLEAN,
         animationTime' \in Int, ignored' \in BOOLEAN,
         ~ignored' => ~ignored /\ animationTime' = animationTime
  PROVE  IInv'
<1>1. Flags /\ Types
  BY TypeParts DEF IInv
<1>2. Flags'
  BY <1>1 DEF Flags
<1>3. Types'
  BY <1>1 DEF Types
<1>4. TypeOK'
  BY <1>2, <1>3, TypeParts, PTL
<1>5. LoopInv'
  BY LoopStays DEF IInv, loopVars
<1>6. QED
  BY <1>4, <1>5 DEF IInv

\* Outside the range, the cue does not tick: the property keeps the time.
LEMMA OutsideTime ==
  ASSUME IInv, ~inTick, ~inPlay, outer = None,
         UNCHANGED <<mode, frameTime, loop, inPlay, current, frame, outer, resumed, last,
                     ticks, inTick, tick, sceneTime, ignored>>,
         cue' \in {"uninitialized", "inactive"}, stopPlay' \in BOOLEAN,
         animationTime' \in Int, animationTime' \notin Start .. End
  PROVE  IInv'
<1>1. Flags /\ Types
  BY TypeParts DEF IInv
<1>2. tick = None
  BY <1>1 DEF Types
<1>3. Flags' /\ Types'
  BY <1>1, <1>2 DEF Flags, Types
<1>4. TypeOK'
  BY <1>3, TypeParts, PTL
<1>5. LoopInv'
  BY DEF LoopInv
<1>6. QED
  BY <1>4, <1>5 DEF IInv

\* A button that asks for a time.
LEMMA GoToTimeKeeps == ASSUME IInv, NEW t \in GoTo, GoToTime(t) PROVE IInv'
<1>1. Flags /\ Types
  BY TypeParts DEF IInv
<1>2. t \in Start .. End
  BY <1>1, GoToInRange DEF Types, Modes
<1>3. stopPlay' \in BOOLEAN
  BY <1>1 DEF GoToTime, Flags
<1>4. CASE inTick
  BY <1>1, <1>3, <1>4, IgnoredTime DEF GoToTime, SetSceneTime, SceneTicks, Types, Flags
<1>5. CASE ~inTick
  <2>1. ~inPlay /\ outer = None
    BY <1>1, <1>5 DEF GoToTime, CanAct, Idle, Types
  <2>2. TickInternal(t)
    BY <1>2, <1>5, Bounds DEF GoToTime, SetSceneTime, SceneTicks
  <2>3. UNCHANGED <<mode, frameTime, loop, inPlay, current, frame, outer, resumed, last, ticks>>
    BY DEF GoToTime
  <2>4. QED
    BY <1>2, <1>3, <2>1, <2>2, <2>3, TickByHand
<1>6. QED
  BY <1>4, <1>5

\* A time that is entered.
LEMMA SetAnimationTimeKeeps ==
  ASSUME IInv, NEW t \in Instants, SetAnimationTime(t) PROVE IInv'
<1>1. Flags /\ Types
  BY TypeParts DEF IInv
<1>2. t \in Int
  BY InstantsAssumption
<1>3. stopPlay' \in BOOLEAN
  BY <1>1 DEF SetAnimationTime, Flags, player
<1> DEFINE Rest == UNCHANGED <<mode, frameTime, loop, inPlay, current, frame, outer,
                               resumed, last, ticks>>
<1>4. Rest /\ animationTime' = t
  BY DEF SetAnimationTime, player
<1>5. CASE inTick
  <2>1. ignored' = TRUE
    BY <1>5 DEF SetAnimationTime, SceneTicks
  <2>2. UNCHANGED <<cue, inTick, tick, sceneTime>>
    BY <1>5 DEF SetAnimationTime, SetSceneTime, SceneTicks
  <2>3. QED
    BY <1>2, <1>3, <1>4, <1>5, <2>1, <2>2, IgnoredTime
<1>6. CASE ~inTick
  <2>1. ~inPlay /\ outer = None
    BY <1>1, <1>6 DEF SetAnimationTime, CanAct, Idle, Types
  <2>2. CASE t \in Start .. End
    <3>1. TickInternal(t)
      BY <1>6, <2>2, Bounds DEF SetAnimationTime, SetSceneTime, SceneTicks
    <3>2. QED
      BY <1>3, <1>4, <2>1, <2>2, <3>1, TickByHand
  <2>3. CASE t \notin Start .. End
    <3>1. ~SceneTicks(t)
      BY <1>2, <2>3, Bounds DEF SceneTicks
    <3>2. /\ cue' \in {"uninitialized", "inactive"}
          /\ UNCHANGED <<inTick, tick, sceneTime>>
      BY <1>6, <3>1 DEF SetAnimationTime, SetSceneTime
    <3>3. ignored' = ignored
      BY <1>1, <1>6, <3>1 DEF SetAnimationTime, Flags
    <3>4. QED
      BY <1>2, <1>3, <1>4, <1>6, <2>1, <2>3, <3>2, <3>3, OutsideTime
  <2>4. QED
    BY <2>2, <2>3
<1>7. QED
  BY <1>5, <1>6

\* The button that stops a play.
LEMMA StopKeeps == ASSUME IInv, Stop PROVE IInv'
<1>1. Flags /\ Types
  BY TypeParts DEF IInv
<1> USE DEF Stop, scene, history
<1>2. Flags' /\ Types'
  BY <1>1 DEF Flags, Types
<1>3. TypeOK'
  BY <1>2, TypeParts, PTL
<1>4. LoopInv'
  BY LoopStays DEF IInv, loopVars
<1>5. QED
  BY <1>3, <1>4 DEF IInv

\* The button that makes plays loop.
LEMMA SetLoopKeeps == ASSUME IInv, NEW val \in BOOLEAN, SetLoop(val) PROVE IInv'
<1>1. Flags /\ Types
  BY TypeParts DEF IInv
<1> USE DEF SetLoop, player, scene, history
<1>2. Flags' /\ Types'
  BY <1>1 DEF Flags, Types
<1>3. TypeOK'
  BY <1>2, TypeParts, PTL
<1>4. LoopInv'
  BY LoopStays DEF IInv, loopVars
<1>5. QED
  BY <1>3, <1>4 DEF IInv

\* The end of a tick in which a play took place.
LEMMA EndOuterTickKeeps == ASSUME IInv, EndOuterTick PROVE IInv'
<1>1. Flags /\ Types /\ tick = None
  BY TypeParts DEF IInv, EndOuterTick
<1> USE DEF EndOuterTick, player, history
<1>2. Flags' /\ Types'
  BY <1>1, Bounds DEF Flags, Types
<1>3. TypeOK'
  BY <1>2, TypeParts, PTL
<1>4. LoopInv'
  BY DEF LoopInv
<1>5. QED
  BY <1>3, <1>4 DEF IInv

-----------------------------------------------------------------------------
(* The loop                                                                *)

\* A play begins.
LEMMA PlayKeeps == ASSUME IInv, Play PROVE IInv'
<1>1. Flags /\ Types
  BY TypeParts DEF IInv
<1> DEFINE t == IF sceneTime < Start \/ sceneTime >= End THEN Start ELSE sceneTime
<1>2. t \in Start .. End /\ t < End
  BY <1>1, Bounds DEF Types
<1>3. /\ inPlay' = TRUE /\ stopPlay' = FALSE /\ tick' = None /\ outer' = tick
      /\ current' = t /\ frame' = 0 /\ cue' = "uninitialized"
      /\ resumed' = (t > Start) /\ last' = None /\ ticks' = 0
      /\ UNCHANGED <<mode, frameTime, loop, inTick, sceneTime, animationTime, ignored>>
  BY DEF Play, StartLoop
<1> HIDE DEF t
<1>4. Flags' /\ Types'
  <2>1. resumed' \in BOOLEAN
    BY <1>3
  <2>2. Flags'
    BY <1>1, <1>3, <2>1 DEF Flags
  <2>3. Types'
    BY <1>1, <1>2, <1>3, Bounds DEF Types
  <2>4. QED
    BY <2>2, <2>3
<1>5. TypeOK'
  BY <1>4, TypeParts, PTL
<1>6. LoopInv'
  BY <1>2, <1>3, Bounds DEF LoopInv, Started
<1>7. QED
  BY <1>2, <1>3, <1>5, <1>6, Bounds DEF IInv

\* A loop ends, and the play with it unless it is to go on.
LEMMA EndLoopKeeps == ASSUME IInv, EndLoop PROVE IInv'
<1>1. Flags /\ Types
  BY TypeParts DEF IInv
<1>2. CASE loop /\ ~stopPlay
  <2>0. resumed' = FALSE
    <3>1. resumed' = (Start > Start)
      BY <1>2 DEF EndLoop, StartLoop
    <3>2. (Start > Start) = FALSE
      BY Bounds
    <3>3. QED
      BY <3>1, <3>2
  <2>1. /\ current' = Start /\ frame' = 0 /\ cue' = "uninitialized"
        /\ last' = None /\ ticks' = 0 /\ tick' = None
        /\ UNCHANGED <<inPlay, stopPlay, mode, frameTime, loop, inTick, tick, outer,
                      sceneTime, animationTime, ignored>>
    BY <1>2 DEF EndLoop, StartLoop
  <2>2. Flags' /\ Types'
    BY <1>1, <2>0, <2>1, Bounds DEF Flags, Types
  <2>3. TypeOK'
    BY <2>2, TypeParts, PTL
  <2>4. LoopInv'
    BY <2>0, <2>1, Bounds DEF LoopInv, Started
  <2>5. QED
    BY <2>1, <2>3, <2>4, Bounds DEF IInv
<1>3. CASE ~(loop /\ ~stopPlay)
  <2>1. /\ inPlay' = FALSE /\ stopPlay' = FALSE /\ current' = Start /\ tick' = None
        /\ UNCHANGED <<frame, cue, resumed, last, ticks, mode, loop, inTick, tick,
                      outer, sceneTime, animationTime, ignored, frameTime>>
    BY <1>3 DEF EndLoop
  <2>2. Flags' /\ Types'
    BY <1>1, <2>1, Bounds DEF Flags, Types
  <2>3. TypeOK'
    BY <2>2, TypeParts, PTL
  <2>4. LoopInv'
    BY <2>1 DEF LoopInv
  <2>5. QED
    BY <2>1, <2>3, <2>4, Bounds DEF IInv
<1>4. QED
  BY <1>2, <1>3

\* A tick of the loop.
LEMMA PlayTickKeeps == ASSUME IInv, PlayTick PROVE IInv'
<1> USE Bounds
<1>1. Flags /\ Types
  BY TypeParts DEF IInv
<1>2. /\ tick' = current /\ cue' = "active" /\ inTick' = TRUE
      /\ sceneTime' = current /\ animationTime' = current /\ ignored' = FALSE
      /\ last' = current /\ ticks' = (IF ticks = 0 THEN 1 ELSE 2)
      /\ UNCHANGED <<mode, frameTime, loop, inPlay, stopPlay, current, frame, outer, resumed>>
      /\ inPlay /\ tick = None /\ current <= End
      /\ cue # "inactive"
  BY DEF PlayTick, TickInternal, Continues, Ticks, player
<1>3. current \in Start .. End
  BY <1>1, <1>2 DEF IInv, Types
<1>4. Flags' /\ Types'
  BY <1>1, <1>2, <1>3 DEF Flags, Types
<1>5. TypeOK'
  BY <1>4, TypeParts, PTL
<1>6. Ticked'
  <2>1. CASE last = None /\ Started
    BY <1>2, <1>3, <2>1 DEF Started, Ticked
  <2>2. CASE last # None /\ Between
    <3>1. ticks' = 2
      BY <1>2, <2>2 DEF Between
    <3>2. mode = "sequence" =>
            frame > 0 /\ frame \in FrameNumber /\ current = frameTime[frame]
      BY <2>2 DEF Between
    <3>3. QED
      BY <1>2, <1>3, <3>1, <3>2 DEF Ticked
  <2>3. CASE Ticked
    BY <1>2, <1>3, <2>3 DEF Ticked
  <2>4. QED
    BY <1>2, <2>1, <2>2, <2>3 DEF IInv, LoopInv
<1>7. LoopInv'
  BY <1>2, <1>3, <1>6 DEF LoopInv
<1>8. QED
  BY <1>1, <1>2, <1>3, <1>5, <1>7 DEF IInv

\* From one tick to the next.
LEMMA Advanced ==
  ASSUME IInv, Ticked, Advance, inPlay, tick' = None, last # None,
         cue' = "inactive" <=> last = End,
         UNCHANGED <<mode, frameTime, resumed, last, ticks>>
  PROVE  /\ Between' /\ current' \in Int /\ frame' \in Nat
         /\ current' >= Start \/ (mode = "realtime" /\ cue' = "inactive")
<1> USE Bounds
<1>1. Flags /\ Types
  BY TypeParts DEF IInv
<1>2. PICK next \in GetNextTime : current' = next[1] /\ frame' = next[2]
  BY DEF Advance
<1>3. /\ current = last /\ current <= End /\ ticks \in {1, 2}
      /\ last \in Start .. End
  BY <1>1 DEF Ticked, Types
<1>4. mode = "sequence" =>
        frame = 0 \/ (frame \in FrameNumber /\ current = frameTime[frame])
  BY DEF Ticked
<1>5. /\ current' \in Int /\ frame' \in Nat
      /\ current' >= Start \/ (mode = "realtime" /\ current = End)
      /\ mode = "sequence" =>
           /\ frame' > 0 /\ frame' \in FrameNumber
           /\ current' = frameTime[frame']
           /\ frame' = IF frame = 0 /\ current > Start
                         THEN FrameOf(current) + 2 ELSE frame + 1
      /\ mode = "timesteps" =>
           /\ current' >= current
           /\ \A s \in Steps : current < s /\ s <= End => current' <= s
      /\ mode = "realtime" =>
           current = End \/ (current' >= current /\ current' <= End)
  BY <1>1, <1>2, <1>3, <1>4, NextTime DEF Types
<1>6. mode = "sequence" =>
        IF Resumes THEN last < End /\ frame' = FrameOf(last) + 2
        ELSE last = frameTime[frame' - 1]
  <2> SUFFICES ASSUME mode = "sequence"
               PROVE IF Resumes THEN last < End /\ frame' = FrameOf(last) + 2
                     ELSE last = frameTime[frame' - 1]
    OBVIOUS
  <2>1. CASE Resumes
    BY <1>3, <1>5, <2>1 DEF Resumes, Ticked
  <2>2. CASE ticks = 1 /\ ~resumed
    <3>1. frame = 0 /\ current = Start
      BY <1>1, <1>3, <2>2 DEF Ticked, Types
    <3>2. frame' = 1 /\ frame' - 1 = 0
      BY <1>5, <3>1
    <3>3. frameTime[0] = Start
      BY <1>1, Rounded DEF Types
    <3>4. QED
      BY <1>3, <2>2, <3>1, <3>2, <3>3 DEF Resumes
  <2>3. CASE ticks = 2
    <3>1. frame > 0 /\ current = frameTime[frame]
      BY <2>3 DEF Ticked
    <3>2. frame \in Nat
      BY <1>1 DEF Types
    <3>3. frame # 0
      BY <3>1, <3>2
    <3>4. frame' = frame + 1
      BY <1>5, <3>3
    <3>5. frame' - 1 = frame
      BY <3>2, <3>4
    <3>6. QED
      BY <1>3, <2>3, <3>1, <3>5 DEF Resumes
  <2>4. QED
    BY <1>3, <2>1, <2>2, <2>3 DEF Resumes
<1>7. Between'
  BY <1>3, <1>5, <1>6 DEF Between, Resumes
<1>8. QED
  BY <1>3, <1>5, <1>7

\* The end of a tick, of the loop or by hand.
LEMMA EndTickKeeps == ASSUME IInv, EndTick PROVE IInv'
<1> USE Bounds
<1>1. Flags /\ Types /\ tick \in Int
  BY TypeParts DEF IInv, EndTick, Types
<1>2. /\ inTick' = FALSE /\ tick' = None
      /\ cue' = IF tick >= End THEN "inactive" ELSE cue
      /\ UNCHANGED <<mode, frameTime, loop, inPlay, stopPlay, outer, sceneTime, animationTime,
                    ignored, resumed, last, ticks>>
  BY DEF EndTick, history
<1>3. CASE inPlay
  <2>1. Advance
    BY <1>3 DEF EndTick
  <2>2. Ticked /\ last # None
    BY <1>1, <1>3 DEF IInv, LoopInv, Started, Between
  <2>3. cue' = "inactive" <=> last = End
    BY <1>1, <1>2, <2>2 DEF Types, Ticked
  <2>4. /\ Between' /\ current' \in Int /\ frame' \in Nat
        /\ current' >= Start \/ (mode = "realtime" /\ cue' = "inactive")
    BY <1>2, <1>3, <2>1, <2>2, <2>3, Advanced
  <2>5. Flags' /\ Types'
    BY <1>1, <1>2, <2>4 DEF Flags, Types
  <2>6. TypeOK'
    BY <2>5, TypeParts, PTL
  <2>7. LoopInv'
    BY <1>2, <2>2, <2>4 DEF LoopInv
  <2>8. current' >= Start \/ (inPlay' /\ mode' = "realtime" /\ cue' = "inactive")
    BY <1>2, <1>3, <2>4
  <2>9. UNCHANGED <<outer, sceneTime, animationTime, ignored>> /\ tick' = None
    BY <1>2
  <2>10. QED
    BY <2>6, <2>7, <2>8, <2>9 DEF IInv
<1>4. CASE ~inPlay
  <2>1. UNCHANGED <<current, frame>>
    BY <1>4 DEF EndTick
  <2>2. Flags' /\ Types'
    BY <1>1, <1>2, <2>1 DEF Flags, Types
  <2>3. TypeOK'
    BY <2>2, TypeParts, PTL
  <2>4. LoopInv'
    BY <1>2, <1>4 DEF LoopInv
  <2>5. QED
    BY <1>2, <2>1, <2>3, <2>4 DEF IInv
<1>5. QED
  BY <1>3, <1>4

\* The cue has ended with the tick at the end: what is passed is the end.
LEMMA PlayPastKeeps == ASSUME IInv, PlayPast PROVE IInv'
<1> USE Bounds
<1>1. Flags /\ Types
  BY TypeParts DEF IInv
<1>2. /\ inPlay /\ tick = None /\ current <= End /\ cue = "inactive" /\ Advance
      /\ UNCHANGED <<mode, frameTime, loop, inPlay, stopPlay, scene, history>>
  <2>1. current >= Start \/ cue = "inactive"
    BY DEF IInv
  <2>2. QED
    BY <1>1, <2>1 DEF PlayPast, Continues, Ticks, Types
<1>3. last # None /\ Between /\ last = End
  BY <1>1, <1>2 DEF IInv, LoopInv, Started, Ticked, Between
<1>4. mode # "sequence"
  <2> SUFFICES ASSUME mode = "sequence" PROVE FALSE
    OBVIOUS
  <2>1. /\ frame > 0 /\ frame \in FrameNumber /\ current = frameTime[frame]
        /\ last = frameTime[frame - 1]
    BY <1>3 DEF Between
  <2>2. frame - 1 \in FrameNumber /\ frame - 1 < frame
    BY <2>1, Ranges DEF FrameNumber
  <2>3. frameTime[frame - 1] < frameTime[frame]
    BY <1>1, <2>1, <2>2, Rounded DEF Types
  <2>4. QED
    BY <1>1, <1>2, <1>3, <2>1, <2>3 DEF Types
<1>5. PICK next \in GetNextTime : current' = next[1] /\ frame' = next[2]
  BY <1>2 DEF Advance
<1>6. mode # "realtime" => current >= Start
  BY DEF IInv
<1>7. /\ current' \in Int /\ frame' \in Nat
      /\ current' >= Start \/ mode = "realtime"
      /\ mode = "timesteps" => current' >= End
  BY <1>1, <1>2, <1>3, <1>4, <1>5, <1>6, NextTime DEF Types, Between
<1>8. Between'
  <2>1. /\ tick' = None /\ ticks' \in {1, 2} /\ cue' = "inactive"
        /\ mode' = mode /\ last' = End
    BY <1>2, <1>3 DEF Between, scene, history
  <2>2. \A s \in Steps : ~(last' < s /\ s <= End)
    BY <2>1, InstantsAssumption
  <2>3. mode = "timesteps" => current' >= last'
    BY <1>7, <2>1
  <2>4. QED
    BY <1>4, <2>1, <2>2, <2>3 DEF Between
<1>9. Flags' /\ Types'
  BY <1>1, <1>2, <1>7 DEF Flags, Types, scene, history
<1>10. TypeOK'
  BY <1>9, TypeParts, PTL
<1>11. LoopInv'
  <2>1. last' # None
    BY <1>2, <1>3 DEF history
  <2>2. QED
    BY <1>8, <2>1 DEF LoopInv
<1>12. UNCHANGED <<mode, inPlay, outer, tick, cue, ignored, animationTime, sceneTime>>
  BY <1>2 DEF scene, history
<1>13. current' >= Start \/ (mode = "realtime" /\ cue = "inactive")
  BY <1>2, <1>7
<1>14. QED
  BY <1>2, <1>10, <1>11, <1>12, <1>13 DEF IInv

-----------------------------------------------------------------------------
(* Theorems                                                                *)

\* Every step keeps the invariant.
LEMMA StepIInv == IInv /\ [Next]_vars => IInv'
<1> SUFFICES ASSUME IInv, [Next]_vars PROVE IInv'
  OBVIOUS
<1>1. CASE UNCHANGED vars
  <2>1. UNCHANGED <<mode, frameTime, loop, inPlay, stopPlay, current, frame, cue, inTick, tick,
                    outer, sceneTime, animationTime, ignored, resumed, last, ticks>>
    BY <1>1 DEF vars, player, scene, history
  <2>2. LoopInv'
    BY <2>1, LoopStays DEF IInv, loopVars
  <2>3. TypeOK'
    BY <2>1 DEF IInv, TypeOK
  <2>4. QED
    BY <2>1, <2>2, <2>3 DEF IInv
<1>2. CASE Play
  BY <1>2, PlayKeeps
<1>3. CASE Stop
  BY <1>3, StopKeeps
<1>4. CASE PlayTick
  BY <1>4, PlayTickKeeps
<1>5. CASE PlayPast
  BY <1>5, PlayPastKeeps
<1>6. CASE EndLoop
  BY <1>6, EndLoopKeeps
<1>7. CASE EndTick
  BY <1>7, EndTickKeeps
<1>8. CASE EndOuterTick
  BY <1>8, EndOuterTickKeeps
<1>9. CASE \E t \in GoTo : GoToTime(t)
  BY <1>9, GoToTimeKeeps
<1>10. CASE \E t \in Instants : SetAnimationTime(t)
  BY <1>10, SetAnimationTimeKeeps
<1>11. CASE \E val \in BOOLEAN : SetLoop(val)
  BY <1>11, SetLoopKeeps
<1>12. QED
  BY <1>1, <1>2, <1>3, <1>4, <1>5, <1>6, <1>7, <1>8, <1>9, <1>10, <1>11 DEF Next

\* What each variable says about a play in progress, in every reachable state.
THEOREM Inductive == Spec => []IInv
<1>1. Init => IInv
  BY InitIInv
<1>2. IInv /\ [Next]_vars => IInv'
  BY StepIInv
<1>3. QED
  BY <1>1, <1>2, PTL DEF Spec

\* The variables keep their types, for every range, mode and set of times.
THEOREM TypeCorrect == Spec => []TypeOK
<1>1. IInv => TypeOK
  BY DEF IInv
<1>2. QED
  BY <1>1, Inductive, PTL

\* Between ticks users see the time of the scene, unless they asked for a time
\* in the middle of one, or for one outside the range.
THEOREM TimeShown == Spec => []TimeIsShown
<1>1. IInv => TimeIsShown
  BY DEF IInv, TimeIsShown
<1>2. QED
  BY <1>1, Inductive, PTL

\* What lies between the last tick and the next time is nothing to be shown,
\* and nothing is left once that is beyond the end.
LEMMA NothingBetween ==
  ASSUME IInv, Between, inPlay, last # None
  PROVE  /\ cue # "inactive" => current >= last /\ ~Skips(current)
         /\ current > End => ~Skips(End + 1)
<1> USE Bounds
<1>1. Types /\ last \in Start .. End /\ last \in Int /\ ticks \in {1, 2}
  BY TypeParts DEF IInv, Types, Between
<1>2. CASE mode = "sequence"
  <2> DEFINE k == FrameOf(last)
  <2>1. /\ frame > 0 /\ frame \in FrameNumber /\ current = frameTime[frame]
        /\ IF Resumes THEN last < End /\ frame = k + 2
           ELSE last = frameTime[frame - 1]
    BY <1>2 DEF Between
  <2>2. /\ \A n \in FrameNumber : frameTime[n] \in Int /\ n \in Int
        /\ \A m, n \in FrameNumber : m < n => frameTime[m] < frameTime[n]
        /\ \A n \in 0 .. NumberOfFrames - 1 : FrameOf(frameTime[n]) = n
        /\ \A n \in FrameNumber : n > NumberOfFrames - 1 => frameTime[n] > End
        /\ FrameNumber = 0 .. NumberOfFrames + 1
    BY <1>1, Rounded DEF Types
  <2>3. k \in 0 .. NumberOfFrames - 1
    BY <1>1, FrameOfRange
  <2>4. current >= last
    <3>1. CASE Resumes
      <4>1. CASE frame <= NumberOfFrames - 1
        <5>1. frame \in 0 .. NumberOfFrames - 1
          BY <2>1, <2>2, <4>1, Ranges
        <5>2. FrameOf(current) = k + 2
          BY <2>1, <2>2, <3>1, <5>1
        <5>3. current \in Int /\ ~(current <= last)
          BY <1>1, <2>1, <2>2, <2>3, <5>2, FrameOfKeepsOrder
        <5>4. QED
          BY <1>1, <5>3
      <4>2. CASE frame > NumberOfFrames - 1
        BY <1>1, <2>1, <2>2, <4>2
      <4>3. QED
        BY <2>1, <2>2, <4>1, <4>2, Ranges
    <3>2. CASE ~Resumes
      <4>1. frame - 1 \in FrameNumber /\ frame - 1 < frame
        BY <2>1, <2>2, Ranges
      <4>2. QED
        BY <1>1, <2>1, <2>2, <3>2, <4>1
    <3>3. QED
      BY <3>1, <3>2
  <2>5. ASSUME NEW n \in 0 .. NumberOfFrames - 1, frameTime[n] \notin Forgone,
               last < frameTime[n]
        PROVE  current <= frameTime[n]
    <3>1. n \in FrameNumber /\ n \in Int /\ FrameOf(frameTime[n]) = n /\ frameTime[n] \in Int
      BY <2>2, Ranges
    <3>2. frame <= n
      <4>1. CASE Resumes
        <5>1. n # k /\ n # k + 1
          BY <1>2, <2>5, <4>1 DEF Forgone, Resumes
        <5>2. k <= n
          BY <1>1, <2>5, <3>1, FrameOfKeepsOrder
        <5>3. QED
          BY <2>1, <2>3, <3>1, <4>1, <5>1, <5>2
      <4>2. CASE ~Resumes
        <5>1. frame - 1 \in FrameNumber /\ frame \in Int
          BY <2>1, <2>2, Ranges
        <5>2. ~(n < frame - 1) /\ n # frame - 1
          BY <2>1, <2>2, <2>5, <3>1, <4>2, <5>1
        <5>3. QED
          BY <3>1, <5>1, <5>2
      <4>3. QED
        BY <4>1, <4>2
    <3>3. frame = n \/ frame < n
      BY <2>1, <2>2, <3>1, <3>2
    <3>4. QED
      BY <2>1, <2>2, <3>1, <3>3
  <2> HIDE DEF k
  <2>6. \A f \in Frames \ Forgone :
          f \in Int /\ f <= End /\ (last < f => current <= f)
    <3>1. Frames = {t \in {frameTime[n] : n \in 0 .. NumberOfFrames - 1} : t <= End}
      BY <1>2 DEF Frames
    <3>2. \A n \in 0 .. NumberOfFrames - 1 : n \in FrameNumber
      BY <2>2, Ranges
    <3>3. QED
      BY <2>2, <2>5, <3>1, <3>2
  <2>7. QED
    BY <1>1, <2>4, <2>6 DEF Skips, Types
<1>3. CASE mode = "timesteps"
  <2>1. Frames = {s \in Steps : s <= End}
    BY <1>3 DEF Frames
  <2>2. /\ current >= last
        /\ \A s \in Steps : last < s /\ s <= End => current <= s
    BY <1>3 DEF Between
  <2>3. \A f \in Frames : f \in Int /\ f <= End /\ (last < f => current <= f)
    BY <2>1, <2>2, InstantsAssumption
  <2>4. QED
    BY <1>1, <2>2, <2>3 DEF Skips, Types
<1>4. CASE mode = "realtime"
  <2>1. Frames = {End}
    BY <1>4 DEF Frames
  <2>2. (current >= last \/ cue = "inactive") /\ (current <= End \/ last = End)
    BY <1>4 DEF Between
  <2>3. cue # "inactive" => current >= last /\ ~Skips(current)
    BY <1>1, <2>1, <2>2 DEF Skips, Types
  <2>4. current > End => ~Skips(End + 1)
    BY <1>1, <2>1, <2>2 DEF Skips, Types
  <2>5. QED
    BY <2>3, <2>4
<1>5. QED
  BY <1>1, <1>2, <1>3, <1>4 DEF Types, Modes

\* A step of the loop, or no step of it.
LEMMA StepsOfLoop ==
  ASSUME IInv, [Next]_vars, last # None, PlaysTick \/ LoopEnds
  PROVE  Between /\ (PlaysTick => tick' = current /\ cue # "inactive")
<1>1. Types /\ Flags
  BY TypeParts DEF IInv
<1>2. inPlay
  BY DEF PlaysTick, LoopEnds
<1>3. Ticked => tick # None /\ ~(current > End)
  BY <1>1, Bounds DEF Ticked, Types
<1>4. Between
  BY <1>2, <1>3 DEF PlaysTick, LoopEnds, IInv, LoopInv
<1>5. ASSUME PlaysTick PROVE tick' = current /\ cue # "inactive"
  <2>1. tick = None /\ tick' # None /\ ~CanAct
    BY <1>2, <1>5 DEF PlaysTick, CanAct, Idle
  <2>2. CASE UNCHANGED vars
    BY <2>1, <2>2 DEF vars, scene
  <2>3. CASE Next
    <3>1. PlayTick
      BY <1>2, <2>1, <2>3 DEF Next, Play, Stop, PlayPast, EndLoop, EndTick,
         EndOuterTick, GoToTime, SetAnimationTime, SetLoop, scene
    <3>2. QED
      BY <3>1 DEF PlayTick, TickInternal, Ticks
  <2>4. QED
    BY <2>2, <2>3
<1>6. QED
  BY <1>4, <1>5

\* However the times of frames are rounded and whatever users do meanwhile, a
\* play shows every frame but the two that a resumed sequence forgoes and a
\* last one computed beyond the end, every time step, and, in real time, the
\* end: for every range, number of frames and set of time steps.
THEOREM NothingIsSkipped == Spec => NoFrameSkipped
<1> DEFINE Step ==
      last # None =>
        /\ PlaysTick => tick' >= last /\ ~Skips(tick')
        /\ LoopEnds => ~Skips(End + 1)
<1>1. IInv /\ [Next]_vars => Step
  <2> SUFFICES ASSUME IInv, [Next]_vars, last # None
               PROVE  /\ PlaysTick => tick' >= last /\ ~Skips(tick')
                      /\ LoopEnds => ~Skips(End + 1)
    OBVIOUS
  <2>1. ASSUME PlaysTick PROVE tick' >= last /\ ~Skips(tick')
    <3>1. Between /\ tick' = current /\ inPlay /\ cue # "inactive"
      BY <2>1, StepsOfLoop DEF PlaysTick
    <3>2. current >= last /\ ~Skips(current)
      BY <3>1, NothingBetween
    <3>3. ~Skips(tick')
      BY <3>1, <3>2
    <3>4. QED
      BY <3>1, <3>2, <3>3
  <2>2. ASSUME LoopEnds PROVE ~Skips(End + 1)
    <3>1. Between /\ current > End /\ inPlay
      BY <2>2, StepsOfLoop DEF LoopEnds
    <3>2. QED
      BY <3>1, NothingBetween
  <2>3. QED
    BY <2>1, <2>2
<1>2. QED
  BY <1>1, Inductive, PTL DEF Spec, NoFrameSkipped
=============================================================================
