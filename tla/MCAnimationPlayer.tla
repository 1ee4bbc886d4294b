-------------------------- MODULE MCAnimationPlayer --------------------------
(***************************************************************************)
(* Model checking of AnimationPlayer: the times of the frames are exact,   *)
(* or the last one is computed to lie before the end, or beyond it.        *)
(***************************************************************************)
EXTENDS AnimationPlayer

Exact == [n \in FrameNumber |-> Start + ((End - Start) * n) \div (NumberOfFrames - 1)]

MCFrameTimes ==
  {[Exact EXCEPT ![NumberOfFrames - 1] = End + d] : d \in {-1, 0, 1}}

\* Before the start, inside the range and beyond the end.
MCInstants == {-5, 0, 5, 10, 20, 35, 40, 50}

=============================================================================
