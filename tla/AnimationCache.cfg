SPECIFICATION Spec
CONSTANTS
  p1 = p1  p2 = p2
  Process = {p1, p2}
  Repr = {r1, r2}
  Time = {t1, t2}
  Value = {v1, v2}
  Curve = {c1, c2}
  Limit = 3
  Size <- MCSize
  None = None
SYMMETRY Symmetry
INVARIANTS TypeOK ProcessesAgree AccountIsExact OvershootIsBounded FramesAreCurrent ShownIsCurrent
