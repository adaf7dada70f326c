SPECIFICATION Spec
CONSTANTS
  original = original  c1 = c1  c2 = c2  c3 = c3
  Children = {c1, c2, c3}
  Original = original
  MayFail = FALSE
INVARIANT OriginalLeavesSdkAlone

