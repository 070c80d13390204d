SPECIFICATION Spec
CONSTANTS
  u1 = u1
  u2 = u2
  Cpus = {u1, u2}
  Frames <- MCFrames
  FrameOf <- MCFrameOf
  ProtoEntries = 1
  NoFrame = NoFrame
INVARIANTS
  TypeOK
  CountsExact
CHECK_DEADLOCK FALSE
