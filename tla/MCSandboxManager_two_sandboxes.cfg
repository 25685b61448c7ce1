\* Two activations overlap.
CONSTANTS
  c1 = c1
  c2 = c2
  b1 = b1
  b2 = b2
  NoBox = NoBox
  Callers = {c1, c2}
  Boxes = {b1, b2}
  MaxCrashes = 2
  CrashBound = 2
SPECIFICATION Spec
INVARIANTS OneSandboxPerPlugin
