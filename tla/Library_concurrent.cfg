SPECIFICATION Spec
CONSTANTS
  Threads = {t1, t2, t3}
  MaxHeld = 2
INVARIANT
  UpWhileHeld
