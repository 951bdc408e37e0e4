\* One processor pushes without looking; five tasks.
SPECIFICATION Safety
CONSTANTS
  Threads = {t1, t2, t3, t4, t5}
  Pushers = {p1}
  Tasks = {k1, k2, k3, k4, k5}
  Nil = Nil
  Caller = "any"
SYMMETRY ThreadSymmetry
INVARIANT RunningLeftAlone
\* A core that returns into the stack of a finished task stays in "fault".
CHECK_DEADLOCK FALSE
