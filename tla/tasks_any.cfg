\* Two processors push without looking, four tasks, a thread for each.
SPECIFICATION Safety
CONSTANTS
  Threads = {t1, t2, t3, t4}
  Pushers = {p1, p2}
  Tasks = {k1, k2, k3, k4}
  Nil = Nil
  Caller = "any"
SYMMETRY Symmetry
INVARIANT TypeOK
 
 
PROPERTY StartsAtMostOnce
\* A core that returns into the stack of a finished task stays in "fault".
CHECK_DEADLOCK FALSE
