\* Two processors push, each only after all earlier tasks have run.
SPECIFICATION Spec
CONSTANTS
  Threads = {t1, t2}
  Pushers = {p1, p2}
  Tasks = {k1, k2, k3, k4}
  Nil = Nil
  Caller = "drained"
INVARIANT ListsAtRest
INVARIANT ThreadsRecycled
PROPERTY ImplementsTaskService
