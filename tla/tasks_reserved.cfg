\* The caller virtio.c has: one processor, which pushes if it reads RESERVED.
SPECIFICATION Safety
CONSTANTS
  Threads = {t1, t2}
  Pushers = {p1}
  Tasks = {k1, k2, k3}
  Nil = Nil
  Caller = "reserved"
SYMMETRY Symmetry
INVARIANT ReusedThreadRunsItsTask
