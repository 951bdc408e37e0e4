\* One application processor, asked by the boot processor for one page.
SPECIFICATION Safety
CONSTANTS
  N = 1
  Pages = {p1}
  Freeing = {0, 1}
  Nil = Nil
INVARIANT MissedShootdownReported
CHECK_DEADLOCK FALSE
