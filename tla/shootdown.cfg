\* The boot processor and two application processors free two pages.
SPECIFICATION Spec
CONSTANTS
  N = 2
  Pages = {p1, p2}
  Freeing = {0, 1}
  Nil = Nil
INVARIANT TypeOK
INVARIANT AnswerMeansFlushed
INVARIANT FlushedWhenReusable
PROPERTY FreeReturns
\* When every page is freed and the other cores have halted nothing is left to do.
CHECK_DEADLOCK FALSE
