\* A writer on the event loop, one in another thread, two tails.
SPECIFICATION FairSpec
CONSTANTS
    w1 = w1  w2 = w2  t1 = t1  t2 = t2
    None = None
    Writers = {w1, w2}
    LoopWriters = {w1}
    Tails = {t1, t2}
    QueueMax = 1
    MaxLines = 3
INVARIANTS TypeOK InOrder NoHole SeamKeepsLoopLines
PROPERTIES ImplementsTail WritersReturn GoneTailUnsubscribed
\* Every line is written and every client stays: nothing is left to do.
CHECK_DEADLOCK FALSE
