\* One restart at a time, people start a hub only when none is there.
SPECIFICATION FairSpec
CONSTANTS
    h1 = h1  h2 = h2  m1 = m1  p1 = p1  p2 = p2
    None = None
    Hubs = {h1, h2}
    Watchdogs = {w1}
    Rows = {m1}
    Eager <- OneEager
    Procs = {p1, p2}
    Careful = TRUE
INVARIANTS TypeOK NoOrphan
PROPERTIES SparesServingHub RestartComesBack
