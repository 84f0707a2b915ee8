\* Two restarts before the first one has taken effect.
SPECIFICATION Spec
CONSTANTS
    h1 = h1  h2 = h2  m1 = m1  p1 = p1  p2 = p2
    None = None
    Hubs = {h1, h2, h3}
    Watchdogs = {w1, w2}
    Rows = {m1}
    Eager <- OneEager
    Procs = {p1, p2}
    Careful = TRUE
PROPERTY SparesServingHub
