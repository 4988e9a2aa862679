\* Two threads, a ring of three slots: it wraps, fills and empties under every
\* interleaving of two calls.
SPECIFICATION Spec
CONSTANTS
  Threads = {t1, t2}
  Items = {a, b}
  Length = 3
  NoThread = NoThread
SYMMETRY Symmetry
INVARIANTS
  TypeOK
  RingConsistent
PROPERTIES
  Linearizable
