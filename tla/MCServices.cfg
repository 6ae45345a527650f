SPECIFICATION Spec
CONSTANTS
  Thread = {w1, w2}
  Led = {1, 2}
  Setting = {0, 1}
  Initial = 0
  Url = {u1, u2}
  Pool = 2
  Connection = {c1, c2}
  MaxPosts = 3
  NOBODY = NOBODY
SYMMETRY Symmetry
INVARIANTS SettledAlike ListedIsServed
CHECK_DEADLOCK FALSE
