\* Three orders and three cancels of a wallet that cannot back all of them.
SPECIFICATION Spec
CONSTANTS
  o1 = o1
  o2 = o2
  o3 = o3
  x1 = x1
  x2 = x2
  x3 = x3
  Orders = {o1, o2, o3}
  Cancels = {x1, x2, x3}
  Amounts = {1, 2}
  Opening <- Three
SYMMETRY Symmetry
INVARIANT
  BackedUnlessRaced
CHECK_DEADLOCK FALSE
