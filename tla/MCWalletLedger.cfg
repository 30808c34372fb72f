\* Three concurrent requests on two wallets that cannot afford all of them; a
\* conversion pays one and receives two.
SPECIFICATION FairSpec
CONSTANTS
  r1 = r1
  r2 = r2
  r3 = r3
  w1 = w1
  w2 = w2
  Free = Free
  Requests = {r1, r2, r3}
  Wallets = {w1, w2}
  Amounts = {1}
  Quotes = {2}
  Opening <- MCOpening
INVARIANTS
  RowsCoherent
  ChecksStayTrue
  Accounting
PROPERTIES
  ImplementsLedger
  EveryRequestEnds
CHECK_DEADLOCK FALSE
