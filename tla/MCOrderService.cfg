\* Two orders and a transfer of two users, with failed queries, lost answers and crashes.
SPECIFICATION MCSpec
CONSTANTS
  alice = alice
  bob = bob
  o1 = o1
  o2 = o2
  t1 = t1
  Users = {alice, bob}
  Orders = {o1, o2}
  Transfers = {t1}
  Quantities = {1}
  Prices = {2}
  Slips = {0, 1}
  Opening <- MCOpening
INVARIANTS
  TypeOK
  AnswerAgreesWithRecord
  FilledHasBothLegs
  OnlyStaleWritesLose
  LockedUnlessSettled
PROPERTIES
  FinalStatus
  OrdersSettle
CHECK_DEADLOCK FALSE
