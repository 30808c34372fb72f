\* Two requests and two two-factor calls in progress at a time.
SPECIFICATION Spec
CONSTANTS
  r1 = r1
  r2 = r2
  f1 = f1
  f2 = f2
  k1 = k1
  k2 = k2
  k3 = k3
  b1 = b1
  b2 = b2
  b3 = b3
  Requests = {r1, r2}
  Codes = {1, 2}
  Sessions = {1, 2}
  Calls = {f1, f2}
  Secrets = {k1, k2, k3}
  Batches = {b1, b2, b3}
  InFlight = 2
  Bypass = TRUE
  NoCode = NoCode
  NoSecret = NoSecret
SYMMETRY Symmetry
CONSTRAINT NothingOverwritten
INVARIANTS
  TypeOK
  SignedInHasWallets
  WelcomedOnce
  FactorIsTheProvenOne
