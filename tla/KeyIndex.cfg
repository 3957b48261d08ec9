SPECIFICATION IndexSpec
CONSTANTS
  ka = ka
  kb = kb
  kc = kc
  kd = kd
  Key <- Keys4
  hashOf <- Hashes4
  fold <- Fold
  MinCap = 8
  Presizes = {0, 4}
  MaxSlots = 5
INVARIANTS OccupiedExact FindExact ProbeExact
PROPERTIES ImplementsOrder
