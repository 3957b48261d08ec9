SPECIFICATION Spec
CONSTANTS
  Slots = 3
  Limit <- Limits
  Quanta = {1}
  MainOps = {"node", "drop", "clear", "string"}
  DropOps = {"store", "string"}
INVARIANTS NoDangling
