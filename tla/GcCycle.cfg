SPECIFICATION Spec
CONSTANTS
  Slots = 3
  Limit <- Limits
  Quanta = {1}
  MainOps <- MainMix
  DropOps <- DropMix
INVARIANTS NoDangling IdleClean
PROPERTIES WeakKept CollectReclaims CycleDropsFirst
