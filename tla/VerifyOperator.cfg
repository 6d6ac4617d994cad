SPECIFICATION Spec
CONSTANTS
  Policies = {"observe", "other"}
  SlotModes = {"reject"}
  Caps = {0}
  NoCap = NoCap
  Holiday = Holiday
  Sentinel = Sentinel
  MaxLate = 1
  MaxOther = 1
CHECK_DEADLOCK FALSE
INVARIANTS
  ChangedOnlyInRace
  ResidueReported
