CONSTANTS
  Order = {o1, o2}
  MaxMail = 1
  MaxFaults = 1
SPECIFICATION Spec
SYMMETRY Symmetry
INVARIANTS   SavedTogether
