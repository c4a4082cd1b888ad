CONSTANTS
  Entries = {e1, e2}
  MaxReloads = 2
SPECIFICATION Spec
INVARIANTS IInv ServicesWhileLoaded OneListener CallServesAll OptionsApplied
