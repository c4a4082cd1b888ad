SPECIFICATION Spec
CONSTANTS
  Entries = {e1, e2, e3}
  Flows = {f1, f2, f3}
  Accounts = {a1, a2}
  Tokens = {t1, t2}
  Blank = Blank
  None = None
SYMMETRY Symmetry
INVARIANTS RightAccount SameLoginOnce OwnAccountAccepted IInv
PROPERTY FlowsAreAtomic
