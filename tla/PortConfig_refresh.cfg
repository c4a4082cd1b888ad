SPECIFICATION Spec
CONSTANTS
  Devices = {d1, d2}
  Listings = {{}, {d1}, {d2}, {d1, d2}}
  Calls = {c1}
  Runs = {r1, r2}
INVARIANTS NoCallStranded PollGoesOn
PROPERTIES PublishedIsCurrent NobodyLeftOut
SYMMETRY Interchangeable
