SPECIFICATION FairSpec
CONSTANTS
  Devices = {d1, d2}
  Listings = {{d1, d2}}
  Calls = {c1}
  Runs = {r1, r2}
PROPERTIES OneDeviceBlocksNone
