CONSTANTS
  Blank = Blank
  Junk = Junk
  Wildcards = {wild}
  Every = Every
  Loopback = Loopback
  localhost = localhost
  tailnet = tailnet
  zero = zero
  wild = wild
  lo = lo
  ts = ts
  Hosts = {Loopback, localhost, tailnet, zero}
  Addresses = {lo, ts}
  AddressOf <- MCAddressOf
  Configurations <- MCConfigurations
  Requests = {r1, r2}
  Asks <- MCAsks
  Registered = {m1, m2}
  MaxFaults = 2
SPECIFICATION FairSpec
CHECK_DEADLOCK FALSE
INVARIANTS
  ServiceTypeOK
  WritesAreAccepted
  PagesAreFresh
  RefusedNeverBound
  AllOrNothing
PROPERTIES
  ServesInTheEnd
  PolicyIsOneRegister
