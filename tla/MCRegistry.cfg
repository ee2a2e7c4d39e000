SPECIFICATION Spec
CONSTANTS
  d1 = d1
  d2 = d2
  Devices = {d1, d2}
  Clients = {c1, c2}
  NoDevice = NoDevice
  Ids <- MCIds
  IdOf <- MCIdOf
  Capacity = 2
SYMMETRY ClientSymmetry
INVARIANTS TypeOK SessionsAgree ListenersOwned ListFresh
PROPERTY GoneIsNotFound
