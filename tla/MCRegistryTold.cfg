SPECIFICATION Spec
CONSTANTS
  d1 = d1
  d2 = d2
  Devices = {d1, d2}
  Clients = {c1}
  NoDevice = NoDevice
  Ids <- MCIds
  IdOf <- MCIdOf
  Capacity = 1
INVARIANT DisconnectIsTold
