SPECIFICATION MCSpec
CONSTANTS
  Udp = {u}
  Tcp = {t1}
  Lookups = {l1}
  Devices = {d1, d2}
  Keys = {1}
  Ips = {a1}
  Gateway = gw
  Nothing = nothing
  MaxRegs = 1
  DbMayFail = TRUE
  SerialKeys = {1, 2}
  SerialIps = {a1, a2}
  SerialRegs = 2
INVARIANTS
  RaceGuidHasRow
  SerialRowIsOneMachine
PROPERTIES
  RowKeepsMachine
  SerialOkIsPersisted
