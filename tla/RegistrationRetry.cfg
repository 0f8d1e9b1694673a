SPECIFICATION Spec
CONSTANTS
  Udp = {}
  Tcp = {t1}
  Lookups = {}
  Devices = {d1, d2}
  Keys = {1, 2}
  Ips = {}
  Gateway = gw
  Nothing = nothing
  MaxRegs = 2
  DbMayFail = TRUE
PROPERTY OkIsPersisted
