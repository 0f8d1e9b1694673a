SPECIFICATION Spec
CONSTANTS
  Udp = {}
  Tcp = {t1, t2}
  Lookups = {}
  Devices = {d1, d2}
  Keys = {1, 2}
  Ips = {}
  Gateway = gw
  Nothing = nothing
  MaxRegs = 2
  DbMayFail = FALSE
INVARIANT RowIsOneMachine
