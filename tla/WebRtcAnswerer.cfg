CONSTANTS
  Calls = {c1, c2}
  Keys = {k1}
  NoPc = NoPc
  MAX_WEBRTC_ANSWERERS = 2
SPECIFICATION AnswererSpec
INVARIANTS CondemnedIsUnwanted OneReader SlotStandsForPc
PROPERTIES RouteSurvives SlotComesBack NoPcLeaks
CHECK_DEADLOCK FALSE
