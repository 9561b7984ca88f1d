SPECIFICATION UnitsSpec
CONSTANTS
  XLen = 8
  ByteLen = 2
  Counters = {"mcycle", "minstret", "hpm3"}
  Hpms = {"hpm3"}
  Half = 2
  Events = {1, 2}
  Selectors = {0, 1, 2, 3}
  BistSamples = 5
  RepCutoff = 4
  ApWindow = 6
  ApCutoff = 5
  Width = 3
  MaxSamples = 14
INVARIANTS
  DecodersAgree
  AbstractionSound
  DatapathAgrees
  CountsInOrder
  HealthAsStandard
  SeedFresh
PROPERTY
  RegistersInert
CHECK_DEADLOCK FALSE
