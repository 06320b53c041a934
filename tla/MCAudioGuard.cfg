SPECIFICATION Spec
CONSTANTS
  t1 = t1
  t2 = t2
  Tasks = {t1, t2}
  Devices <- AllDevices
  MaxCalls = 3
  MaxRefused = 1
INVARIANTS
  TypeOK
  RebooterSpared
  BrandIsOfWholeDevice
  FirmwareDecides
  RefusalJustified
CHECK_DEADLOCK FALSE
