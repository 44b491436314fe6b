SPECIFICATION Spec
CONSTANTS
  ByteBits = 4
  TotalBlks = 5
  BlkUnits = 2
  Mod32 = 9
  MaxAdds = 3
  MaxFailures = 1
  Foreign <- MCForeign
INVARIANTS TypeOK UnpackReproduces ImageIsExact
CHECK_DEADLOCK FALSE
