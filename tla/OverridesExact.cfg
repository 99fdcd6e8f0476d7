SPECIFICATION OverrideSpec
CONSTANTS
  t1 = t1
  a1 = a1
  a2 = a2
  b1 = b1
  b2 = b2
  c1 = c1
  d1 = d1
  Orig = Orig
  Tools <- MCTools
  FluxApp <- MCFluxApp
  Chart <- MCChart
  Ctrls <- MCCtrls
  Images <- MCImages
  MaxOps = 4
INVARIANT RevertIsExact
SYMMETRY Sym
CHECK_DEADLOCK FALSE
