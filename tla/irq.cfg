SPECIFICATION IrqFairSpec
CONSTANTS
  Width = 3
  Interval = 3
  Period = 2
  Bits <- MCTwo
  TopSpl = 3
  MaxMasked = 2
  MaxKcalls = 1
PROPERTIES TicksOnTime ClockNeverStops SoftintsRun CodeGoesOn
