\* A sweep that races a renewal; the clock and the purchases are the least that shows it.
SPECIFICATION Spec
CONSTANTS
  Plans <- TwoPlans
  Downgrade <- BigToSmall
  Period = 2
  Trial = 1
  Grace = 2
  Margin = 1
  Gift = 1
  Days = 1
  Sweepers = {s1}
  MaxNow = 6
  MaxPurchases = 2
  MaxQuits = 1
  MaxAdjust = 1
  MaxFails = 1
INVARIANTS NeverOverNewerState
