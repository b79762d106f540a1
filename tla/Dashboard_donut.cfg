\* Two stores; one base load and one catalog load of each store may be unanswered.
CONSTANTS
  Shops = {s1, s2}
  MaxPending = 1
  None = none
SPECIFICATION Spec
INVARIANT DonutIsOfActiveShop
