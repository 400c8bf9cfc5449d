SPECIFICATION Spec
CONSTANTS
  MaxRungs = 1
  MaxSpend = 1
  MaxYield = 1
  MaxOps = 1
PROPERTIES
  OverrideSticks
