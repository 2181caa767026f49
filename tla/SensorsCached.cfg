CONSTANTS
  Thermometer = "sht4x"
  Gains = {1, 2}
  Rates = {1, 2}
  MaxEvents = 1
SPECIFICATION Spec
INVARIANT CachedSettings
