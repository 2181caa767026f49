CONSTANTS
  Thermometer = "sht4x"
  Gains = {1}
  Rates = {1}
  MaxEvents = 1
SPECIFICATION Spec
PROPERTY ReadingsGoOnAfterErrors
