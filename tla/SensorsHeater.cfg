CONSTANTS
  Thermometer = "sht4x"
  Gains = {1}
  Rates = {1}
  MaxEvents = 2
SPECIFICATION Spec
PROPERTY HeaterIsUsed
